--------------------------- MODULE InstallerProofs ---------------------------
(* Proofs about Installer, for every set of operators, of launch directories *)
(* and of writable directories, and for every number of faults.              *)
EXTENDS Installer, TLAPS

-----------------------------------------------------------------------------
(* What the tables of the script amount to.                                 *)

\* Every state has its own position in STATE_ORDER, so the loop of lines 164-169
\* finds exactly that position.
LEMMA IndexOf ==
    ASSUME NEW i \in 1..8
    PROVE  Index(STATE_ORDER[i]) = i
  <1>1. Len(STATE_ORDER) = 8
    BY DEF STATE_ORDER
  <1>2. \A j \in 1..8 : STATE_ORDER[j] = STATE_ORDER[i] => j = i
    BY DEF STATE_ORDER
  <1>3. i \in 1..Len(STATE_ORDER)
    BY <1>1
  <1> QED
    BY <1>1, <1>2, <1>3 DEF Index

\* STATE_ORDER has the eight states of lines 113-122 and nothing else.
LEMMA OrderedIs ==
    Ordered = {"START", "COMMON_DEPS_DONE", "PYTHON_DONE", "NVIDIA_DONE",
               "DOCKER_DONE", "VLLM_DONE", "VALIDATION_DONE", "FINISH"}
  <1>1. Len(STATE_ORDER) = 8
    BY DEF STATE_ORDER
  <1>2. Ordered = {STATE_ORDER[i] : i \in 1..8}
    BY <1>1 DEF Ordered
  <1> QED
    BY <1>2 DEF STATE_ORDER

\* The scripts a state stands for, written out.
LEMMA ClaimsAre ==
    /\ Claims("START") = {}
    /\ Claims("COMMON_DEPS_DONE") = {"common_deps.sh"}
    /\ Claims("PYTHON_DONE") = {"common_deps.sh", "python.sh"}
    /\ Claims(REBOOTING) = Claims("PYTHON_DONE")
    /\ Claims("NVIDIA_DONE") = Claims("PYTHON_DONE")
    /\ Claims("DOCKER_DONE") = Claims("NVIDIA_DONE") \cup {"docker.sh"}
    /\ Claims("VLLM_DONE") = Claims("DOCKER_DONE") \cup {"validate_env.sh"}
    /\ Claims("VALIDATION_DONE") = Claims("VLLM_DONE") \cup {"vllm.sh"}
    /\ Claims("FINISH") = Claims("VALIDATION_DONE")
    /\ Claims("") = {}
    /\ Claims(Missing) = {}
  <1> DEFINE Script(i) == STEPS[STATE_ORDER[i]]
             Below(n) == {Script(i) : i \in 1..(n - 1)} \ {"nvidia.sh", "FINISH"}
  <1>1. /\ Script(1) = "common_deps.sh" /\ Script(2) = "python.sh"
        /\ Script(3) = "nvidia.sh"      /\ Script(4) = "docker.sh"
        /\ Script(5) = "validate_env.sh" /\ Script(6) = "vllm.sh"
        /\ Script(7) = "FINISH"
    BY DEF STATE_ORDER, STEPS
  <1>2. /\ Below(1) = {}
        /\ Below(2) = {"common_deps.sh"}
        /\ Below(3) = {"common_deps.sh", "python.sh"}
        /\ Below(4) = Below(3)
        /\ Below(5) = Below(4) \cup {"docker.sh"}
        /\ Below(6) = Below(5) \cup {"validate_env.sh"}
        /\ Below(7) = Below(6) \cup {"vllm.sh"}
        /\ Below(8) = Below(7)
    <2> HIDE DEF Script
    <2>1. 1..0 = {} /\ 1..1 = {1} /\ 1..2 = {1, 2} /\ 1..3 = {1, 2, 3}
          /\ 1..4 = {1, 2, 3, 4} /\ 1..5 = {1, 2, 3, 4, 5}
          /\ 1..6 = {1, 2, 3, 4, 5, 6} /\ 1..7 = {1, 2, 3, 4, 5, 6, 7}
      OBVIOUS
    <2> QED
      BY <1>1, <2>1
  <1>3. \A i \in 1..8 : Claims(STATE_ORDER[i]) = Below(i)
    <2> TAKE i \in 1..8
    <2>1. STATE_ORDER[i] \in Ordered /\ STATE_ORDER[i] # REBOOTING
      BY OrderedIs DEF STATE_ORDER, REBOOTING
    <2> QED
      BY <2>1, IndexOf DEF Claims
  <1>4. /\ STATE_ORDER[1] = "START" /\ STATE_ORDER[2] = "COMMON_DEPS_DONE"
        /\ STATE_ORDER[3] = "PYTHON_DONE" /\ STATE_ORDER[4] = "NVIDIA_DONE"
        /\ STATE_ORDER[5] = "DOCKER_DONE" /\ STATE_ORDER[6] = "VLLM_DONE"
        /\ STATE_ORDER[7] = "VALIDATION_DONE" /\ STATE_ORDER[8] = "FINISH"
    BY DEF STATE_ORDER
  <1>5. Claims(REBOOTING) = Below(3)
    BY <1>4, IndexOf DEF Claims
  <1>6. Claims("") = {} /\ Claims(Missing) = {}
    BY OrderedIs DEF Claims, REBOOTING, Missing
  <1> HIDE DEF Below
  <1>7. /\ Claims("START") = Below(1) /\ Claims("COMMON_DEPS_DONE") = Below(2)
        /\ Claims("PYTHON_DONE") = Below(3) /\ Claims("NVIDIA_DONE") = Below(4)
        /\ Claims("DOCKER_DONE") = Below(5) /\ Claims("VLLM_DONE") = Below(6)
        /\ Claims("VALIDATION_DONE") = Below(7) /\ Claims("FINISH") = Below(8)
    BY <1>3, <1>4
  <1> QED
    BY <1>2, <1>5, <1>6, <1>7

\* Saving the next state after a script claims that script and nothing more.
LEMMA NextClaims ==
    ASSUME NEW s, HasStep(s), s # "FINISH", STEPS[s] # "nvidia.sh"
    PROVE  /\ NextState(s) \in Ordered
           /\ Claims(NextState(s)) \subseteq Claims(s) \cup {STEPS[s]}
  <1>1. PICK i \in 1..8 : STATE_ORDER[i] = s
    BY DEF HasStep, Ordered, STATE_ORDER
  <1>2. i \in 1..7 /\ i # 3
    BY <1>1 DEF STATE_ORDER, STEPS
  <1>3. NextState(s) = STATE_ORDER[i + 1]
    BY <1>1, IndexOf DEF NextState
  <1>4. CASE i = 1
    <2>1. s = "START" /\ NextState(s) = "COMMON_DEPS_DONE" /\ STEPS[s] = "common_deps.sh"
      BY <1>4, <1>1, <1>3 DEF STATE_ORDER, STEPS
    <2> QED
      BY <2>1, ClaimsAre, OrderedIs
  <1>5. CASE i = 2
    <2>1. s = "COMMON_DEPS_DONE" /\ NextState(s) = "PYTHON_DONE" /\ STEPS[s] = "python.sh"
      BY <1>5, <1>1, <1>3 DEF STATE_ORDER, STEPS
    <2> QED
      BY <2>1, ClaimsAre, OrderedIs
  <1>6. CASE i = 4
    <2>1. s = "NVIDIA_DONE" /\ NextState(s) = "DOCKER_DONE" /\ STEPS[s] = "docker.sh"
      BY <1>6, <1>1, <1>3 DEF STATE_ORDER, STEPS
    <2> QED
      BY <2>1, ClaimsAre, OrderedIs
  <1>7. CASE i = 5
    <2>1. s = "DOCKER_DONE" /\ NextState(s) = "VLLM_DONE" /\ STEPS[s] = "validate_env.sh"
      BY <1>7, <1>1, <1>3 DEF STATE_ORDER, STEPS
    <2> QED
      BY <2>1, ClaimsAre, OrderedIs
  <1>8. CASE i = 6
    <2>1. s = "VLLM_DONE" /\ NextState(s) = "VALIDATION_DONE" /\ STEPS[s] = "vllm.sh"
      BY <1>8, <1>1, <1>3 DEF STATE_ORDER, STEPS
    <2> QED
      BY <2>1, ClaimsAre, OrderedIs
  <1>9. CASE i = 7
    <2>1. s = "VALIDATION_DONE" /\ NextState(s) = "FINISH" /\ STEPS[s] = "FINISH"
      BY <1>9, <1>1, <1>3 DEF STATE_ORDER, STEPS
    <2> QED
      BY <2>1, ClaimsAre, OrderedIs
  <1> QED
    BY <1>2, <1>4, <1>5, <1>6, <1>7, <1>8, <1>9
-----------------------------------------------------------------------------
(* The inductive invariant.                                                 *)

\* The contents the script writes, or reads as CURRENT_STATE.
LEMMA Contents ==
    /\ {"START", "NVIDIA_DONE", "VALIDATION_DONE", "FINISH", "", REBOOTING} \subseteq FileContents
    /\ Ordered \subseteq FileContents
    /\ REBOOTING \notin Ordered
    /\ "" \notin Ordered
  BY OrderedIs DEF FileContents, REBOOTING

\* Only PYTHON_DONE has nvidia.sh as its script.
LEMMA NvidiaState ==
    ASSUME NEW s, HasStep(s), STEPS[s] = "nvidia.sh"
    PROVE  s = "PYTHON_DONE"
  BY OrderedIs DEF HasStep, STEPS

\* The bound on faults is a number.
LEMMA FaultBound == MaxFaults \in Nat
  BY ConstantsAssumption

\* No state file, no process: nothing is claimed at the start.
LEMMA InitInv == Init => InstallInv
  <1> SUFFICES ASSUME Init PROVE InstallInv
    OBVIOUS
  <1>1. TypeOK
    <2>1. unit \in UnitType
      BY DEF Init, UnitType
    <2>2. stateFile \in [Dirs -> FileContents \cup {Missing}]
      BY DEF Init
    <2>3. pc \in [Runs -> Labels] /\ dir \in [Runs -> Dirs]
      BY DEF Init, Labels, Dirs
    <2>4. cur \in [Runs -> FileContents] /\ saving \in [Runs -> FileContents]
      BY Contents DEF Init
    <2>5. flagFile \in [Dirs -> BOOLEAN]
      BY DEF Init
    <2>6. done \subseteq ScriptFiles
      BY DEF Init
    <2>7. faults = 0
      BY DEF Init
    <2>8. faults \in 0..MaxFaults
      BY <2>7, FaultBound
    <2> QED
      BY <2>1, <2>2, <2>3, <2>4, <2>5, <2>6, <2>8 DEF TypeOK
  <1>2. CheckpointHonest
    BY ClaimsAre DEF Init, CheckpointHonest
  <1>3. FlagHonest
    BY DEF Init, FlagHonest
  <1>4. CurHonest /\ SavingHonest /\ ExecHasStep /\ ResumingAt /\ FinishingAt
    BY DEF Init, CurHonest, SavingHonest, ExecHasStep, ResumingAt, FinishingAt, At
  <1> QED
    BY <1>1, <1>2, <1>3, <1>4 DEF InstallInv

\* One step of the script keeps the invariant.
LEMMA StepInv ==
    ASSUME InstallInv, NEW p \in Runs, Step(p)
    PROVE  InstallInv'
  <1> USE ConstantsAssumption DEF At, Goto, Write, files, Runs, Dirs
  <1>0. TypeOK /\ CheckpointHonest /\ FlagHonest /\ CurHonest /\ SavingHonest
        /\ ExecHasStep /\ ResumingAt /\ FinishingAt
    BY DEF InstallInv
  <1> USE <1>0
  <1>1. CASE OpenState(p)
    <2>1. TypeOK'
      <3> DEFINE s == IF stateFile[dir[p]] = Missing THEN "" ELSE stateFile[dir[p]]
      <3>1. s \in FileContents \cup {Missing}
        BY Contents DEF TypeOK
      <3> HIDE DEF s
      <3>2. stateFile' \in [Dirs -> FileContents \cup {Missing}]
        BY <1>1, <3>1 DEF OpenState, TypeOK, s
      <3>3. pc' \in [Runs -> Labels]
        BY <1>1 DEF OpenState, TypeOK, Labels
      <3> QED
        BY <1>1, <3>2, <3>3 DEF OpenState, TypeOK
    <2>2. CheckpointHonest'
      BY <1>1, ClaimsAre DEF OpenState, CheckpointHonest, TypeOK
    <2>3. FlagHonest'
      BY <1>1 DEF OpenState, FlagHonest
    <2>4. CurHonest' /\ SavingHonest' /\ ExecHasStep' /\ ResumingAt' /\ FinishingAt'
      BY <1>1 DEF OpenState, TypeOK, CurHonest, SavingHonest, ExecHasStep, ResumingAt, FinishingAt
    <2> QED
      BY <2>1, <2>2, <2>3, <2>4 DEF InstallInv
  <1>2. CASE CheckFullInstallation(p)
    <2>1. TypeOK'
      BY <1>2, Contents DEF CheckFullInstallation, TypeOK, UnitType, Labels
    <2>2. CheckpointHonest'
      BY <1>2 DEF CheckFullInstallation, CheckpointHonest
    <2>3. FlagHonest'
      BY <1>2 DEF CheckFullInstallation, FlagHonest
    <2>4. CurHonest' /\ SavingHonest' /\ ExecHasStep' /\ ResumingAt' /\ FinishingAt'
      BY <1>2 DEF CheckFullInstallation, TypeOK, CurHonest, SavingHonest, ExecHasStep, ResumingAt, FinishingAt
    <2> QED
      BY <2>1, <2>2, <2>3, <2>4 DEF InstallInv
  <1>3. CASE GetInstallState(p)
    <2>1. TypeOK'
      BY <1>3, Contents DEF GetInstallState, TypeOK, UnitType, Labels
    <2>2. CheckpointHonest'
      BY <1>3 DEF GetInstallState, CheckpointHonest
    <2>3. FlagHonest'
      BY <1>3 DEF GetInstallState, FlagHonest
    <2>4. CurHonest' /\ SavingHonest' /\ ExecHasStep' /\ ResumingAt' /\ FinishingAt'
      BY <1>3, ClaimsAre, Contents DEF GetInstallState, TypeOK, CheckpointHonest, CurHonest, SavingHonest, ExecHasStep, ResumingAt, FinishingAt
    <2> QED
      BY <2>1, <2>2, <2>3, <2>4 DEF InstallInv
  <1>4. CASE DisableUnit(p)
    <2>1. TypeOK'
      BY <1>4, Contents DEF DisableUnit, TypeOK, UnitType, Labels
    <2>2. CheckpointHonest'
      BY <1>4 DEF DisableUnit, CheckpointHonest
    <2>3. FlagHonest'
      BY <1>4 DEF DisableUnit, FlagHonest
    <2>4. CurHonest' /\ SavingHonest' /\ ExecHasStep' /\ ResumingAt' /\ FinishingAt'
      BY <1>4 DEF DisableUnit, TypeOK, CurHonest, SavingHonest, ExecHasStep, ResumingAt, FinishingAt
    <2> QED
      BY <2>1, <2>2, <2>3, <2>4 DEF InstallInv
  <1>5. CASE RemoveUnit(p)
    <2>1. TypeOK'
      BY <1>5, Contents DEF RemoveUnit, TypeOK, UnitType, Labels
    <2>2. CheckpointHonest'
      BY <1>5 DEF RemoveUnit, CheckpointHonest
    <2>3. FlagHonest'
      BY <1>5 DEF RemoveUnit, FlagHonest
    <2>4. CurHonest' /\ SavingHonest' /\ ExecHasStep' /\ ResumingAt' /\ FinishingAt'
      BY <1>5 DEF RemoveUnit, TypeOK, CurHonest, SavingHonest, ExecHasStep, ResumingAt, FinishingAt
    <2> QED
      BY <2>1, <2>2, <2>3, <2>4 DEF InstallInv
  <1>6. CASE ResetFailed(p)
    <2>1. TypeOK'
      <3>1. unit' \in UnitType
        BY <1>6 DEF ResetFailed, TypeOK, UnitType
      <3>2. pc' \in [Runs -> Labels]
        BY <1>6 DEF ResetFailed, TypeOK, Labels
      <3>3. cur' \in [Runs -> FileContents]
        BY <1>6, Contents DEF ResetFailed, TypeOK
      <3>4. saving' \in [Runs -> FileContents]
        BY <1>6, Contents DEF ResetFailed, TypeOK
      <3> QED
        BY <1>6, <3>1, <3>2, <3>3, <3>4 DEF ResetFailed, TypeOK
    <2>2. CheckpointHonest'
      BY <1>6 DEF ResetFailed, CheckpointHonest
    <2>3. FlagHonest'
      BY <1>6 DEF ResetFailed, FlagHonest
    <2>4. CurHonest' /\ ExecHasStep' /\ ResumingAt' /\ FinishingAt'
      BY <1>6 DEF ResetFailed, TypeOK, CurHonest, ExecHasStep, ResumingAt, FinishingAt
    <2>5. SavingHonest'
      <3>1. Claims("NVIDIA_DONE") \subseteq done
        BY <1>6, ClaimsAre DEF ResetFailed, CurHonest, ResumingAt
      <3> QED
        BY <1>6, <3>1 DEF ResetFailed, TypeOK, SavingHonest
    <2> QED
      BY <2>1, <2>2, <2>3, <2>4, <2>5 DEF InstallInv
  <1>7. CASE SaveTruncate(p)
    <2>1. TypeOK'
      BY <1>7, Contents DEF SaveTruncate, TypeOK, UnitType, Labels
    <2>2. CheckpointHonest'
      BY <1>7, ClaimsAre DEF SaveTruncate, CheckpointHonest, TypeOK
    <2>3. FlagHonest'
      BY <1>7 DEF SaveTruncate, FlagHonest
    <2>4. CurHonest' /\ SavingHonest' /\ ExecHasStep' /\ ResumingAt' /\ FinishingAt'
      BY <1>7 DEF SaveTruncate, TypeOK, CurHonest, SavingHonest, ExecHasStep, ResumingAt, FinishingAt
    <2> QED
      BY <2>1, <2>2, <2>3, <2>4 DEF InstallInv
  <1>8. CASE SaveWrite(p)
    <2>1. TypeOK'
      BY <1>8, Contents DEF SaveWrite, TypeOK, UnitType, Labels
    <2>2. CheckpointHonest'
      BY <1>8 DEF SaveWrite, CheckpointHonest, SavingHonest, TypeOK
    <2>3. FlagHonest'
      BY <1>8 DEF SaveWrite, FlagHonest
    <2>4. CurHonest' /\ SavingHonest' /\ ExecHasStep' /\ ResumingAt' /\ FinishingAt'
      BY <1>8 DEF SaveWrite, TypeOK, CurHonest, SavingHonest, ExecHasStep, ResumingAt, FinishingAt
    <2> QED
      BY <2>1, <2>2, <2>3, <2>4 DEF InstallInv
  <1>9. CASE Iterate(p)
    <2>1. TypeOK'
      <3>1. pc' \in [Runs -> Labels]
        BY <1>9 DEF Iterate, TypeOK, Labels
      <3>2. saving' \in [Runs -> FileContents]
        BY <1>9, Contents DEF Iterate, TypeOK
      <3> QED
        BY <1>9, <3>1, <3>2 DEF Iterate, TypeOK
    <2>2. CheckpointHonest'
      BY <1>9 DEF Iterate, CheckpointHonest
    <2>3. FlagHonest'
      BY <1>9 DEF Iterate, FlagHonest
    <2>4. CurHonest' /\ ResumingAt'
      BY <1>9 DEF Iterate, TypeOK, CurHonest, ResumingAt
    <2>5. SavingHonest'
      <3>1. HasStep(cur[p]) /\ STEPS[cur[p]] = "nvidia.sh" => Claims(REBOOTING) \subseteq done
        BY <1>9, ClaimsAre, NvidiaState DEF Iterate, CurHonest
      <3> QED
        BY <1>9, <3>1 DEF Iterate, TypeOK, SavingHonest
    <2>6. ExecHasStep'
      BY <1>9 DEF Iterate, TypeOK, ExecHasStep, HasStep
    <2>7. FinishingAt'
      BY <1>9 DEF Iterate, TypeOK, CurHonest, FinishingAt
    <2> QED
      BY <2>1, <2>2, <2>3, <2>4, <2>5, <2>6, <2>7 DEF InstallInv
  <1>10. CASE RemoveState(p)
    <2>1. TypeOK'
      BY <1>10, Contents DEF RemoveState, TypeOK, UnitType, Labels
    <2>2. CheckpointHonest'
      BY <1>10, ClaimsAre DEF RemoveState, CheckpointHonest, TypeOK
    <2>3. FlagHonest'
      BY <1>10 DEF RemoveState, FlagHonest
    <2>4. CurHonest' /\ SavingHonest' /\ ExecHasStep' /\ ResumingAt' /\ FinishingAt'
      BY <1>10 DEF RemoveState, TypeOK, CurHonest, SavingHonest, ExecHasStep, ResumingAt, FinishingAt
    <2> QED
      BY <2>1, <2>2, <2>3, <2>4 DEF InstallInv
  <1>11. CASE TouchFlag(p)
    <2>1. TypeOK'
      BY <1>11, Contents DEF TouchFlag, TypeOK, UnitType, Labels
    <2>2. CheckpointHonest'
      BY <1>11 DEF TouchFlag, CheckpointHonest
    <2>3. FlagHonest'
      BY <1>11 DEF TouchFlag, FlagHonest, FinishingAt, TypeOK
    <2>4. CurHonest' /\ SavingHonest' /\ ExecHasStep' /\ ResumingAt' /\ FinishingAt'
      BY <1>11 DEF TouchFlag, TypeOK, CurHonest, SavingHonest, ExecHasStep, ResumingAt, FinishingAt
    <2> QED
      BY <2>1, <2>2, <2>3, <2>4 DEF InstallInv
  <1>12. CASE WriteUnit(p)
    <2>1. TypeOK'
      BY <1>12, Contents DEF WriteUnit, TypeOK, UnitType, Labels
    <2>2. CheckpointHonest'
      BY <1>12 DEF WriteUnit, CheckpointHonest
    <2>3. FlagHonest'
      BY <1>12 DEF WriteUnit, FlagHonest
    <2>4. CurHonest' /\ SavingHonest' /\ ExecHasStep' /\ ResumingAt' /\ FinishingAt'
      BY <1>12 DEF WriteUnit, TypeOK, CurHonest, SavingHonest, ExecHasStep, ResumingAt, FinishingAt
    <2> QED
      BY <2>1, <2>2, <2>3, <2>4 DEF InstallInv
  <1>13. CASE EnableUnit(p)
    <2>1. TypeOK'
      BY <1>13, Contents DEF EnableUnit, TypeOK, UnitType, Labels
    <2>2. CheckpointHonest'
      BY <1>13 DEF EnableUnit, CheckpointHonest
    <2>3. FlagHonest'
      BY <1>13 DEF EnableUnit, FlagHonest
    <2>4. CurHonest' /\ SavingHonest' /\ ExecHasStep' /\ ResumingAt' /\ FinishingAt'
      BY <1>13 DEF EnableUnit, TypeOK, CurHonest, SavingHonest, ExecHasStep, ResumingAt, FinishingAt
    <2> QED
      BY <2>1, <2>2, <2>3, <2>4 DEF InstallInv
  <1>14. CASE Reboot(p)
    <2>1. TypeOK'
      BY <1>14, Contents DEF Reboot, Boot, TypeOK, UnitType, Labels
    <2>2. CheckpointHonest'
      BY <1>14 DEF Reboot, Boot, CheckpointHonest
    <2>3. FlagHonest'
      BY <1>14 DEF Reboot, Boot, FlagHonest
    <2>4. CurHonest' /\ SavingHonest' /\ ExecHasStep' /\ ResumingAt' /\ FinishingAt'
      BY <1>14 DEF Reboot, Boot, TypeOK, CurHonest, SavingHonest, ExecHasStep, ResumingAt, FinishingAt
    <2> QED
      BY <2>1, <2>2, <2>3, <2>4 DEF InstallInv
  <1> QED
    BY <1>1, <1>2, <1>3, <1>4, <1>5, <1>6, <1>7, <1>8, <1>9, <1>10, <1>11, <1>12, <1>13, <1>14 DEF Step

\* So does a script that ends, with either result.
LEMMA ScriptInv ==
    ASSUME InstallInv, NEW p \in Runs, ScriptSucceeds(p) \/ ScriptFails(p)
    PROVE  InstallInv'
  <1> USE ConstantsAssumption DEF At, Goto, Write, files, Runs, Dirs
  <1>0. TypeOK /\ CheckpointHonest /\ FlagHonest /\ CurHonest /\ SavingHonest
        /\ ExecHasStep /\ ResumingAt /\ FinishingAt
    BY DEF InstallInv
  <1> USE <1>0
  <1>1. CASE ScriptSucceeds(p)
    <2>1. cur[p] # "FINISH" /\ HasStep(cur[p]) /\ STEPS[cur[p]] # "nvidia.sh"
      BY <1>1 DEF ScriptSucceeds, ExecHasStep, HasStep, STEPS
    <2>2. /\ NextState(cur[p]) \in FileContents
          /\ Claims(NextState(cur[p])) \subseteq done'
      BY <1>1, <2>1, NextClaims, Contents DEF ScriptSucceeds, CurHonest
    <2>3. TypeOK'
      BY <1>1, <2>2 DEF ScriptSucceeds, TypeOK, Labels
    <2>4. CheckpointHonest' /\ FlagHonest'
      BY <1>1 DEF ScriptSucceeds, CheckpointHonest, FlagHonest
    <2>5. SavingHonest'
      BY <1>1, <2>2 DEF ScriptSucceeds, SavingHonest, TypeOK
    <2>6. CurHonest' /\ ExecHasStep' /\ ResumingAt' /\ FinishingAt'
      BY <1>1 DEF ScriptSucceeds, TypeOK, CurHonest, ExecHasStep, ResumingAt, FinishingAt
    <2> QED
      BY <2>3, <2>4, <2>5, <2>6 DEF InstallInv
  <1>2. CASE ScriptFails(p)
    <2>1. TypeOK'
      BY <1>2, Contents DEF ScriptFails, TypeOK, UnitType, Labels
    <2>2. CheckpointHonest'
      BY <1>2 DEF ScriptFails, CheckpointHonest
    <2>3. FlagHonest'
      BY <1>2 DEF ScriptFails, FlagHonest
    <2>4. CurHonest' /\ SavingHonest' /\ ExecHasStep' /\ ResumingAt' /\ FinishingAt'
      BY <1>2 DEF ScriptFails, TypeOK, CurHonest, SavingHonest, ExecHasStep, ResumingAt, FinishingAt
    <2> QED
      BY <2>1, <2>2, <2>3, <2>4 DEF InstallInv
  <1> QED
    BY <1>1, <1>2

\* So do kills, power losses, failed writes, new runs and the operator's edits.
LEMMA EnvironmentInv ==
    ASSUME InstallInv,
           \/ \E p \in Operators, d \in LaunchDirs : Launch(p, d)
           \/ \E p \in Runs : SaveFails(p) \/ Kill(p)
           \/ PowerLoss
           \/ \E d \in LaunchDirs : OperatorEdits(d)
    PROVE  InstallInv'
  <1> USE ConstantsAssumption DEF At, Goto, files, Runs, Dirs
  <1>0. TypeOK /\ CheckpointHonest /\ FlagHonest /\ CurHonest /\ SavingHonest
        /\ ExecHasStep /\ ResumingAt /\ FinishingAt
    BY DEF InstallInv
  <1> USE <1>0
  <1>1. ASSUME NEW p \in Operators, NEW d \in LaunchDirs, Launch(p, d) PROVE InstallInv'
    <2>1. TypeOK'
      BY <1>1, Contents DEF Launch, TypeOK, UnitType, Labels
    <2>2. CheckpointHonest'
      BY <1>1 DEF Launch, CheckpointHonest
    <2>3. FlagHonest'
      BY <1>1 DEF Launch, FlagHonest
    <2>4. CurHonest' /\ SavingHonest' /\ ExecHasStep' /\ ResumingAt' /\ FinishingAt'
      BY <1>1 DEF Launch, TypeOK, CurHonest, SavingHonest, ExecHasStep, ResumingAt, FinishingAt
    <2> QED
      BY <2>1, <2>2, <2>3, <2>4 DEF InstallInv
  <1>2. ASSUME NEW p \in Runs, SaveFails(p) PROVE InstallInv'
    <2>1. TypeOK'
      <3>1. faults' \in 0..MaxFaults
        BY <1>2, FaultBound DEF SaveFails, TypeOK
      <3>2. pc' \in [Runs -> Labels]
        BY <1>2 DEF SaveFails, TypeOK, Labels
      <3> QED
        BY <1>2, <3>1, <3>2 DEF SaveFails, TypeOK
    <2>2. CheckpointHonest'
      BY <1>2 DEF SaveFails, CheckpointHonest
    <2>3. FlagHonest'
      BY <1>2 DEF SaveFails, FlagHonest
    <2>4. CurHonest' /\ SavingHonest' /\ ExecHasStep' /\ ResumingAt' /\ FinishingAt'
      BY <1>2 DEF SaveFails, TypeOK, CurHonest, SavingHonest, ExecHasStep, ResumingAt, FinishingAt
    <2> QED
      BY <2>1, <2>2, <2>3, <2>4 DEF InstallInv
  <1>3. ASSUME NEW p \in Runs, Kill(p) PROVE InstallInv'
    <2>1. TypeOK'
      <3>1. faults' \in 0..MaxFaults
        BY <1>3, FaultBound DEF Kill, TypeOK
      <3>2. pc' \in [Runs -> Labels]
        BY <1>3 DEF Kill, TypeOK, Labels
      <3> QED
        BY <1>3, <3>1, <3>2 DEF Kill, TypeOK
    <2>2. CheckpointHonest'
      BY <1>3 DEF Kill, CheckpointHonest
    <2>3. FlagHonest'
      BY <1>3 DEF Kill, FlagHonest
    <2>4. CurHonest' /\ SavingHonest' /\ ExecHasStep' /\ ResumingAt' /\ FinishingAt'
      BY <1>3 DEF Kill, TypeOK, CurHonest, SavingHonest, ExecHasStep, ResumingAt, FinishingAt
    <2> QED
      BY <2>1, <2>2, <2>3, <2>4 DEF InstallInv
  <1>4. CASE PowerLoss
    <2>1. TypeOK'
      <3>1. faults' \in 0..MaxFaults
        BY <1>4, FaultBound DEF PowerLoss, TypeOK
      <3>2. pc' \in [Runs -> Labels]
        BY <1>4 DEF PowerLoss, Boot, TypeOK, Labels
      <3>3. unit' \in UnitType /\ dir' \in [Runs -> Dirs]
        BY <1>4 DEF PowerLoss, Boot, TypeOK, UnitType
      <3> QED
        BY <1>4, <3>1, <3>2, <3>3 DEF PowerLoss, TypeOK
    <2>2. CheckpointHonest'
      BY <1>4 DEF PowerLoss, Boot, CheckpointHonest
    <2>3. FlagHonest'
      BY <1>4 DEF PowerLoss, Boot, FlagHonest
    <2>4. CurHonest' /\ SavingHonest' /\ ExecHasStep' /\ ResumingAt' /\ FinishingAt'
      BY <1>4 DEF PowerLoss, Boot, TypeOK, CurHonest, SavingHonest, ExecHasStep, ResumingAt, FinishingAt
    <2> QED
      BY <2>1, <2>2, <2>3, <2>4 DEF InstallInv
  <1>5. ASSUME NEW d \in LaunchDirs, OperatorEdits(d) PROVE InstallInv'
    <2>1. TypeOK'
      <3>1. stateFile' \in [Dirs -> FileContents \cup {Missing}]
        <4>1. PICK s \in {"START", "FINISH"} : stateFile' = [stateFile EXCEPT ![d] = s]
          BY <1>5 DEF OperatorEdits
        <4> QED
          BY <4>1, Contents DEF TypeOK
      <3> QED
        BY <1>5, <3>1 DEF OperatorEdits, TypeOK
    <2>2. CheckpointHonest'
      BY <1>5, ClaimsAre DEF OperatorEdits, CheckpointHonest, TypeOK
    <2>3. FlagHonest'
      BY <1>5 DEF OperatorEdits, FlagHonest
    <2>4. CurHonest' /\ SavingHonest' /\ ExecHasStep' /\ ResumingAt' /\ FinishingAt'
      BY <1>5 DEF OperatorEdits, TypeOK, CurHonest, SavingHonest, ExecHasStep, ResumingAt, FinishingAt
    <2> QED
      BY <2>1, <2>2, <2>3, <2>4 DEF InstallInv
  <1> QED
    BY <1>1, <1>2, <1>3, <1>4, <1>5

\* InstallInv holds in every reachable state.
THEOREM InstallInvariant == Spec => []InstallInv
  <1>1. InstallInv /\ [Next]_vars => InstallInv'
    <2> SUFFICES ASSUME InstallInv, [Next]_vars PROVE InstallInv'
      OBVIOUS
    <2>1. CASE UNCHANGED vars
      BY <2>1 DEF vars, InstallInv, TypeOK, CheckpointHonest, FlagHonest, CurHonest,
                  SavingHonest, ExecHasStep, ResumingAt, FinishingAt, At
    <2>2. CASE Next
      BY <2>2, StepInv, ScriptInv, EnvironmentInv DEF Next
    <2> QED
      BY <2>1, <2>2
  <1> QED
    BY InitInv, <1>1, PTL DEF Spec

-----------------------------------------------------------------------------
(* What follows from it.                                                    *)

\* A state file never claims a script that has not succeeded (lines 42-54).
THEOREM CheckpointTheorem == Spec => []CheckpointHonest
  <1>1. InstallInv => CheckpointHonest
    BY DEF InstallInv
  <1> QED
    BY InstallInvariant, <1>1, PTL

\* The .installed flag never appears before every script has succeeded.
THEOREM FlagTheorem == Spec => []FlagHonest
  <1>1. InstallInv => FlagHonest
    BY DEF InstallInv
  <1> QED
    BY InstallInvariant, <1>1, PTL

\* Scripts succeed in the order of STATE_ORDER (lines 213-222).
THEOREM OrderTheorem == Spec => StepsInOrder
  <1> DEFINE InOrder == \A i \in 1..Len(STATE_ORDER) :
                 (i < Len(STATE_ORDER) /\ STEPS[STATE_ORDER[i]] \in done' \ done)
                 => Claims(STATE_ORDER[i]) \subseteq done
  <1>1. InstallInv /\ [Next]_vars => [InOrder]_vars
    <2> SUFFICES ASSUME InstallInv, Next, done' # done PROVE InOrder
      BY DEF vars
    <2>1. PICK p \in Runs : ScriptSucceeds(p)
      BY DEF Next, Step, Launch, OpenState, CheckFullInstallation, GetInstallState,
             DisableUnit, RemoveUnit, ResetFailed, SaveTruncate, SaveWrite, SaveFails,
             Iterate, ScriptFails, RemoveState, TouchFlag, WriteUnit, EnableUnit,
             Reboot, Kill, PowerLoss, OperatorEdits
    <2>2. TAKE i \in 1..Len(STATE_ORDER)
    <2>3. HAVE i < Len(STATE_ORDER) /\ STEPS[STATE_ORDER[i]] \in done' \ done
    <2>4. STEPS[STATE_ORDER[i]] = STEPS[cur[p]] /\ HasStep(cur[p]) /\ cur[p] # "FINISH"
      BY <2>1, <2>3 DEF ScriptSucceeds, InstallInv, ExecHasStep, HasStep, STEPS
    <2>5. STATE_ORDER[i] = cur[p]
      <3>1. PICK j \in 1..8 : STATE_ORDER[j] = cur[p]
        BY <2>4 DEF HasStep, Ordered, STATE_ORDER
      <3>2. Len(STATE_ORDER) = 8
        BY DEF STATE_ORDER
      <3>3. i \in 1..7 /\ j \in 1..7
        BY <2>3, <2>4, <3>1, <3>2 DEF STATE_ORDER
      <3> QED
        BY <2>4, <3>1, <3>3 DEF STATE_ORDER, STEPS
    <2> QED
      BY <2>1, <2>5 DEF ScriptSucceeds, InstallInv, CurHonest
  <1> QED
    BY InstallInvariant, <1>1, PTL DEF Spec, StepsInOrder

-----------------------------------------------------------------------------
(* With one operator.  The operator's run and the one of systemd never work  *)
(* in the same directory, so that what a run has read from its state file,   *)
(* or written to it, is there until it writes again.                         *)

OneOperator == \A p, q \in Operators : p = q

\* A run is in a directory of its own kind.
OwnDirectory ==
    /\ dir[Service] = HomeDir
    /\ \A p \in Operators : ~At(p, "idle") => dir[p] \in LaunchDirs

\* A file that holds s, and a run at l that has CURRENT_STATE c and saves v.
Follows(s, v) == \E i \in 1..(Len(Path) - 1) : s = Path[i] /\ v = Path[i + 1]
Fits(l, s, c, v) ==
    /\ l \in {"check", "read"} => s # Missing
    /\ l \in {"loop", "exec"} => s = c
    /\ l \in {"disable", "rm_unit", "reset_failed", "write_unit", "enable", "reboot"}
           => s = REBOOTING
    /\ l = "truncate" => Follows(s, v)
    /\ l = "write" => s = ""
FileIsMine == \A p \in Runs : Fits(pc[p], stateFile[dir[p]], cur[p], saving[p])
SingleInv == TypeOK /\ OwnDirectory /\ FileIsMine

\* What the loop saves after the script of a state follows that state.
LEMMA NextFollows ==
    /\ \A s : HasStep(s) /\ STEPS[s] # "nvidia.sh" => Follows(s, NextState(s))
    /\ Follows("PYTHON_DONE", REBOOTING) /\ Follows(REBOOTING, "NVIDIA_DONE")
  <1>1. Len(Path) = 9
    BY DEF Path
  <1>2. /\ Follows("START", "COMMON_DEPS_DONE") /\ Follows("COMMON_DEPS_DONE", "PYTHON_DONE")
        /\ Follows("PYTHON_DONE", REBOOTING) /\ Follows(REBOOTING, "NVIDIA_DONE")
        /\ Follows("NVIDIA_DONE", "DOCKER_DONE") /\ Follows("DOCKER_DONE", "VLLM_DONE")
        /\ Follows("VLLM_DONE", "VALIDATION_DONE") /\ Follows("VALIDATION_DONE", "FINISH")
    <2>1. \A i \in 1..8 : Follows(Path[i], Path[i + 1])
      BY <1>1 DEF Follows
    <2>2. /\ Follows(Path[1], Path[2]) /\ Follows(Path[2], Path[3]) /\ Follows(Path[3], Path[4])
          /\ Follows(Path[4], Path[5]) /\ Follows(Path[5], Path[6]) /\ Follows(Path[6], Path[7])
          /\ Follows(Path[7], Path[8]) /\ Follows(Path[8], Path[9])
      BY <2>1
    <2> QED
      BY <2>2 DEF Path
  <1>3. ASSUME NEW s, HasStep(s), STEPS[s] # "nvidia.sh"
        PROVE  Follows(s, NextState(s))
    <2>1. s \in {"START", "COMMON_DEPS_DONE", "NVIDIA_DONE", "DOCKER_DONE", "VLLM_DONE",
                 "VALIDATION_DONE"}
      BY <1>3, OrderedIs DEF HasStep, STEPS
    <2>2. PICK i \in 1..8 : STATE_ORDER[i] = s
      BY <1>3 DEF HasStep, Ordered, STATE_ORDER
    <2>3. NextState(s) = STATE_ORDER[i + 1]
      BY <2>2, IndexOf DEF NextState
    <2> QED
      BY <1>2, <2>1, <2>2, <2>3 DEF STATE_ORDER
  <1> QED
    BY <1>2, <1>3

\* Two runs that are going on have different directories.
LEMMA RunsApart ==
    ASSUME OneOperator, OwnDirectory,
           NEW p \in Runs, NEW q \in Runs, p # q, ~At(p, "idle"), ~At(q, "idle")
    PROVE  dir[p] # dir[q]
  BY ConstantsAssumption DEF OneOperator, OwnDirectory, Runs

\* A step of run p that writes at most its own state file, stays in its
\* directory and is right about its own file is right about every file.
LEMMA FileFrame ==
    ASSUME OneOperator, SingleInv, NEW p \in Runs, ~At(p, "idle"), NEW l \in Labels,
           pc' = [pc EXCEPT ![p] = l], dir' = dir,
           \A d \in Dirs : d # dir[p] => stateFile'[d] = stateFile[d],
           \A q \in Runs : q # p => cur'[q] = cur[q] /\ saving'[q] = saving[q],
           Fits(l, stateFile'[dir[p]], cur'[p], saving'[p])
    PROVE  OwnDirectory' /\ FileIsMine'
  <1>1. TypeOK /\ OwnDirectory /\ FileIsMine
    BY DEF SingleInv
  <1>2. OwnDirectory'
    BY <1>1 DEF OwnDirectory, At, TypeOK, Runs
  <1>3. ASSUME NEW q \in Runs
        PROVE  Fits(pc'[q], stateFile'[dir'[q]], cur'[q], saving'[q])
    <2>1. CASE q = p
      BY <2>1, <1>1 DEF TypeOK
    <2>2. CASE q # p /\ At(q, "idle")
      BY <1>1, <2>2 DEF TypeOK, At, Fits
    <2>3. CASE q # p /\ ~At(q, "idle")
      <3>1. dir[q] \in Dirs /\ dir[q] # dir[p]
        BY <2>3, <1>1, RunsApart DEF TypeOK
      <3>2. /\ pc'[q] = pc[q] /\ cur'[q] = cur[q] /\ saving'[q] = saving[q]
            /\ stateFile'[dir'[q]] = stateFile[dir[q]]
        BY <2>3, <3>1, <1>1 DEF TypeOK
      <3> QED
        BY <1>1, <3>2 DEF FileIsMine
    <2> QED
      BY <2>1, <2>2, <2>3
  <1>4. FileIsMine'
    BY <1>3 DEF FileIsMine
  <1> QED
    BY <1>2, <1>4

\* No step of the installer, of systemd or of the operator breaks it.
LEMMA SingleStep ==
    ASSUME OneOperator, InstallInv, SingleInv, TypeOK', [Next]_vars
    PROVE  SingleInv'
  <1> USE ConstantsAssumption DEF At, Goto, Write, files
  <1>0. TypeOK /\ OwnDirectory /\ FileIsMine
    BY DEF SingleInv
  <1> SUFFICES OwnDirectory' /\ FileIsMine'
    BY DEF SingleInv
  <1>1. ASSUME NEW p \in Runs,
               \/ Step(p) /\ ~Reboot(p)
               \/ ScriptSucceeds(p) \/ ScriptFails(p) \/ SaveFails(p) \/ Kill(p)
        PROVE  OwnDirectory' /\ FileIsMine'
    <2>1. /\ dir[p] \in Dirs
          /\ Fits(pc[p], stateFile[dir[p]], cur[p], saving[p])
      BY <1>0 DEF TypeOK, FileIsMine
    <2> SUFFICES /\ dir' = dir /\ pc[p] # "idle"
                 /\ \A d \in Dirs : d # dir[p] => stateFile'[d] = stateFile[d]
                 /\ \A q \in Runs : q # p => cur'[q] = cur[q] /\ saving'[q] = saving[q]
                 /\ \E l \in Labels : /\ pc' = [pc EXCEPT ![p] = l]
                                      /\ Fits(l, stateFile'[dir[p]], cur'[p], saving'[p])
      BY FileFrame
    <2> USE <1>0, <2>1 DEF TypeOK
    <2>2. CASE OpenState(p)
      <3>1. CASE dir[p] \notin Writable
        BY <2>2, <3>1 DEF OpenState, Fits, Labels
      <3>2. CASE dir[p] \in Writable
        BY <2>2, <3>2 DEF OpenState, Fits, Labels, Missing
      <3> QED
        BY <3>1, <3>2
    <2>3. CASE CheckFullInstallation(p)
      BY <2>3 DEF CheckFullInstallation, Fits, Labels
    <2>4. CASE GetInstallState(p)
      <3>1. stateFile[dir[p]] # Missing
        BY <2>4 DEF GetInstallState, Fits
      <3>2. CASE stateFile[dir[p]] = REBOOTING
        BY <2>4, <3>1, <3>2 DEF GetInstallState, Fits, Labels
      <3>3. CASE stateFile[dir[p]] # REBOOTING
        BY <2>4, <3>1, <3>3 DEF GetInstallState, Fits, Labels
      <3> QED
        BY <3>2, <3>3
    <2>5. CASE DisableUnit(p) \/ RemoveUnit(p)
      BY <2>5 DEF DisableUnit, RemoveUnit, Fits, Labels
    <2>6. CASE ResetFailed(p)
      <3>1. CASE ~unit.known
        BY <2>6, <3>1 DEF ResetFailed, Fits, Labels
      <3>2. CASE unit.known
        <4>1. stateFile' = stateFile /\ dir' = dir /\ pc[p] # "idle" /\ stateFile[dir[p]] = REBOOTING
          BY <2>6 DEF ResetFailed, Fits
        <4>2. /\ pc' = [pc EXCEPT ![p] = "truncate"]
              /\ cur' = [cur EXCEPT ![p] = "NVIDIA_DONE"]
              /\ saving' = [saving EXCEPT ![p] = "NVIDIA_DONE"]
          BY <2>6, <3>2 DEF ResetFailed
        <4>3. Fits("truncate", stateFile'[dir[p]], cur'[p], saving'[p])
          BY <4>1, <4>2, NextFollows DEF Fits
        <4> QED
          BY <4>1, <4>2, <4>3 DEF Labels
      <3> QED
        BY <3>1, <3>2
    <2>7. CASE SaveTruncate(p) \/ SaveFails(p)
      BY <2>7 DEF SaveTruncate, SaveFails, Fits, Labels
    <2>8. CASE SaveWrite(p)
      <3>1. CASE saving[p] = REBOOTING
        BY <2>8, <3>1 DEF SaveWrite, Fits, Labels
      <3>2. CASE saving[p] # REBOOTING
        <4>1. /\ stateFile' = [stateFile EXCEPT ![dir[p]] = saving[p]] /\ dir' = dir
              /\ cur' = [cur EXCEPT ![p] = saving[p]] /\ saving' = saving
              /\ pc[p] # "idle" /\ pc' = [pc EXCEPT ![p] = "loop"]
          BY <2>8, <3>2 DEF SaveWrite
        <4>2. Fits("loop", stateFile'[dir[p]], cur'[p], saving'[p])
          BY <4>1 DEF Fits
        <4> QED
          BY <4>1, <4>2 DEF Labels
      <3> QED
        BY <3>1, <3>2
    <2>9. CASE Iterate(p)
      <3>1. /\ stateFile' = stateFile /\ dir' = dir /\ cur' = cur /\ pc[p] # "idle"
            /\ stateFile[dir[p]] = cur[p]
        BY <2>9 DEF Iterate, Fits
      <3>2. CASE saving' = saving /\ \E l \in {"rm_state", "idle", "exec"} : Goto(p, l)
        BY <3>1, <3>2 DEF Fits, Labels
      <3>3. CASE HasStep(cur[p]) /\ STEPS[cur[p]] = "nvidia.sh" /\ Goto(p, "truncate")
                 /\ saving' = [saving EXCEPT ![p] = REBOOTING]
        <4>1. Fits("truncate", stateFile'[dir[p]], cur'[p], saving'[p])
          BY <3>1, <3>3, NextFollows, NvidiaState DEF Fits
        <4> QED
          BY <3>1, <3>3, <4>1 DEF Labels
      <3> QED
        BY <2>9, <3>2, <3>3 DEF Iterate
    <2>10. CASE ScriptSucceeds(p)
      <3>1. HasStep(cur[p]) /\ STEPS[cur[p]] # "nvidia.sh"
        BY <2>10 DEF ScriptSucceeds, InstallInv, ExecHasStep
      <3> QED
        BY <2>10, <3>1, NextFollows DEF ScriptSucceeds, Fits, Labels
    <2>11. CASE ScriptFails(p) \/ Kill(p)
      BY <2>11 DEF ScriptFails, Kill, Fits, Labels
    <2>12. CASE RemoveState(p) \/ TouchFlag(p)
      BY <2>12 DEF RemoveState, TouchFlag, Fits, Labels
    <2>13. CASE WriteUnit(p) \/ EnableUnit(p)
      BY <2>13 DEF WriteUnit, EnableUnit, Fits, Labels
    <2> QED
      BY <1>1, <2>2, <2>3, <2>4, <2>5, <2>6, <2>7, <2>8, <2>9, <2>10, <2>11, <2>12, <2>13 DEF Step
  <1>2. ASSUME NEW p \in Runs, Reboot(p) PROVE OwnDirectory' /\ FileIsMine'
    BY <1>2, <1>0 DEF Reboot, Boot, OwnDirectory, FileIsMine, Fits, Runs, TypeOK
  <1>3. ASSUME NEW p \in Operators, NEW d \in LaunchDirs, Launch(p, d)
        PROVE  OwnDirectory' /\ FileIsMine'
    BY <1>3, <1>0 DEF Launch, OwnDirectory, FileIsMine, Fits, Runs, TypeOK
  <1>4. CASE PowerLoss
    BY <1>4, <1>0 DEF PowerLoss, Boot, OwnDirectory, FileIsMine, Fits, Runs, TypeOK
  <1>5. ASSUME NEW d \in LaunchDirs, OperatorEdits(d)
        PROVE  OwnDirectory' /\ FileIsMine'
    <2>1. \A p \in Runs : ~At(p, "idle") => stateFile'[dir[p]] = stateFile[dir[p]]
      BY <1>5, <1>0 DEF OperatorEdits, NoRunIn, TypeOK, Dirs
    <2> QED
      BY <1>5, <1>0, <2>1 DEF OperatorEdits, OwnDirectory, FileIsMine, Fits
  <1>6. CASE UNCHANGED vars
    BY <1>6, <1>0 DEF vars, OwnDirectory, FileIsMine
  <1> QED
    BY <1>1, <1>2, <1>3, <1>4, <1>5, <1>6 DEF Next, Step

\* It holds in every state one operator can reach.
LEMMA SingleAlways == ASSUME OneOperator PROVE Spec => []SingleInv
  <1>1. Init => SingleInv
    <2> SUFFICES ASSUME Init PROVE SingleInv
      OBVIOUS
    <2>1. TypeOK
      BY InitInv DEF InstallInv
    <2> QED
      BY <2>1 DEF Init, SingleInv, OwnDirectory, FileIsMine, Fits, At, Runs
  <1>2. InstallInv => TypeOK
    BY DEF InstallInv
  <1>3. InstallInv /\ SingleInv /\ TypeOK' /\ [Next]_vars => SingleInv'
    BY SingleStep
  <1> QED
    BY <1>1, <1>2, <1>3, InstallInvariant, PTL DEF Spec

\* With one operator, whatever is killed and whenever the power goes, a run only
\* restarts the machine while its state file says REBOOTING_AFTER_NVIDIA
\* (lines 203-204).
THEOREM RebootTheorem == ASSUME OneOperator PROVE Spec => []RebootAnnounced
  <1>1. SingleInv => RebootAnnounced
    BY DEF SingleInv, FileIsMine, Fits, RebootAnnounced, At
  <1> QED
    BY SingleAlways, <1>1, PTL

\* With one operator every save moves a state file on by exactly one place, from the
\* state that is still in it to the next one: nothing that was killed, edited or
\* started in between makes the loop repeat or skip a state (lines 133, 203, 221).
THEOREM ForwardTheorem == ASSUME OneOperator PROVE Spec => []SavesNext
  <1>1. SingleInv => SavesNext
    BY DEF SingleInv, FileIsMine, Fits, Follows, SavesNext, At
  <1> QED
    BY SingleAlways, <1>1, PTL
=============================================================================
