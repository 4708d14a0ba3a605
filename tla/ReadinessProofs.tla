--------------------------- MODULE ReadinessProofs ---------------------------
(***************************************************************************)
(* The properties of Readiness, for all recipients, venues, pools and      *)
(* bounds.                                                                 *)
(***************************************************************************)
EXTENDS Readiness, TLAPS

\* A record without gaps, as deploy:migration-target writes it.
Complete(r) ==
    r \in [migrationTarget : Nat, venue : Venues, lpRecipient : Recipients,
           pool : PoolSettings, liquidity : Liquidities, hookData : HookData]

\* It is the record of a target on the chain.
Recorded(r) ==
    /\ Complete(r)
    /\ r.migrationTarget \in DOMAIN targets
    /\ targets[r.migrationTarget] = TargetOf(r)

\* Both records tell of the chain, and what is about to be recorded does.
RecordsTrue ==
    /\ record.migrationTarget # NoAddress => Recorded(record)
    /\ job.step = "deploy" => Complete(job.record)
    /\ job.step = "write" => Recorded(job.record)

DeploymentTrue ==
    deployment # NoDeployment =>
        /\ deployment.factory \in DOMAIN factories
        /\ factories[deployment.factory] = [feeRecipient    |-> deployment.feeRecipient,
                                            migrationTarget |-> deployment.migrationTarget]

\* What the gate has found out still holds as long as nothing was touched.
GateTrue ==
    ~touched =>
        /\ gate.step # 0 => gate.env = env
        /\ gate.step = 5 \/ passed => doctorXLayerReadiness(env)

IInv == TypeOK /\ RecordsTrue /\ DeploymentTrue /\ GateTrue

-----------------------------------------------------------------------------
(* What a new target leaves alone.                                         *)

LEMMA AppendKeeps ==
    ASSUME NEW S, NEW s \in Seq(S), NEW e \in S
    PROVE  /\ Append(s, e) \in Seq(S)
           /\ Len(Append(s, e)) = Len(s) + 1
           /\ DOMAIN Append(s, e) = 1..(Len(s) + 1)
           /\ \A i \in DOMAIN s : i \in DOMAIN Append(s, e) /\ Append(s, e)[i] = s[i]
           /\ Append(s, e)[Len(s) + 1] = e
  OBVIOUS

LEMMA RecordedStays ==
    ASSUME NEW r, NEW t, TypeOK, Recorded(r),
           t \in V4Targets \cup {LocalTarget},
           targets' = Append(targets, t)
    PROVE  /\ Complete(r)
           /\ r.migrationTarget \in DOMAIN targets'
           /\ targets'[r.migrationTarget] = TargetOf(r)
<1>1. targets \in Seq(V4Targets \cup {LocalTarget})
  BY DEF TypeOK
<1>2. /\ r.migrationTarget \in DOMAIN targets
      /\ targets[r.migrationTarget] = TargetOf(r)
  BY DEF Recorded
<1>3. \A i \in DOMAIN targets : i \in DOMAIN targets' /\ targets'[i] = targets[i]
  BY <1>1, AppendKeeps
<1> QED
  BY <1>2, <1>3 DEF Recorded

LEMMA TargetOfComplete ==
    ASSUME NEW r, Complete(r)
    PROVE  TargetOf(r) \in V4Targets
  BY DEF Complete, TargetOf, V4Targets

LEMMA InitIsTrue == Init => IInv
<1> SUFFICES ASSUME Init
             PROVE  IInv
  OBVIOUS
<1> USE DEF Init
<1>1. env \in Env
  BY SettingsAssumption DEF Env, NoAddress
<1>2. NoRecord(env.hookData) \in MigrationTargetDeploymentRecord
  BY <1>1 DEF NoRecord, MigrationTargetDeploymentRecord, NoAddress, Env
<1>3. NoDeployment \in Deployment
  BY SettingsAssumption DEF NoDeployment, Deployment, NoAddress
<1>4. TypeOK
  <2>1. /\ targets \in Seq(V4Targets \cup {LocalTarget})
        /\ factories \in Seq(Factories)
    OBVIOUS
  <2>2. job \in [step : Steps, record : MigrationTargetDeploymentRecord]
    BY <1>2 DEF IdleJob, Steps
  <2>3. gate \in [step : 0..5, env : Env]
    <3>1. gate = [step |-> 0, env |-> env]
      OBVIOUS
    <3> HIDE DEF Init
    <3> QED
      BY <1>1, <3>1
  <2>4. record \in MigrationTargetDeploymentRecord /\ deployment \in Deployment
    BY <1>2, <1>3
  <2>5. passed \in BOOLEAN /\ touched \in BOOLEAN /\ edits \in Nat
    OBVIOUS
  <2> HIDE DEF Init
  <2> QED
    BY <1>1, <2>1, <2>2, <2>3, <2>4, <2>5 DEF TypeOK
<1>5. RecordsTrue
  BY DEF RecordsTrue, NoRecord, IdleJob
<1> QED
  BY <1>4, <1>5 DEF IInv, DeploymentTrue, GateTrue

-----------------------------------------------------------------------------
(* The steps.                                                              *)

LEMMA EditKeeps == IInv /\ EditEnv => IInv'
<1> SUFFICES ASSUME IInv, EditEnv
             PROVE  IInv'
  OBVIOUS
<1>1. env' \in Env
  <2>0. env \in Env /\ targets \in Seq(V4Targets \cup {LocalTarget})
    BY DEF IInv, TypeOK
  <2>1. CASE \E r \in Recipients \cup {Unset} :
                env' \in {[env EXCEPT !.multisig = r], [env EXCEPT !.lpRecipient = r]}
    BY <2>0, <2>1 DEF Env
  <2>2. CASE \E v \in Venues \cup {Unset} : env' = [env EXCEPT !.venue = v]
    BY <2>0, <2>2 DEF Env
  <2>3. CASE \E c \in Chains \cup {Unset} : env' = [env EXCEPT !.rpc = c]
    BY <2>0, <2>3 DEF Env
  <2>4. CASE \E t \in 0..Len(targets) : env' = [env EXCEPT !.migrationTarget = t]
    BY <2>0, <2>4 DEF Env
  <2>5. CASE \E p \in PoolSettings \cup {Unset} : env' = [env EXCEPT !.pool = p]
    BY <2>0, <2>5 DEF Env
  <2>6. CASE \E l \in Liquidities \cup {Unset} : env' = [env EXCEPT !.liquidity = l]
    BY <2>0, <2>6 DEF Env
  <2>7. CASE \E d \in HookData : env' = [env EXCEPT !.hookData = d]
    BY <2>0, <2>7 DEF Env
  <2> QED
    BY <2>1, <2>2, <2>3, <2>4, <2>5, <2>6, <2>7 DEF EditEnv
<1>2. /\ UNCHANGED <<targets, factories, record, deployment, job, gate, passed>>
      /\ touched' = TRUE /\ edits' = edits + 1
  BY DEF EditEnv
<1>3. TypeOK'
  BY <1>1, <1>2 DEF IInv, TypeOK
<1>4. RecordsTrue' /\ DeploymentTrue'
  BY <1>2 DEF IInv, RecordsTrue, Recorded, DeploymentTrue
<1> QED
  BY <1>2, <1>3, <1>4 DEF IInv, GateTrue

LEMMA StartDeployKeeps == IInv /\ StartDeployTarget => IInv'
<1> SUFFICES ASSUME IInv, StartDeployTarget
             PROVE  IInv'
  OBVIOUS
<1> DEFINE r == [migrationTarget |-> NoAddress, venue |-> env.venue,
                 lpRecipient |-> lpRecipientOrDeployer(env),
                 pool |-> env.pool, liquidity |-> env.liquidity,
                 hookData |-> env.hookData]
<1>1. /\ job' = [step |-> "deploy", record |-> r]
      /\ UNCHANGED <<env, targets, factories, record, deployment, gate, passed, touched, edits>>
      /\ env.venue # Unset /\ env.pool # Unset /\ env.liquidity # Unset
  BY DEF StartDeployTarget, requiredEnv, migrationPoolConfigFromEnv
<1>2. Complete(r)
  <2>1. env \in Env
    BY DEF IInv, TypeOK
  <2>2. lpRecipientOrDeployer(env) \in Recipients
    BY <2>1, SettingsAssumption DEF lpRecipientOrDeployer, Env
  <2> QED
    BY <1>1, <2>1, <2>2 DEF Complete, Env, NoAddress
<1>3. r \in MigrationTargetDeploymentRecord
  BY <1>2 DEF Complete, MigrationTargetDeploymentRecord
<1> HIDE DEF r
<1>4. TypeOK'
  BY <1>1, <1>3 DEF IInv, TypeOK, Steps
<1>5. RecordsTrue'
  BY <1>1, <1>2 DEF IInv, RecordsTrue, Recorded, Complete
<1>6. DeploymentTrue'
  BY <1>1 DEF IInv, DeploymentTrue
<1>7. GateTrue'
  BY <1>1 DEF IInv, GateTrue, doctorXLayerReadiness, doctorXLayerReadinessConsistency,
              RecipientMatches, HookDataMatches
<1> QED
  BY <1>4, <1>5, <1>6, <1>7 DEF IInv

LEMMA DeployTargetKeeps == IInv /\ DeployTarget => IInv'
<1> SUFFICES ASSUME IInv, DeployTarget
             PROVE  IInv'
  OBVIOUS
<1> DEFINE r == [job.record EXCEPT !.migrationTarget = Len(targets) + 1]
           t == TargetOf(job.record)
<1>1. /\ job.step = "deploy"
      /\ targets' = Append(targets, t)
      /\ job' = [step |-> "write", record |-> r]
      /\ UNCHANGED <<env, factories, record, deployment, gate, passed, touched, edits>>
  BY DEF DeployTarget
<1>2. /\ TypeOK /\ Complete(job.record)
      /\ targets \in Seq(V4Targets \cup {LocalTarget})
  BY <1>1 DEF IInv, TypeOK, RecordsTrue
<1>3. t \in V4Targets \cup {LocalTarget}
  BY <1>2, TargetOfComplete
<1>4. /\ targets' \in Seq(V4Targets \cup {LocalTarget})
      /\ DOMAIN targets' = 1..(Len(targets) + 1)
      /\ targets'[Len(targets) + 1] = t
  BY <1>1, <1>2, <1>3, AppendKeeps
<1>5. /\ Complete(r) /\ r.migrationTarget = Len(targets) + 1
      /\ TargetOf(r) = t
  BY <1>2 DEF Complete, TargetOf
<1>6. Len(targets) + 1 \in DOMAIN targets'
  BY <1>2, <1>4
<1> HIDE DEF r, t
<1>7. TypeOK'
  <2>1. r \in MigrationTargetDeploymentRecord
    BY <1>5 DEF Complete, MigrationTargetDeploymentRecord
  <2> QED
    BY <1>1, <1>2, <1>4, <2>1 DEF TypeOK, Steps
<1>8. RecordsTrue'
  <2>1. (job.step = "write" => Recorded(job.record))'
    BY <1>1, <1>4, <1>5, <1>6 DEF Recorded, Complete
  <2>2. (record.migrationTarget # NoAddress => Recorded(record))'
    <3> SUFFICES ASSUME record.migrationTarget # NoAddress
                 PROVE  Recorded(record)'
      BY <1>1
    <3>1. Recorded(record)
      BY DEF IInv, RecordsTrue
    <3>2. /\ Complete(record)
          /\ record.migrationTarget \in DOMAIN targets'
          /\ targets'[record.migrationTarget] = TargetOf(record)
      BY <1>1, <1>2, <1>3, <3>1, RecordedStays
    <3> QED
      BY <1>1, <3>2 DEF Recorded
  <2>3. job'.step # "deploy"
    BY <1>1
  <2> QED
    BY <2>1, <2>2, <2>3 DEF RecordsTrue
<1>9. DeploymentTrue'
  BY <1>1 DEF IInv, DeploymentTrue
<1>10. GateTrue'
  BY <1>1 DEF IInv, GateTrue, doctorXLayerReadiness, doctorXLayerReadinessConsistency,
              RecipientMatches, HookDataMatches
<1> QED
  BY <1>7, <1>8, <1>9, <1>10 DEF IInv

LEMMA IdleJobTyped == TypeOK => IdleJob(env.hookData) \in
                         [step : Steps, record : MigrationTargetDeploymentRecord]
<1> SUFFICES ASSUME TypeOK
             PROVE  IdleJob(env.hookData) \in
                        [step : Steps, record : MigrationTargetDeploymentRecord]
  OBVIOUS
<1>1. env.hookData \in HookData
  BY DEF TypeOK, Env
<1>2. NoRecord(env.hookData) \in MigrationTargetDeploymentRecord
  BY <1>1 DEF NoRecord, MigrationTargetDeploymentRecord, NoAddress
<1> QED
  BY <1>2 DEF IdleJob, Steps

LEMMA WriteKeeps == IInv /\ writeMigrationTargetDeployment => IInv'
<1> SUFFICES ASSUME IInv, writeMigrationTargetDeployment
             PROVE  IInv'
  OBVIOUS
<1>1. /\ job.step = "write"
      /\ record' = job.record
      /\ job' = IdleJob(env.hookData)
      /\ touched' = TRUE
      /\ UNCHANGED <<env, targets, factories, deployment, gate, passed, edits>>
  BY DEF writeMigrationTargetDeployment, TargetRecord
<1>2. Recorded(job.record) /\ job'.step = "idle"
  BY <1>1 DEF IInv, RecordsTrue, IdleJob
<1>3. TypeOK'
  <2>1. record' \in MigrationTargetDeploymentRecord
    BY <1>1 DEF IInv, TypeOK
  <2>2. job' \in [step : Steps, record : MigrationTargetDeploymentRecord]
    BY <1>1, IdleJobTyped DEF IInv
  <2> QED
    BY <1>1, <2>1, <2>2 DEF IInv, TypeOK
<1>4. RecordsTrue'
  BY <1>1, <1>2 DEF RecordsTrue, Recorded, Complete
<1>5. DeploymentTrue'
  BY <1>1 DEF IInv, DeploymentTrue
<1> QED
  BY <1>1, <1>3, <1>4, <1>5 DEF IInv, GateTrue

LEMMA StopKeeps == IInv /\ StopDeployTarget => IInv'
<1> SUFFICES ASSUME IInv, StopDeployTarget
             PROVE  IInv'
  OBVIOUS
<1>1. /\ job' = IdleJob(env.hookData)
      /\ UNCHANGED <<env, targets, factories, deployment, gate, passed, edits>>
      /\ \/ record' = record /\ touched' = touched
         \/ record' = NoRecord(env.hookData) /\ touched' = TRUE
  BY DEF StopDeployTarget
<1>2. job' \in [step : Steps, record : MigrationTargetDeploymentRecord]
      /\ NoRecord(env.hookData) \in MigrationTargetDeploymentRecord
  BY <1>1, IdleJobTyped DEF IInv, IdleJob
<1>3. TypeOK'
  <2>1. record' \in MigrationTargetDeploymentRecord /\ touched' \in BOOLEAN
    BY <1>1, <1>2 DEF IInv, TypeOK
  <2> QED
    BY <1>1, <1>2, <2>1 DEF IInv, TypeOK
<1>4. RecordsTrue'
  <2>1. job'.step = "idle"
    BY <1>1 DEF IdleJob
  <2>2. CASE record' = record
    BY <1>1, <2>1, <2>2 DEF IInv, RecordsTrue, Recorded, Complete
  <2>3. CASE record' = NoRecord(env.hookData)
    BY <2>1, <2>3 DEF RecordsTrue, NoRecord
  <2> QED
    BY <1>1, <2>2, <2>3
<1>5. DeploymentTrue'
  BY <1>1 DEF IInv, DeploymentTrue
<1>6. GateTrue'
  <2>1. CASE record' = record /\ touched' = touched
    BY <1>1, <2>1 DEF IInv, GateTrue, doctorXLayerReadiness,
          doctorXLayerReadinessConsistency, RecipientMatches, HookDataMatches
  <2>2. CASE touched' = TRUE
    BY <2>2 DEF GateTrue
  <2> QED
    BY <1>1, <2>1, <2>2
<1> QED
  BY <1>3, <1>4, <1>5, <1>6 DEF IInv

LEMMA DeployFactoryKeeps ==
    ASSUME NEW written \in BOOLEAN, IInv, DeployFactory(written)
    PROVE  IInv'
<1> DEFINE local  == env.migrationTarget = NoAddress
           target == IF local THEN Len(targets) + 1 ELSE env.migrationTarget
           fees   == IF env.multisig = Unset THEN deployer ELSE env.multisig
           f      == [feeRecipient |-> fees, migrationTarget |-> target]
           d      == [factory |-> Len(factories) + 1, feeRecipient |-> fees,
                      venue |-> IF env.venue = Unset THEN localVenue ELSE env.venue,
                      migrationTarget |-> target]
<1>1. /\ targets' = IF local THEN Append(targets, LocalTarget) ELSE targets
      /\ factories' = Append(factories, f)
      /\ deployment' = IF written THEN d ELSE deployment
      /\ touched' = TRUE
      /\ UNCHANGED <<env, record, job, gate, passed, edits>>
  BY DEF DeployFactory
<1>2. /\ TypeOK /\ env \in Env
      /\ targets \in Seq(V4Targets \cup {LocalTarget})
      /\ factories \in Seq(Factories)
  BY DEF IInv, TypeOK
<1>3. target \in Nat /\ fees \in Recipients
  BY <1>2, SettingsAssumption DEF Env
<1>4. f \in Factories /\ d \in Deployment
  <2>1. f \in Factories
    BY <1>3 DEF Factories
  <2>2. Len(factories) + 1 \in Nat
    BY <1>2
  <2>3. (IF env.venue = Unset THEN localVenue ELSE env.venue) \in Venues \cup {localVenue}
    BY <1>2 DEF Env
  <2> HIDE DEF fees, target
  <2>4. d \in Deployment
    BY <1>3, <2>2, <2>3 DEF Deployment
  <2> QED
    BY <2>1, <2>4
<1>5. /\ d.factory = Len(factories) + 1
      /\ f = [feeRecipient |-> d.feeRecipient, migrationTarget |-> d.migrationTarget]
  OBVIOUS
<1> HIDE DEF d, f, fees, target
<1>6. /\ factories' \in Seq(Factories)
      /\ DOMAIN factories' = 1..(Len(factories) + 1)
      /\ \A i \in DOMAIN factories : i \in DOMAIN factories' /\ factories'[i] = factories[i]
      /\ factories'[Len(factories) + 1] = f
  BY <1>1, <1>2, <1>4, AppendKeeps
<1>7. targets' \in Seq(V4Targets \cup {LocalTarget})
  BY <1>1, <1>2, AppendKeeps
<1>8. TypeOK'
  <2>1. deployment' \in Deployment
    BY <1>1, <1>4 DEF IInv, TypeOK
  <2> QED
    BY <1>1, <1>2, <1>6, <1>7, <2>1 DEF TypeOK
<1>9. RecordsTrue'
  <2>1. ASSUME NEW r, Recorded(r)
        PROVE  /\ Complete(r)
               /\ r.migrationTarget \in DOMAIN targets'
               /\ targets'[r.migrationTarget] = TargetOf(r)
    <3>1. CASE local
      BY <1>1, <1>2, <2>1, <3>1, RecordedStays
    <3>2. CASE ~local
      BY <1>1, <2>1, <3>2 DEF Recorded
    <3> QED
      BY <3>1, <3>2
  <2>2. (record.migrationTarget # NoAddress => Recorded(record))'
    BY <1>1, <2>1 DEF IInv, RecordsTrue, Recorded
  <2>3. (job.step = "write" => Recorded(job.record))'
    BY <1>1, <2>1 DEF IInv, RecordsTrue, Recorded
  <2>4. (job.step = "deploy" => Complete(job.record))'
    BY <1>1 DEF IInv, RecordsTrue, Complete
  <2> QED
    BY <2>2, <2>3, <2>4 DEF RecordsTrue
<1>10. DeploymentTrue'
  <2>1. CASE written
    <3>1. Len(factories) + 1 \in DOMAIN factories'
      BY <1>2, <1>6
    <3> QED
      BY <1>1, <1>5, <1>6, <2>1, <3>1 DEF DeploymentTrue
  <2>2. CASE ~written
    BY <1>1, <1>6, <2>2 DEF IInv, DeploymentTrue
  <2> QED
    BY <2>1, <2>2
<1> QED
  BY <1>1, <1>8, <1>9, <1>10 DEF IInv, GateTrue

LEMMA StartGateKeeps == IInv /\ StartGate => IInv'
<1> SUFFICES ASSUME IInv, StartGate
             PROVE  IInv'
  OBVIOUS
<1>1. /\ gate' = [step |-> 1, env |-> env]
      /\ passed' = FALSE /\ touched' = FALSE
      /\ UNCHANGED <<env, targets, factories, record, deployment, job, edits>>
  BY DEF StartGate
<1>2. gate' \in [step : 0..5, env : Env] /\ gate'.step = 1 /\ gate'.env = env
  <2>1. env \in Env
    BY DEF IInv, TypeOK
  <2> QED
    BY <1>1, <2>1
<1>3. TypeOK'
  BY <1>1, <1>2 DEF IInv, TypeOK
<1>4. RecordsTrue' /\ DeploymentTrue'
  BY <1>1 DEF IInv, RecordsTrue, Recorded, Complete, DeploymentTrue
<1> QED
  BY <1>1, <1>2, <1>3, <1>4 DEF IInv, GateTrue

LEMMA RunGateKeeps ==
    ASSUME NEW answers \in Answers, IInv, runXLayerDeploymentGate(answers)
    PROVE  IInv'
<1> DEFINE ok == xlayerDeploymentGateCommands(gate.step, gate.env, answers)
<1>1. /\ gate.step # 0
      /\ gate' = [gate EXCEPT !.step = IF ok /\ @ < 5 THEN @ + 1 ELSE 0]
      /\ passed' = (ok /\ gate.step = 5)
      /\ UNCHANGED <<env, targets, factories, record, deployment, job, touched, edits>>
  BY DEF runXLayerDeploymentGate
<1>2. gate.step = 4 => (ok <=> doctorXLayerReadiness(gate.env))
  BY DEF xlayerDeploymentGateCommands
<1> HIDE DEF ok
<1>3. gate \in [step : 0..5, env : Env]
  BY DEF IInv, TypeOK
<1>4. gate' \in [step : 0..5, env : Env] /\ gate'.env = gate.env
  BY <1>1, <1>3
<1>5. gate'.step = 5 => gate.step = 4 /\ ok
  BY <1>1, <1>3
<1>6. TypeOK'
  <2>1. passed' \in BOOLEAN
    BY <1>1
  <2> QED
    BY <1>1, <1>4, <2>1 DEF IInv, TypeOK
<1>7. RecordsTrue' /\ DeploymentTrue'
  BY <1>1 DEF IInv, RecordsTrue, Recorded, Complete, DeploymentTrue
<1>8. GateTrue'
  <2> SUFFICES ASSUME ~touched
               PROVE  /\ gate'.env = env
                      /\ gate'.step = 5 \/ passed' => doctorXLayerReadiness(env)'
    BY <1>1 DEF GateTrue
  <2>1. /\ gate.env = env
        /\ gate.step = 5 => doctorXLayerReadiness(env)
    BY <1>1 DEF IInv, GateTrue
  <2>2. doctorXLayerReadiness(env)' <=> doctorXLayerReadiness(env)
    BY <1>1 DEF doctorXLayerReadiness, doctorXLayerReadinessConsistency,
                RecipientMatches, HookDataMatches
  <2>3. gate'.step = 5 => doctorXLayerReadiness(env)
    BY <1>2, <1>5, <2>1
  <2>4. passed' => doctorXLayerReadiness(env)
    BY <1>1, <2>1
  <2> QED
    BY <1>4, <2>1, <2>2, <2>3, <2>4
<1> QED
  BY <1>6, <1>7, <1>8 DEF IInv

LEMMA StutterKeeps == IInv /\ UNCHANGED vars => IInv'
  BY DEF IInv, vars, TypeOK, RecordsTrue, Recorded, Complete, DeploymentTrue, GateTrue,
         doctorXLayerReadiness, doctorXLayerReadinessConsistency, RecipientMatches,
         HookDataMatches

-----------------------------------------------------------------------------
(* The theorems.                                                           *)

(***************************************************************************)
(* The strengthened invariant: the records tell of the chain, and what the *)
(* gate has found out stands until something is touched (deploy/00, 01 and *)
(* the commands of gate:xlayer).                                           *)
(***************************************************************************)
THEOREM InvariantHolds == Spec => []IInv
<1>1. IInv /\ [Next]_vars => IInv'
  BY EditKeeps, StartDeployKeeps, DeployTargetKeeps, WriteKeeps, StopKeeps,
     DeployFactoryKeeps, StartGateKeeps, RunGateKeeps, StutterKeeps DEF Next
<1> QED
  BY <1>1, InitIsTrue, PTL DEF Spec

(***************************************************************************)
(* Type correctness: nothing unset is ever recorded or deployed.           *)
(***************************************************************************)
THEOREM TypeCorrect == Spec => []TypeOK
<1>1. IInv => TypeOK
  BY DEF IInv
<1> QED
  BY <1>1, InvariantHolds, PTL

\* What a readable record is worth.
LEMMA ReadableRecord ==
    ASSUME IInv, readMigrationTargetDeployment(record)
    PROVE  Recorded(record)
  BY DEF IInv, RecordsTrue, readMigrationTargetDeployment

(***************************************************************************)
(* The record of a target tells what the target was built with, whatever   *)
(* was edited, stopped or deployed in between                              *)
(* (deploy/00-deploy-uniswap-v4-mint-position-target.ts).                  *)
(***************************************************************************)
THEOREM RecordIsTrue == Spec => []RecordDescribesTarget
<1>1. IInv => RecordDescribesTarget
  BY ReadableRecord DEF RecordDescribesTarget, Recorded
<1> QED
  BY <1>1, InvariantHolds, PTL

\* The target of the launches is the recorded one, and refuses only hook data.
LEMMA ResolvedIsAccepted ==
    ASSUME IInv, MayResolve
    PROVE  /\ LaunchTarget = TargetOf(record)
           /\ factories[deployment.factory].feeRecipient = deployment.feeRecipient
           /\ \A data : data = record.hookData =>
                  AcceptsConfig(resolveMigrationData(data), LaunchTarget)
<1>1. /\ Recorded(record)
      /\ deployment # NoDeployment
      /\ record.migrationTarget = deployment.migrationTarget
      /\ validateMigrationPoolConfig(record.pool, record.liquidity)
  BY ReadableRecord DEF MayResolve, SameTarget, readMigrationTargetDeployment
<1>2. factories[deployment.factory] = [feeRecipient    |-> deployment.feeRecipient,
                                       migrationTarget |-> deployment.migrationTarget]
  BY <1>1 DEF IInv, DeploymentTrue
<1>3. LaunchTarget = TargetOf(record)
  BY <1>1, <1>2 DEF LaunchTarget, Recorded
<1>4. ValidPool(record.pool) /\ record.liquidity # 0
  <2>1. record.pool \in Pools /\ record.liquidity \in Nat
    BY <1>1, SettingsAssumption DEF Recorded, Complete
  <2> QED
    BY <1>1, <2>1 DEF validateMigrationPoolConfig, ValidPool, Pools
<1>5. ASSUME NEW data, data = record.hookData
      PROVE  AcceptsConfig(resolveMigrationData(data), LaunchTarget)
  BY <1>3, <1>4, <1>5 DEF AcceptsConfig, resolveMigrationData, TargetOf, ValidRecipient,
                          _validatePoolAllowlist
<1> QED
  BY <1>2, <1>3, <1>5

(***************************************************************************)
(* A launch refuses what migrate-liquidity builds for it for its hook data *)
(* only (cli/migrate-liquidity.ts, resolveMigrationData).                  *)
(***************************************************************************)
THEOREM HookDataIsTheOnlyDoubt == Spec => []OnlyHookDataCanBeWrong
<1>1. IInv => OnlyHookDataCanBeWrong
  <2> SUFFICES ASSUME IInv, MayResolve
               PROVE  /\ LaunchTarget.kind = "v4"
                      /\ AcceptsConfig(resolveMigrationData(LaunchTarget.hookData),
                                       LaunchTarget)
    BY DEF OnlyHookDataCanBeWrong
  <2>1. LaunchTarget.kind = "v4" /\ LaunchTarget.hookData = record.hookData
    BY ResolvedIsAccepted DEF TargetOf
  <2> QED
    BY <2>1, ResolvedIsAccepted
<1> QED
  BY <1>1, InvariantHolds, PTL

\* What a passed gate has compared.
LEMMA PassedMeansChecked ==
    ASSUME IInv, passed, ~touched
    PROVE  /\ MayResolve
           /\ env.hookData = record.hookData
           /\ env.lpRecipient = record.lpRecipient
           /\ env.multisig = deployment.feeRecipient
<1>1. doctorXLayerReadiness(env)
  BY DEF IInv, GateTrue
<1> QED
  BY <1>1 DEF doctorXLayerReadiness, doctorXLayerReadinessConsistency, RecipientMatches,
              HookDataMatches, MayResolve, SameTarget

(***************************************************************************)
(* After a passed gate, and until something is touched, the data           *)
(* migrate-liquidity builds are data the target accepts (gate:xlayer).     *)
(***************************************************************************)
THEOREM GateIsEnough == Spec => []GateMeansAccepted
<1>1. IInv => GateMeansAccepted
  BY PassedMeansChecked, ResolvedIsAccepted DEF GateMeansAccepted
<1> QED
  BY <1>1, InvariantHolds, PTL

(***************************************************************************)
(* Then fees and positions go where the environment says (gate:xlayer).    *)
(***************************************************************************)
THEOREM GateKeepsCustody == Spec => []GateMeansCustody
<1>1. IInv => GateMeansCustody
  <2> SUFFICES ASSUME IInv, passed, ~touched
               PROVE  /\ LaunchTarget.lpRecipient = env.lpRecipient
                      /\ factories[deployment.factory].feeRecipient = env.multisig
    BY DEF GateMeansCustody
  <2>1. LaunchTarget.lpRecipient = record.lpRecipient
    BY PassedMeansChecked, ResolvedIsAccepted DEF TargetOf
  <2> QED
    BY <2>1, PassedMeansChecked, ResolvedIsAccepted
<1> QED
  BY <1>1, InvariantHolds, PTL

=============================================================================
