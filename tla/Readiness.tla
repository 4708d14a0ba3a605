----------------------------- MODULE Readiness -----------------------------
(***************************************************************************)
(* How a production network is set up, and the gate that must pass before  *)
(* a launch: the environment an operator edits, the migration target and   *)
(* the factory deployed from it, the record each deployment writes, and    *)
(* npm run gate:xlayer, which compares the three in five commands one      *)
(* after the other.                                                        *)
(*                                                                         *)
(* The environment may be edited and contracts may be deployed at any      *)
(* moment, in the middle of the gate too.  What the gate is for is said by *)
(* GateMeansAccepted: the data cli/migrate-liquidity.ts builds later, from *)
(* the records and its environment, is data the deployed target accepts.   *)
(*                                                                         *)
(* One network; whether a venue's contracts have code does not change.     *)
(***************************************************************************)
EXTENDS MigrationTarget, Sequences

CONSTANTS
    Recipients,         \* accounts that fees or positions may go to
    deployer,           \* the account that deploys, the default recipient
    Venues,             \* pairs of a pool manager and a position manager
    VenuesWithCode,     \* those that are deployed
    localVenue,         \* the pair deploy deploys itself when none is set
    PoolSettings,       \* pools an environment may name, valid or not
    Liquidities,        \* values of XLAYER_V4_MIGRATION_LIQUIDITY
    HookData,           \* values of XLAYER_V4_HOOK_DATA
    Chains, xlayer,     \* chains an RPC URL may lead to, and the right one
    Unset,              \* an environment variable that is not set
    UINT24_MAX, INT24_MAX, UINT128_MAX,
    MaxTargets,         \* bound: migration targets deployed
    MaxFactories,       \* bound: factories deployed
    MaxEdits            \* bound: edits of the environment

Pools == [hooks : Nat, fee : Int, spacing : Int, lower : Int, upper : Int]

ASSUME SettingsAssumption ==
    /\ deployer \in Recipients
    /\ localVenue \notin Venues /\ VenuesWithCode \subseteq Venues
    /\ PoolSettings \subseteq Pools
    /\ Liquidities \subseteq Nat
    /\ xlayer \in Chains
    /\ Unset \notin Recipients \cup Venues \cup Chains
    /\ Unset \notin PoolSettings
    /\ Unset \notin Liquidities

ASSUME WidthAssumption == {UINT24_MAX, INT24_MAX, UINT128_MAX} \subseteq Nat

ASSUME BoundsAssumption == {MaxTargets, MaxFactories, MaxEdits} \subseteq Nat

VARIABLES
    env,        \* the environment of the operator
    targets,    \* migration targets on the chain: their immutables
    factories,  \* factories on the chain: fee recipient, migration target
    record,     \* deployments/xlayer/uniswap-v4-mint-position-target.json
    deployment, \* deployments/xlayer/latest.json
    job,        \* the running deploy:migration-target
    gate,       \* the running gate: its environment and its next command
    passed,     \* the last gate passed
    touched,    \* history: environment or records changed since it started
    edits       \* edits so far

vars == <<env, targets, factories, record, deployment, job, gate, passed, touched, edits>>

Env == [rpc : Chains \cup {Unset},
        multisig : Recipients \cup {Unset}, venue : Venues \cup {Unset},
        lpRecipient : Recipients \cup {Unset}, migrationTarget : Nat,
        pool : PoolSettings \cup {Unset}, liquidity : Liquidities \cup {Unset},
        hookData : HookData]

\* No contract; an address that is not set.
NoAddress == 0

(***************************************************************************)
(* A UniswapV4MintPositionTarget by its immutables, and the                *)
(* LocalMigrationTarget, which has none and accepts anything.              *)
(***************************************************************************)
V4Targets == [kind : {"v4"}, venue : Venues, lpRecipient : Recipients,
              pool : PoolSettings, hookData : HookData]

LocalTarget == [kind |-> "local"]

Factories == [feeRecipient : Recipients, migrationTarget : Nat]

\* config/migration-target-deployments.ts.
MigrationTargetDeploymentRecord ==
    [migrationTarget : Nat, venue : Venues \cup {Unset}, lpRecipient : Recipients \cup {Unset},
     pool : PoolSettings \cup {Unset}, liquidity : Liquidities \cup {Unset},
     hookData : HookData]

\* The part of config/deployments.ts: Deployment that the gate compares.
Deployment == [factory : Nat, feeRecipient : Recipients, venue : Venues \cup {localVenue},
               migrationTarget : Nat]

NoRecord(data) == [migrationTarget |-> NoAddress, venue |-> Unset, lpRecipient |-> Unset,
                   pool |-> Unset, liquidity |-> Unset, hookData |-> data]

NoDeployment == [factory |-> NoAddress, feeRecipient |-> deployer, venue |-> localVenue,
                 migrationTarget |-> NoAddress]

Steps == {"idle", "deploy", "write"}

TypeOK ==
    /\ env \in Env
    /\ targets \in Seq(V4Targets \cup {LocalTarget})
    /\ factories \in Seq(Factories)
    /\ record \in MigrationTargetDeploymentRecord
    /\ deployment \in Deployment
    /\ job \in [step : Steps, record : MigrationTargetDeploymentRecord]
    /\ gate \in [step : 0..5, env : Env]
    /\ passed \in BOOLEAN
    /\ touched \in BOOLEAN
    /\ edits \in Nat

IdleJob(data) == [step |-> "idle", record |-> NoRecord(data)]

Init ==
    /\ env \in [rpc : {xlayer}, multisig : Recipients, venue : Venues, lpRecipient : Recipients,
                migrationTarget : {NoAddress}, pool : PoolSettings,
                liquidity : Liquidities, hookData : HookData]
    /\ targets = <<>>
    /\ factories = <<>>
    /\ record = NoRecord(env.hookData)
    /\ deployment = NoDeployment
    /\ job = IdleJob(env.hookData)
    /\ gate = [step |-> 0, env |-> env]
    /\ passed = FALSE
    /\ touched = FALSE
    /\ edits = 0

-----------------------------------------------------------------------------
(* The operator.                                                           *)

EditEnv ==
    /\ edits < MaxEdits
    /\ \/ \E r \in Recipients \cup {Unset} :
             env' \in {[env EXCEPT !.multisig = r], [env EXCEPT !.lpRecipient = r]}
       \/ \E v \in Venues \cup {Unset} : env' = [env EXCEPT !.venue = v]
       \/ \E c \in Chains \cup {Unset} : env' = [env EXCEPT !.rpc = c]
       \/ \E t \in 0..Len(targets) : env' = [env EXCEPT !.migrationTarget = t]
       \/ \E p \in PoolSettings \cup {Unset} : env' = [env EXCEPT !.pool = p]
       \/ \E l \in Liquidities \cup {Unset} : env' = [env EXCEPT !.liquidity = l]
       \/ \E d \in HookData : env' = [env EXCEPT !.hookData = d]
    /\ env' # env
    /\ edits' = edits + 1
    /\ touched' = TRUE
    /\ UNCHANGED <<targets, factories, record, deployment, job, gate, passed>>

-----------------------------------------------------------------------------
(* lib/migration-data.ts and config/migration-target-deployments.ts.       *)

isInt24(value) == -INT24_MAX - 1 <= value /\ value <= INT24_MAX

(***************************************************************************)
(* The rules for a pool, which both files spell out.                       *)
(***************************************************************************)
validateMigrationPoolConfig(pool, liquidity) ==
    /\ 0 < pool.fee /\ pool.fee <= UINT24_MAX
    /\ 0 < pool.spacing /\ isInt24(pool.spacing)
    /\ isInt24(pool.lower) /\ isInt24(pool.upper)
    /\ pool.lower < pool.upper
    /\ pool.lower % pool.spacing = 0 /\ pool.upper % pool.spacing = 0
    /\ 0 < liquidity /\ liquidity <= UINT128_MAX

\* requiredEnv, and an envValue that must be explicit, do not throw.
requiredEnv(value) == value # Unset

\* migrationPoolConfigFromEnv with requireExplicit does not throw.
migrationPoolConfigFromEnv(e) ==
    /\ requiredEnv(e.pool)
    /\ requiredEnv(e.liquidity)
    /\ validateMigrationPoolConfig(e.pool, e.liquidity)

readMigrationTargetDeployment(r) ==
    /\ r.migrationTarget # NoAddress
    /\ validateMigrationPoolConfig(r.pool, r.liquidity)

-----------------------------------------------------------------------------
(* lib/clients.ts: a client knows the chain of its network, and refuses to *)
(* send to another one.  Without an RPC URL there is no client.            *)

rpcUrlFromEnv(e) == e.rpc

walletClient(e) == rpcUrlFromEnv(e) = xlayer

-----------------------------------------------------------------------------
(* deploy/00-deploy-uniswap-v4-mint-position-target.ts.                    *)

requireCode(venue) == venue \in VenuesWithCode

\* Altered form: no default.
NoDefaultRecipient(e) == e.lpRecipient

lpRecipientOrDeployer(e) == IF e.lpRecipient = Unset THEN deployer ELSE e.lpRecipient

StartDeployTarget ==
    /\ job.step = "idle"
    /\ Len(targets) < MaxTargets
    /\ walletClient(env)
    /\ requiredEnv(env.venue)
    /\ requireCode(env.venue)
    /\ migrationPoolConfigFromEnv(env)
    /\ job' = [step |-> "deploy",
               record |-> [migrationTarget |-> NoAddress, venue |-> env.venue,
                           lpRecipient |-> lpRecipientOrDeployer(env),
                           pool |-> env.pool, liquidity |-> env.liquidity,
                           hookData |-> env.hookData]]
    /\ UNCHANGED <<env, targets, factories, record, deployment, gate, passed, touched, edits>>

\* The constructor's arguments become the immutables.
TargetOf(r) == [kind |-> "v4", venue |-> r.venue, lpRecipient |-> r.lpRecipient,
                pool |-> r.pool, hookData |-> r.hookData]

DeployTarget ==
    /\ job.step = "deploy"
    /\ Len(targets) < MaxTargets
    /\ targets' = Append(targets, TargetOf(job.record))
    /\ job' = [step |-> "write",
               record |-> [job.record EXCEPT !.migrationTarget = Len(targets) + 1]]
    /\ UNCHANGED <<env, factories, record, deployment, gate, passed, touched, edits>>

\* Altered form: the recipient is read again for the record.
RecipientReadAgain(r) == [r EXCEPT !.lpRecipient = env.lpRecipient]

TargetRecord(r) == r

writeMigrationTargetDeployment ==
    /\ job.step = "write"
    /\ record' = TargetRecord(job.record)
    /\ job' = IdleJob(env.hookData)
    /\ touched' = TRUE
    /\ UNCHANGED <<env, targets, factories, deployment, gate, passed, edits>>

(***************************************************************************)
(* The command ends before its time; the write truncates the file before   *)
(* it fills it.                                                            *)
(***************************************************************************)
StopDeployTarget ==
    /\ job.step # "idle"
    /\ job' = IdleJob(env.hookData)
    /\ \/ record' = record /\ UNCHANGED touched
       \/ /\ job.step = "write"
          /\ record' = NoRecord(env.hookData)
          /\ touched' = TRUE
    /\ UNCHANGED <<env, targets, factories, deployment, gate, passed, edits>>

-----------------------------------------------------------------------------
(* deploy/01-deploy-factory.ts: what is not set is deployed, or the        *)
(* deployer's own.  The record is not reached when the command stops.      *)

DeployFactory(written) ==
    LET local  == env.migrationTarget = NoAddress
        target == IF local THEN Len(targets) + 1 ELSE env.migrationTarget
        fees   == IF env.multisig = Unset THEN deployer ELSE env.multisig
    IN  /\ walletClient(env)
        /\ requiredEnv(env.venue) => requireCode(env.venue)
        /\ Len(factories) < MaxFactories
        /\ local => Len(targets) < MaxTargets
        /\ targets' = IF local THEN Append(targets, LocalTarget) ELSE targets
        /\ factories' = Append(factories, [feeRecipient |-> fees, migrationTarget |-> target])
        /\ deployment' = IF written
                         THEN [factory |-> Len(factories) + 1, feeRecipient |-> fees,
                               venue |-> IF env.venue = Unset THEN localVenue ELSE env.venue,
                               migrationTarget |-> target]
                         ELSE deployment
        /\ touched' = TRUE
        /\ UNCHANGED <<env, record, job, gate, passed, edits>>

-----------------------------------------------------------------------------
(* npm run gate:xlayer.                                                    *)

(***************************************************************************)
(* preflight:xlayer:readiness, of the environment alone.                   *)
(***************************************************************************)
validateXLayerReadinessPreflight(e) ==
    /\ \A value \in {rpcUrlFromEnv(e), e.multisig, e.venue, e.lpRecipient} : requiredEnv(value)
    /\ e.migrationTarget # NoAddress
    /\ migrationPoolConfigFromEnv(e)

preflightXLayerReadiness(e) == validateXLayerReadinessPreflight(e)

(***************************************************************************)
(* What a doctor's node answers: everything, not the later questions, or   *)
(* nothing.  Without an RPC URL it is not asked.                           *)
(***************************************************************************)
Answers == {"all", "some", "none"}

codeReaderForRpc(e, answers) ==
    [chain |-> rpcUrlFromEnv(e),
     answers |-> IF rpcUrlFromEnv(e) = Unset THEN "unasked" ELSE answers]

(***************************************************************************)
(* Another chain and an address without code are errors; what cannot be    *)
(* read is a warning.                                                      *)
(***************************************************************************)
doctorMigrationTargetDeployment(r, reader) ==
    reader.answers = "all" =>
        /\ reader.chain = xlayer
        /\ r.migrationTarget \in DOMAIN targets
        /\ requireCode(r.venue)

\* doctor:migration-target.
doctorMigrationTarget(e, answers) ==
    /\ readMigrationTargetDeployment(record)
    /\ doctorMigrationTargetDeployment(record, codeReaderForRpc(e, answers))

(***************************************************************************)
(* The factory's configuration is read as a whole, the upgrade metadata at *)
(* its end: if the first reads fail, as they do on another chain, that is  *)
(* an error; if the last do, nothing is compared and a warning remains.    *)
(***************************************************************************)
getFactoryConfig(reader, factory) ==
    CASE reader.chain # xlayer \/ reader.answers = "none" -> {}
      [] reader.answers = "some" -> Factories
      [] reader.answers = "all"  -> {factories[factory]}

(***************************************************************************)
(* The part of the doctor about fees and migration.                        *)
(***************************************************************************)
doctorDeployment(d, reader) ==
    reader.answers # "unasked" =>
        /\ reader.answers = "all" =>
              d.factory \in DOMAIN factories /\ d.venue \in VenuesWithCode \cup {localVenue}
        /\ [feeRecipient |-> d.feeRecipient, migrationTarget |-> d.migrationTarget]
              \in getFactoryConfig(reader, d.factory)

\* doctor:deployment.
doctorRecordedDeployment(e, answers) ==
    /\ deployment # NoDeployment
    /\ doctorDeployment(deployment, codeReaderForRpc(e, answers))

\* Altered form: the hook data is not compared.
HookDataIgnored(e) == TRUE

HookDataMatches(e) == e.hookData = record.hookData

\* Altered form: the recipient of the position is not compared.
RecipientIgnored(e) == TRUE

RecipientMatches(e) == e.lpRecipient = record.lpRecipient

(***************************************************************************)
(* The records with each other, and the environment with the records.      *)
(***************************************************************************)
doctorXLayerReadinessConsistency(e) ==
    /\ deployment.migrationTarget = record.migrationTarget
    /\ deployment.venue = record.venue
    /\ e.multisig = deployment.feeRecipient
    /\ e.migrationTarget = deployment.migrationTarget
    /\ e.venue = record.venue
    /\ RecipientMatches(e)
    /\ migrationPoolConfigFromEnv(e)
    /\ e.pool = record.pool
    /\ e.liquidity = record.liquidity
    /\ HookDataMatches(e)

\* doctor:xlayer-readiness.
doctorXLayerReadiness(e) ==
    /\ deployment # NoDeployment
    /\ readMigrationTargetDeployment(record)
    /\ doctorXLayerReadinessConsistency(e)

(***************************************************************************)
(* The commands in their order; the fifth, the fork tests, may fail or     *)
(* pass.                                                                   *)
(***************************************************************************)
xlayerDeploymentGateCommands(n, e, answers) ==
    CASE n = 1 -> preflightXLayerReadiness(e)
      [] n = 2 -> doctorMigrationTarget(e, answers)
      [] n = 3 -> doctorRecordedDeployment(e, answers)
      [] n = 4 -> doctorXLayerReadiness(e)
      [] n = 5 -> answers # "none"

StartGate ==
    /\ gate.step = 0
    /\ gate' = [step |-> 1, env |-> env]
    /\ passed' = FALSE
    /\ touched' = FALSE
    /\ UNCHANGED <<env, targets, factories, record, deployment, job, edits>>

(***************************************************************************)
(* runXLayerDeploymentGate stops at the first command that fails.          *)
(***************************************************************************)
runXLayerDeploymentGate(answers) ==
    LET ok == xlayerDeploymentGateCommands(gate.step, gate.env, answers)
    IN  /\ gate.step # 0
        /\ gate' = [gate EXCEPT !.step = IF ok /\ @ < 5 THEN @ + 1 ELSE 0]
        /\ passed' = (ok /\ gate.step = 5)
        /\ UNCHANGED <<env, targets, factories, record, deployment, job, touched, edits>>

-----------------------------------------------------------------------------
Next ==
    \/ EditEnv
    \/ StartDeployTarget \/ DeployTarget \/ writeMigrationTargetDeployment \/ StopDeployTarget
    \/ \E written \in BOOLEAN : DeployFactory(written)
    \/ StartGate
    \/ \E answers \in Answers : runXLayerDeploymentGate(answers)

Spec == Init /\ [][Next]_vars

-----------------------------------------------------------------------------
(* cli/migrate-liquidity.ts: resolveMigrationData, without the amounts.    *)

\* Altered form: any recorded target will do.
AnyTarget == TRUE

SameTarget == record.migrationTarget = deployment.migrationTarget

MayResolve ==
    /\ deployment # NoDeployment
    /\ readMigrationTargetDeployment(record)
    /\ SameTarget

resolveMigrationData(hookData) ==
    [pool |-> record.pool, liquidity |-> record.liquidity,
     lpRecipient |-> record.lpRecipient, hookData |-> hookData]

\* The target of the launches of the recorded factory.
LaunchTarget == targets[factories[deployment.factory].migrationTarget]

-----------------------------------------------------------------------------
(* Properties.                                                             *)

(***************************************************************************)
(* The record of a target tells what the target on the chain was built     *)
(* with, whatever was edited, stopped or deployed in between.  No doctor   *)
(* reads the immutables: they all rely on this.                            *)
(***************************************************************************)
RecordDescribesTarget ==
    readMigrationTargetDeployment(record) =>
        /\ record.migrationTarget \in DOMAIN targets
        /\ targets[record.migrationTarget] = TargetOf(record)

(***************************************************************************)
(* What migrate-liquidity builds is refused for its pool, its liquidity or *)
(* its recipient by no launch it is built for, with or without a gate:     *)
(* only the hook data, which it takes from the environment, may be wrong.  *)
(***************************************************************************)
OnlyHookDataCanBeWrong ==
    MayResolve =>
        /\ LaunchTarget.kind = "v4"
        /\ AcceptsConfig(resolveMigrationData(LaunchTarget.hookData), LaunchTarget)

(***************************************************************************)
(* Once the gate has passed, and until environment or records change, the  *)
(* data built from them is data the target of the launches accepts.        *)
(***************************************************************************)
GateMeansAccepted ==
    passed /\ ~touched =>
        MayResolve /\ AcceptsConfig(resolveMigrationData(env.hookData), LaunchTarget)

(***************************************************************************)
(* Then, too, fees and positions go where the environment says, although   *)
(* both deployments fall back to the deployer.                             *)
(***************************************************************************)
GateMeansCustody ==
    passed /\ ~touched =>
        /\ LaunchTarget.lpRecipient = env.lpRecipient
        /\ factories[deployment.factory].feeRecipient = env.multisig

=============================================================================
