-------------------------- MODULE DeploymentRecord --------------------------
(***************************************************************************)
(* The record of a deployment (deployments/<network>/latest.json) and the  *)
(* commands that keep it: deploy, create-token, create-token-and-buy,      *)
(* upgrade-hooks, upgrade-routers, upgrade-factory,                        *)
(* upgrade-hook-architecture, and export:abis that copies it.              *)
(*                                                                         *)
(* Every command is a process.  It reads the whole record when it starts,  *)
(* works on its copy while it sends one transaction after the other, and   *)
(* overwrites the file with the copy at its end.  Nothing locks the file,  *)
(* and a command may stop anywhere: a transaction reverts, the RPC fails,  *)
(* somebody presses ^C.  The chain keeps what was mined.                   *)
(*                                                                         *)
(* Contracts are numbered in the order of their creation.  A command waits *)
(* for the receipt of each transaction, so sending and mining are a step.  *)
(***************************************************************************)
EXTENDS Integers, Sequences, FiniteSets

CONSTANTS
    Commands,           \* processes, each runs one command after another
    Bundles,            \* number of output directories of export:abis
    MaxTokens,          \* bound: tokens created
    MaxFactories,       \* bound: factories deployed
    MaxStarts           \* bound: commands started

ASSUME BoundsAssumption ==
    /\ Bundles \in Nat \ {0}
    /\ MaxTokens \in Nat
    /\ MaxFactories \in Nat
    /\ MaxStarts \in Nat

VARIABLES
    code,       \* implementation contracts deployed so far, their last number
    factories,  \* factory proxies: their implementation, their defaults
    tokens,     \* launches: their factory, the implementations of their proxies
    file,       \* the record on disk
    bundle,     \* what export:abis wrote into each directory
    proc,       \* what each process runs
    starts,     \* commands started
    last,       \* history: the last record that was written completely
    solo,       \* history: no two commands ever ran at the same time
    orderly     \* history: solo, and no command stopped half-way

vars == <<code, factories, tokens, file, bundle, proc, starts, last, solo, orderly>>

Kinds == {"hook", "router"}

\* An optional address that is absent, or the zero address.
None == 0

Factories == [impl : Nat, default : [Kinds -> Nat]]

Tokens == [factory : Nat, impl : [Kinds -> Nat]]

Entries == [token : Nat, impl : [Kinds -> Nat]]

(***************************************************************************)
(* config/deployments.ts: Deployment, without the fields no command ever   *)
(* changes or compares.                                                    *)
(***************************************************************************)
Deployments ==
    [factory : Nat, impl : Nat, default : [Kinds -> Nat], createdTokens : Seq(Entries)]

(***************************************************************************)
(* No file, or one that writeFileSync has truncated and not filled yet:    *)
(* parseDeployment throws either way.                                      *)
(***************************************************************************)
NoRecord == [factory |-> None, impl |-> None, default |-> [k \in Kinds |-> None],
             createdTokens |-> <<>>]

\* parseDeployment accepts the file.
Readable(f) == f # NoRecord

Jobs == {"idle", "deploy", "rewrite", "create-token", "upgrade-hooks", "upgrade-routers",
         "upgrade-factory", "upgrade-hook-architecture", "export"}

Processes ==
    [job : Jobs, step : {"read", "tx", "tx2", "router", "hook", "default", "write", "writing"},
     copy : Deployments, todo : Seq(Nat), all : BOOLEAN, impl : Nat,
     token : Entries, alone : BOOLEAN]

NoEntry == [token |-> None, impl |-> [k \in Kinds |-> None]]

Idle == [job |-> "idle", step |-> "read", copy |-> NoRecord, todo |-> <<>>, all |-> FALSE,
         impl |-> None, token |-> NoEntry, alone |-> TRUE]

\* The part of a record that export:abis publishes.
NetworkDeployment == [factory : Nat, impl : Nat, default : [Kinds -> Nat]]

Snapshot(r) == [factory |-> r.factory, impl |-> r.impl, default |-> r.default]

(***************************************************************************)
(* What it writes into each directory, in this order: addresses.json and   *)
(* addresses.ts, which hold a snapshot, and README.md, a table of the      *)
(* factories.  The ABIs beside them are those of the build.                *)
(***************************************************************************)
Directories == [json : NetworkDeployment, ts : NetworkDeployment, readme : Nat]

TypeOK ==
    /\ code \in Nat
    /\ factories \in Seq(Factories)
    /\ tokens \in Seq(Tokens)
    /\ file \in Deployments
    /\ bundle \in [1..Bundles -> Directories]
    /\ proc \in [Commands -> Processes]
    /\ starts \in Nat
    /\ last \in Deployments
    /\ solo \in BOOLEAN
    /\ orderly \in BOOLEAN

renderAddressesTs(r) == Snapshot(r)

renderReadme(r) == r.factory

\* A directory that is up to date.
Rendered(r) == [json |-> Snapshot(r), ts |-> renderAddressesTs(r), readme |-> renderReadme(r)]

(***************************************************************************)
(* A network starts with nothing, or with a recorded factory from before   *)
(* hooks had proxies.                                                      *)
(***************************************************************************)
LegacyFactory == [impl |-> 1, default |-> [k \in Kinds |-> IF k = "hook" THEN None ELSE 2]]

LegacyRecord == [factory |-> 1, impl |-> 1, default |-> LegacyFactory.default,
                 createdTokens |-> <<>>]

Init ==
    /\ \/ /\ code = 0
          /\ factories = <<>>
          /\ file = NoRecord
       \/ /\ code = 2
          /\ factories = <<LegacyFactory>>
          /\ file = LegacyRecord
    /\ tokens = <<>>
    /\ bundle = [d \in 1..Bundles |-> Rendered(NoRecord)]
    /\ proc = [p \in Commands |-> Idle]
    /\ starts = 0
    /\ last = file
    /\ solo = TRUE
    /\ orderly = TRUE

-----------------------------------------------------------------------------
(* How a command runs.                                                     *)

Chain == <<code, factories, tokens>>
Disk  == <<file, bundle, last>>
Log   == <<starts, solo, orderly>>

Quiet == \A q \in Commands : proc[q].job = "idle"

(***************************************************************************)
(* Process p begins a job; started is what it knows after reading the      *)
(* record and its arguments.                                               *)
(***************************************************************************)
Begin(p, started) ==
    /\ proc[p].job = "idle"
    /\ starts < MaxStarts
    /\ starts' = starts + 1
    /\ proc' = [q \in Commands |->
                   IF q = p THEN [started EXCEPT !.alone = Quiet]
                   ELSE IF proc[q].job = "idle" THEN Idle
                   ELSE [proc[q] EXCEPT !.alone = FALSE]]
    /\ solo' = (solo /\ Quiet)
    /\ orderly' = (orderly /\ Quiet)

At(p, job, step) == proc[p].job = job /\ proc[p].step = step

Continue(p, continued) ==
    /\ proc' = [proc EXCEPT ![p] = continued]
    /\ UNCHANGED Log

\* lib/transactions.ts: a receipt that says "reverted" ends the command.
waitForSuccessfulTransactionReceipt(mined) == mined

(***************************************************************************)
(* A command ends before its time; what it has sent stays on the chain,    *)
(* what it has learnt is lost.                                             *)
(***************************************************************************)
Stop(p) ==
    /\ proc[p].job # "idle"
    /\ proc' = [proc EXCEPT ![p] = Idle]
    /\ orderly' = FALSE
    /\ UNCHANGED <<Chain, Disk, starts, solo>>

(***************************************************************************)
(* writeDeployment: writeFileSync truncates the file and fills it again.   *)
(***************************************************************************)
Truncate(p) ==
    /\ proc[p].step = "write"
    /\ file' = NoRecord
    /\ Continue(p, [proc[p] EXCEPT !.step = "writing"])
    /\ UNCHANGED <<Chain, bundle, last>>

\* Altered form: only what this command created is written.
WriteOwnEntries(run) == [run.copy EXCEPT !.createdTokens = <<run.token>>]

\* Altered form: the entries are not part of what is written.
WriteWithoutEntries(run) == Snapshot(run.copy)

Written(run) == run.copy

writeDeployment(p) ==
    /\ proc[p].step = "writing"
    /\ file' = Written(proc[p])
    /\ last' = Written(proc[p])
    /\ Continue(p, Idle)
    /\ UNCHANGED <<Chain, bundle>>

-----------------------------------------------------------------------------
(* deploy/01-deploy-factory.ts.                                            *)

StartDeploy(p) ==
    /\ Len(factories) < MaxFactories
    /\ Begin(p, [Idle EXCEPT !.job = "deploy", !.step = "tx"])
    /\ UNCHANGED <<Chain, Disk>>

(***************************************************************************)
(* Hook, router and factory implementations, then the factory's proxy.     *)
(***************************************************************************)
\* Altered form: the record goes on with the launches it had.
LaunchesKept == file.createdTokens

\* A new factory has no launches.
FirstLaunches == <<>>

DeployFactory(p) ==
    LET default == [k \in Kinds |-> IF k = "hook" THEN None ELSE code + 2]
        record  == [factory |-> Len(factories) + 1, impl |-> code + 3,
                    default |-> [k \in Kinds |-> IF k = "hook" THEN code + 1 ELSE code + 2],
                    createdTokens |-> FirstLaunches]
    IN  /\ At(p, "deploy", "tx")
        /\ Len(factories) < MaxFactories
        /\ code' = code + 3
        /\ factories' = Append(factories, [impl |-> code + 3, default |-> default])
        /\ Continue(p, [proc[p] EXCEPT !.step = "default", !.copy = record,
                                       !.impl = code + 1])
        /\ UNCHANGED <<tokens, Disk>>

\* Altered form: nobody notices that the call did not succeed.
DefaultIgnored(f, kind, impl) == factories

DefaultSet(f, kind, impl) == [factories EXCEPT ![f].default[kind] = impl]

SetFirstDefault(p) ==
    /\ At(p, "deploy", "default")
    /\ factories' = DefaultSet(proc[p].copy.factory, "hook", proc[p].impl)
    /\ Continue(p, [proc[p] EXCEPT !.step = "write"])
    /\ UNCHANGED <<code, tokens, Disk>>

-----------------------------------------------------------------------------
(* deploy/02-write-deployment.ts reads the record and writes it back.      *)

StartRewrite(p) ==
    /\ Readable(file)
    /\ Begin(p, [Idle EXCEPT !.job = "rewrite", !.step = "write", !.copy = file])
    /\ UNCHANGED <<Chain, Disk>>

-----------------------------------------------------------------------------
(* cli/create-token.ts and create-token-and-buy.ts, which differ only in   *)
(* the call.                                                               *)

StartCreate(p) ==
    /\ Readable(file)
    /\ Begin(p, [Idle EXCEPT !.job = "create-token", !.step = "tx", !.copy = file])
    /\ UNCHANGED <<Chain, Disk>>

\* The launch a receipt announces; without its event the command ends.
extractCreatedTokenFromLogs(mined) == IF mined THEN {Len(tokens) + 1} ELSE {}

(***************************************************************************)
(* The factory gives the launch its current implementations; without a     *)
(* hook implementation it reverts.                                         *)
(***************************************************************************)
CreateToken(p, mined) ==
    LET run     == proc[p]
        factory == factories[run.copy.factory]
    IN  /\ At(p, "create-token", "tx")
        /\ waitForSuccessfulTransactionReceipt(mined)
        /\ mined => factory.default["hook"] # None /\ Len(tokens) < MaxTokens
        /\ tokens' = IF mined
                     THEN Append(tokens, [factory |-> run.copy.factory,
                                          impl |-> factory.default])
                     ELSE tokens
        /\ \E token \in extractCreatedTokenFromLogs(mined) :
              Continue(p, [run EXCEPT !.step = "router", !.token.token = token])
        /\ UNCHANGED <<code, factories, Disk>>

(***************************************************************************)
(* The implementation is read back from the factory, one kind after the    *)
(* other, and left out of the entry when it cannot be read.                *)
(***************************************************************************)
readOptionalFactoryRouterImplementation(p, found) ==
    LET run == proc[p]
    IN  /\ At(p, "create-token", "router")
        /\ Continue(p, [run EXCEPT !.step = "hook",
                          !.token.impl["router"] =
                              IF found THEN factories[run.copy.factory].default["router"]
                              ELSE None])
        /\ UNCHANGED <<Chain, Disk>>

\* Altered form: the newest launch comes first.
NewestFirst(entries, entry) == <<entry>> \o entries

push(entries, entry) == Append(entries, entry)

readOptionalFactoryHookImplementation(p, found) ==
    LET run   == proc[p]
        entry == [run.token EXCEPT !.impl["hook"] =
                      IF found THEN factories[run.copy.factory].default["hook"] ELSE None]
    IN  /\ At(p, "create-token", "hook")
        /\ Continue(p, [run EXCEPT !.step = "write", !.token = entry,
                                   !.copy.createdTokens = push(@, entry)])
        /\ UNCHANGED <<Chain, Disk>>

-----------------------------------------------------------------------------
(* cli/upgrade-hooks.ts and upgrade-routers.ts: a job for each kind.       *)

KindOf(job) == IF job = "upgrade-hooks" THEN "hook" ELSE "router"

(***************************************************************************)
(* resolveHookUpgradeTargets: every launch of the record (--all), or one   *)
(* of them.  The new implementation is deployed before anything else.      *)
(***************************************************************************)
Targets(record, all) ==
    IF all THEN {[i \in DOMAIN record.createdTokens |-> record.createdTokens[i].token]}
    ELSE {<<record.createdTokens[i].token>> : i \in DOMAIN record.createdTokens}

\* Altered form: under --all the factory's default comes first.
DefaultFirst(all) == IF all THEN "default" ELSE "tx"

FirstStep(all) == "tx"

StartUpgrade(p, job, all) ==
    /\ Readable(file)
    /\ file.createdTokens # <<>>
    /\ \E todo \in Targets(file, all) :
          Begin(p, [Idle EXCEPT !.job = job, !.copy = file, !.todo = todo, !.all = all,
                                !.step = FirstStep(all), !.impl = code + 1])
    /\ code' = code + 1
    /\ UNCHANGED <<factories, tokens, Disk>>

\* Altered form: the entries keep their old implementation.
DefaultMetadata(record, kind, targets, all, impl) ==
    [record EXCEPT !.default[kind] = IF all THEN impl ELSE @]

(***************************************************************************)
(* applyHookImplementationMetadata: the record's default under --all, and  *)
(* the entries of the launches that were upgraded.                         *)
(***************************************************************************)
ApplyMetadata(record, kind, targets, all, impl) ==
    [record EXCEPT
        !.default[kind] = IF all THEN impl ELSE @,
        !.createdTokens = [i \in DOMAIN @ |->
            IF all \/ @[i].token \in targets THEN [@[i] EXCEPT !.impl[kind] = impl]
            ELSE @[i]]]

\* Altered form: the factory keeps its old default.
OnlyLaunches(all) == "write"

\* What comes after the last launch: the factory's default, under --all.
AfterUpgrades(all) == IF all THEN "default" ELSE "write"

UpgradeProxy(p, job) ==
    LET run  == proc[p]
        kind == KindOf(job)
        one  == run.todo[1]
    IN  /\ At(p, job, "tx")
        /\ tokens' = [tokens EXCEPT ![one].impl[kind] = run.impl]
        /\ Continue(p, [run EXCEPT
              !.todo = Tail(@),
              !.step = IF Len(run.todo) > 1 THEN @ ELSE AfterUpgrades(run.all),
              !.copy = IF run.all THEN @
                       ELSE ApplyMetadata(@, kind, {one}, FALSE, run.impl)])
        /\ UNCHANGED <<code, factories, Disk>>

SetDefault(p, job) ==
    LET run  == proc[p]
        kind == KindOf(job)
    IN  /\ At(p, job, "default")
        /\ factories' = DefaultSet(run.copy.factory, kind, run.impl)
        /\ Continue(p, [run EXCEPT !.step = "write",
                          !.copy = ApplyMetadata(@, kind, {}, TRUE, run.impl)])
        /\ UNCHANGED <<code, tokens, Disk>>

Upgrade(p, job) ==
    \/ \E all \in BOOLEAN : StartUpgrade(p, job, all)
    \/ UpgradeProxy(p, job)
    \/ SetDefault(p, job)

upgradeHooks(p) == Upgrade(p, "upgrade-hooks")

upgradeRouters(p) == Upgrade(p, "upgrade-routers")

-----------------------------------------------------------------------------
(* cli/upgrade-factory.ts and upgrade-hook-architecture.ts.                *)

StartFactoryUpgrade(p) ==
    /\ Readable(file)
    /\ Begin(p, [Idle EXCEPT !.job = "upgrade-factory", !.copy = file,
                             !.step = "tx", !.impl = code + 1])
    /\ code' = code + 1
    /\ UNCHANGED <<factories, tokens, Disk>>

UpgradeFactory(p) ==
    LET run == proc[p]
    IN  /\ At(p, "upgrade-factory", "tx")
        /\ factories' = [factories EXCEPT ![run.copy.factory].impl = run.impl]
        /\ Continue(p, [run EXCEPT !.step = "write", !.copy.impl = run.impl])
        /\ UNCHANGED <<code, tokens, Disk>>

\* The implementations of the factory and of the hook, in that order.
StartArchitectureUpgrade(p) ==
    /\ Readable(file)
    /\ Begin(p, [Idle EXCEPT !.job = "upgrade-hook-architecture", !.copy = file,
                             !.step = "tx", !.impl = code + 1])
    /\ code' = code + 2
    /\ UNCHANGED <<factories, tokens, Disk>>

UpgradeFactoryFirst(p) ==
    LET run == proc[p]
    IN  /\ At(p, "upgrade-hook-architecture", "tx")
        /\ factories' = [factories EXCEPT ![run.copy.factory].impl = run.impl]
        /\ Continue(p, [run EXCEPT !.step = "tx2"])
        /\ UNCHANGED <<code, tokens, Disk>>

SetArchitectureDefault(p) ==
    LET run == proc[p]
    IN  /\ At(p, "upgrade-hook-architecture", "tx2")
        /\ factories' = DefaultSet(run.copy.factory, "hook", run.impl + 1)
        /\ Continue(p, [run EXCEPT !.step = "write", !.copy.impl = run.impl,
                                   !.copy.default["hook"] = run.impl + 1])
        /\ UNCHANGED <<code, tokens, Disk>>

-----------------------------------------------------------------------------
(* cli/export-frontend-abi.ts.                                             *)

(***************************************************************************)
(* collectAddresses: a record that cannot be read is left out.             *)
(***************************************************************************)
collectAddresses(f) == IF Readable(f) THEN f ELSE NoRecord

\* Altered form: the backend's directories are left out.
FirstDirectory == 1..1

outputDirs == 1..Bundles

(***************************************************************************)
(* The directories are written one after the other, each file by file.     *)
(***************************************************************************)
Writes(directories) == [n \in 1..(3 * Cardinality(directories)) |-> n]

Directory(n) == (n + 2) \div 3

WriteFile(dir, n, r) ==
    CASE n % 3 = 1 -> [dir EXCEPT !.json = Snapshot(r)]
      [] n % 3 = 2 -> [dir EXCEPT !.ts = renderAddressesTs(r)]
      [] n % 3 = 0 -> [dir EXCEPT !.readme = renderReadme(r)]

StartExport(p) ==
    /\ Begin(p, [Idle EXCEPT !.job = "export", !.step = "tx",
                             !.todo = Writes(outputDirs),
                             !.copy = collectAddresses(file)])
    /\ UNCHANGED <<Chain, Disk>>

Export(p) ==
    LET run == proc[p]
        n   == run.todo[1]
    IN  /\ At(p, "export", "tx")
        /\ bundle' = [bundle EXCEPT ![Directory(n)] = WriteFile(@, n, run.copy)]
        /\ Continue(p, IF Len(run.todo) = 1 THEN Idle ELSE [run EXCEPT !.todo = Tail(@)])
        /\ UNCHANGED <<Chain, file, last>>

-----------------------------------------------------------------------------
deploy(p) == StartDeploy(p) \/ DeployFactory(p) \/ SetFirstDefault(p)

createToken(p) ==
    \/ StartCreate(p)
    \/ \E mined \in BOOLEAN : CreateToken(p, mined)
    \/ \E found \in BOOLEAN :
          \/ readOptionalFactoryRouterImplementation(p, found)
          \/ readOptionalFactoryHookImplementation(p, found)

upgradeFactory(p) == StartFactoryUpgrade(p) \/ UpgradeFactory(p)

upgradeHookArchitecture(p) ==
    \/ StartArchitectureUpgrade(p)
    \/ UpgradeFactoryFirst(p)
    \/ SetArchitectureDefault(p)

exportAbis(p) == StartExport(p) \/ Export(p)

Command(p) ==
    \/ deploy(p) \/ StartRewrite(p) \/ createToken(p)
    \/ upgradeHooks(p) \/ upgradeRouters(p)
    \/ upgradeFactory(p) \/ upgradeHookArchitecture(p)
    \/ exportAbis(p)
    \/ Truncate(p) \/ writeDeployment(p)
    \/ Stop(p)

Next == \E p \in Commands : Command(p)

Spec == Init /\ [][Next]_vars

-----------------------------------------------------------------------------
(* What the doctor compares, and what it does not.                         *)

Recorded(r) == {r.createdTokens[i].token : i \in DOMAIN r.createdTokens}

Launched(f) == {t \in DOMAIN tokens : tokens[t].factory = f}

(***************************************************************************)
(* lib/deployment-doctor.ts: the addresses that are not optional are       *)
(* there, every recorded address has code, and the factory's defaults are  *)
(* the recorded ones.  Against a factory without a hook implementation,    *)
(* nothing of the factory can be compared.                                 *)
(***************************************************************************)
requireAddress(r) == None \notin {r.factory} \cup Recorded(r)

HasCode(r) ==
    /\ r.factory \in DOMAIN factories
    /\ r.impl <= code
    /\ Recorded(r) \subseteq DOMAIN tokens
    /\ \A k \in Kinds :
          /\ r.default[k] <= code
          /\ \A i \in DOMAIN r.createdTokens : r.createdTokens[i].impl[k] <= code

checkFactoryConfig(r) ==
    LET config == factories[r.factory].default
    IN  config["hook"] = None
          \/ \A k \in Kinds : r.default[k] \in {None, config[k]}

doctorDeployment(r) == requireAddress(r) /\ HasCode(r) /\ checkFactoryConfig(r)

-----------------------------------------------------------------------------
(* What smoke-hook-upgrade-anvil.ts asserts of the newest launch.          *)

\* config/deployments.ts: the token created last.
latestToken(r) == r.createdTokens[Len(r.createdTokens)].token

\* lib/proxy.ts: the implementation slot of a launch's proxy.
readProxyImplementation(token, kind) == tokens[token].impl[kind]

recordedImplementation(r) ==
    LET entry == r.createdTokens[Len(r.createdTokens)]
    IN  IF entry.impl["hook"] # None THEN entry.impl["hook"] ELSE r.default["hook"]

smokeHookUpgrade(r) ==
    readProxyImplementation(latestToken(r), "hook") = recordedImplementation(r)

-----------------------------------------------------------------------------
(* Properties.                                                             *)

(***************************************************************************)
(* A record never tells of what does not exist: whatever commands overlap, *)
(* fail or stop, each entry is a launch of the recorded factory, recorded  *)
(* once, and every address in it has code.  (create-token appends to a     *)
(* copy that may be old, under the factory of that copy.)                  *)
(***************************************************************************)
Real(r) ==
    r # NoRecord =>
        /\ HasCode(r)
        /\ Recorded(r) \subseteq Launched(r.factory)
        /\ \A i, j \in DOMAIN r.createdTokens :
              r.createdTokens[i].token = r.createdTokens[j].token => i = j

RecordedIsReal == Real(file)

(***************************************************************************)
(* As long as commands run one after the other and none stops half-way,    *)
(* the record and the chain agree between two commands: the doctor passes, *)
(* no launch of the factory is missing, and every recorded implementation  *)
(* is the one the proxy runs.                                              *)
(***************************************************************************)
InSync(r) ==
    /\ doctorDeployment(r)
    /\ r.impl = factories[r.factory].impl
    /\ Recorded(r) = Launched(r.factory)
    /\ \A i \in DOMAIN r.createdTokens, k \in Kinds :
          LET entry == r.createdTokens[i]
          IN  entry.impl[k] \in {None, readProxyImplementation(entry.token, k)}

SequentialCommandsKeepRecord ==
    orderly /\ Quiet /\ last # NoRecord => Readable(file) /\ InSync(file)

(***************************************************************************)
(* A record that names a hook implementation belongs to a factory that can *)
(* create launches: upgrade-hook-architecture, or a deployment, that       *)
(* stopped before the factory was given one is never recorded as done.     *)
(***************************************************************************)
RecordedFactoryCanCreate ==
    Readable(file) /\ file.default["hook"] # None =>
        factories[file.factory].default["hook"] # None

(***************************************************************************)
(* upgrade-routers --all upgrades the launches before the default: without *)
(* overlapping commands, wherever one stopped, no recorded launch is left  *)
(* with an older router than the factory gives to new ones.                *)
(***************************************************************************)
NoRouterLeftBehind ==
    solo /\ Readable(file) =>
        \A t \in Recorded(file) :
            tokens[t].impl["router"] >= factories[file.factory].default["router"]

\* Process p wrote its record in this step.
Completes(p) ==
    /\ proc[p].step = "writing"
    /\ ~Readable(file)
    /\ Readable(file')
    /\ proc'[p] = Idle

ConvergedOn(kind, r) ==
    /\ r.default[kind] = factories[r.factory].default[kind]
    /\ \A i \in DOMAIN r.createdTokens :
          /\ r.createdTokens[i].impl[kind] = r.default[kind]
          /\ readProxyImplementation(r.createdTokens[i].token, kind) = r.default[kind]

(***************************************************************************)
(* Repeating an interrupted upgrade heals it: an upgrade --all that is not *)
(* disturbed ends with one implementation in every recorded launch, in the *)
(* factory and in the record, whatever was there before; for hooks, what   *)
(* the smoke script asserts afterwards holds.                              *)
(***************************************************************************)
AllUpgradeConverges ==
    [][\A p \in Commands :
          Completes(p) /\ proc[p].alone /\ proc[p].all =>
              /\ ConvergedOn(KindOf(proc[p].job), file')
              /\ proc[p].job = "upgrade-hooks" => smokeHookUpgrade(file')]_vars

(***************************************************************************)
(* latestToken is the default of every other command: after an undisturbed *)
(* create-token it is the token just created.                              *)
(***************************************************************************)
CreatedIsLatest ==
    [][\A p \in Commands :
          Completes(p) /\ proc[p].alone /\ proc[p].job = "create-token" =>
              /\ file'.createdTokens # <<>>
              /\ latestToken(file') = proc[p].token.token
              /\ latestToken(file') \in Launched(file'.factory)]_vars

(***************************************************************************)
(* An entry is lost from one complete record to the next only if commands  *)
(* overlapped, or another factory was deployed.                            *)
(***************************************************************************)
EntriesLostOnlyByOverlap ==
    [][\A p \in Commands :
          Completes(p) /\ proc[p].alone /\ file'.factory = last.factory =>
              Recorded(last) \subseteq Recorded(file')]_vars

(***************************************************************************)
(* An undisturbed export leaves every file of every directory with what    *)
(* the record says, although an earlier one may have stopped half-way and  *)
(* left files that disagree.                                               *)
(***************************************************************************)
ExportsAgree ==
    [][\A p \in Commands :
          /\ At(p, "export", "tx")
          /\ proc[p].alone
          /\ Len(proc[p].todo) = 1
          /\ bundle' # bundle
          => \A d \in 1..Bundles : bundle'[d] = Rendered(collectAddresses(file))]_vars

-----------------------------------------------------------------------------
(* What the repository says, and the code does not do.                     *)

(***************************************************************************)
(* export-frontend-abi.ts writes into addresses.ts that it is a "snapshot  *)
(* of every recorded deployment JSON".                                     *)
(***************************************************************************)
SnapshotHasEveryDeployment ==
    [][\A d \in 1..Bundles :
          bundle'[d].ts # bundle[d].ts /\ last # NoRecord =>
              bundle'[d].ts # Snapshot(NoRecord)]_vars

=============================================================================
