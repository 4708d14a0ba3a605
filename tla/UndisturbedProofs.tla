------------------------- MODULE UndisturbedProofs -------------------------
(***************************************************************************)
(* What a command brings about that no other one disturbs, for any number  *)
(* of commands, tokens, factories and directories: wherever the commands   *)
(* before it overlapped, failed or stopped.  Then what a run keeps in      *)
(* which no two commands overlap at all, and what it keeps in which none   *)
(* stops half-way either.                                                  *)
(***************************************************************************)
EXTENDS DeploymentRecordProofs

-----------------------------------------------------------------------------
(* The first layer, over IInv: what a command can rely on while it is      *)
(* alone.  As no other command runs, nobody else writes the file or sends  *)
(* a transaction; a command that starts meanwhile ends its being alone.    *)

Exclusive ==
    /\ \A p \in Commands : proc[p].job = "idle" => proc[p] = Idle
    /\ \A p, q \in Commands :
          p # q /\ proc[p].job # "idle" /\ proc[p].alone => proc[q].job = "idle"
    /\ solo => \A p \in Commands : proc[p].alone
    /\ orderly => solo

\* A file that can be read is the one that was written last.
FileIsLast == Readable(file) => file = last

Ending == {"write", "writing"}

InStep(run) ==
    /\ run.all => run.job \in Upgrades
    /\ run.job \in Upgrades /\ run.step = "default" => run.all
    /\ run.job = "export" => run.step = "tx"
    /\ run.job = "create-token" /\ run.step = "tx" => run.token = NoEntry

\* The copy has every launch of the record that it will replace.
Remembers(run) ==
    /\ run.job \in Recorders => Recorded(last) \subseteq Recorded(run.copy)
    /\ run.job = "deploy" /\ run.step # "tx" => last.factory # run.copy.factory

\* The n-th file of an export says what the record says.
Done(n, r) == WriteFile(bundle[Directory(n)], n, r) = bundle[Directory(n)]

Exporting(run) ==
    run.job = "export" =>
        /\ run.copy = collectAddresses(file)
        /\ \E k \in 0..(3 * Bundles - 1) :
              /\ run.todo = [i \in 1..(3 * Bundles - k) |-> k + i]
              /\ \A n \in 1..k : Done(n, run.copy)

Pushed(run) ==
    run.job = "create-token" /\ run.step \in Ending =>
        /\ run.copy.createdTokens # <<>>
        /\ latestToken(run.copy) = run.token.token

UpgradedTo(run, t) == tokens[t].impl[KindOf(run.job)] = run.impl

Listed(todo, t) == \E i \in DOMAIN todo : todo[i] = t

\* An upgrade --all: each launch has been upgraded, or is still to come.
Converging(run) ==
    run.all =>
        /\ run.copy.createdTokens # <<>>
        /\ \A t \in Recorded(run.copy) :
              \/ UpgradedTo(run, t)
              \/ run.step = "tx" /\ Listed(run.todo, t)
        /\ run.step \in Ending =>
              /\ run.copy.default[KindOf(run.job)] = run.impl
              /\ factories[run.copy.factory].default[KindOf(run.job)] = run.impl
              /\ \A i \in DOMAIN run.copy.createdTokens :
                    run.copy.createdTokens[i].impl[KindOf(run.job)] = run.impl

\* No factory gives out a newer implementation than an upgrade does.
Newest(run) ==
    run.job \in Upgrades =>
        \A f \in DOMAIN factories, k \in Kinds : factories[f].default[k] <= run.impl

Undisturbed(run) ==
    /\ InStep(run) /\ Remembers(run) /\ Exporting(run) /\ Pushed(run)
    /\ Converging(run) /\ Newest(run)

AInv ==
    /\ Exclusive
    /\ FileIsLast
    /\ \A p \in Commands : proc[p].job # "idle" /\ proc[p].alone => Undisturbed(proc[p])

-----------------------------------------------------------------------------
(* What each action does to the process that takes it, field by field.     *)

(***************************************************************************)
(* A command begins; it is alone if nothing else runs.                     *)
(***************************************************************************)
Begins(p) == \E started \in Processes : started.job # "idle" /\ Begin(p, started)

LEMMA BeginDoes ==
    ASSUME IInv, NEW p \in Commands, NEW started \in Processes, Begin(p, started)
    PROVE  /\ proc[p].job = "idle"
           /\ proc'[p].job = started.job /\ proc'[p].step = started.step
           /\ proc'[p].copy = started.copy /\ proc'[p].todo = started.todo
           /\ proc'[p].all = started.all /\ proc'[p].impl = started.impl
           /\ proc'[p].token = started.token
           /\ proc'[p].alone = Quiet
<1>1. PICK alone : alone = Quiet
  OBVIOUS
<1>2. PICK run : run = [started EXCEPT !.alone = alone]
  OBVIOUS
<1>3. proc'[p] = run /\ proc[p].job = "idle"
  BY <1>1, <1>2 DEF Begin
<1>4. /\ run.job = started.job /\ run.step = started.step /\ run.copy = started.copy
      /\ run.todo = started.todo /\ run.all = started.all /\ run.impl = started.impl
      /\ run.token = started.token /\ run.alone = alone
  BY <1>2 DEF Processes
<1> QED
  BY <1>1, <1>3, <1>4

LEMMA StartDeployDoes ==
    ASSUME IInv, NEW p \in Commands, StartDeploy(p)
    PROVE  /\ Begins(p)
           /\ proc'[p].job = "deploy" /\ proc'[p].step = "tx" /\ proc'[p].copy = NoRecord
           /\ proc'[p].all = FALSE /\ proc'[p].alone = Quiet
           /\ UNCHANGED Chain /\ UNCHANGED Disk
<1>1. PICK run : run = [Idle EXCEPT !.job = "deploy", !.step = "tx"]
  OBVIOUS
<1>2. /\ run \in Processes /\ run.all = FALSE
      /\ run.job = "deploy" /\ run.step = "tx" /\ run.copy = NoRecord
  BY <1>1, IdleType DEF Processes, Jobs, Idle
<1>3. Begin(p, run) /\ UNCHANGED Chain /\ UNCHANGED Disk
  BY <1>1 DEF StartDeploy
<1> QED
  BY <1>2, <1>3, BeginDoes DEF Begins

LEMMA StartRewriteDoes ==
    ASSUME IInv, NEW p \in Commands, StartRewrite(p)
    PROVE  /\ Begins(p)
           /\ proc'[p].job = "rewrite" /\ proc'[p].step = "write" /\ proc'[p].copy = file
           /\ proc'[p].all = FALSE /\ proc'[p].alone = Quiet
           /\ Readable(file)
           /\ UNCHANGED Chain /\ UNCHANGED Disk
<1>1. PICK run : run = [Idle EXCEPT !.job = "rewrite", !.step = "write", !.copy = file]
  OBVIOUS
<1>2. /\ run \in Processes /\ run.all = FALSE
      /\ run.job = "rewrite" /\ run.step = "write" /\ run.copy = file
  <2>1. file \in Deployments
    BY DEF IInv, DiskOK
  <2> QED
    BY <1>1, <2>1, IdleType DEF Processes, Jobs, Idle
<1>3. Begin(p, run) /\ Readable(file) /\ UNCHANGED Chain /\ UNCHANGED Disk
  BY <1>1 DEF StartRewrite
<1> QED
  BY <1>2, <1>3, BeginDoes DEF Begins

LEMMA StartCreateDoes ==
    ASSUME IInv, NEW p \in Commands, StartCreate(p)
    PROVE  /\ Begins(p)
           /\ proc'[p].job = "create-token" /\ proc'[p].step = "tx" /\ proc'[p].copy = file
           /\ proc'[p].token = NoEntry /\ proc'[p].all = FALSE /\ proc'[p].alone = Quiet
           /\ Readable(file)
           /\ UNCHANGED Chain /\ UNCHANGED Disk
<1>1. PICK run : run = [Idle EXCEPT !.job = "create-token", !.step = "tx", !.copy = file]
  OBVIOUS
<1>2. /\ run \in Processes /\ run.all = FALSE /\ run.token = NoEntry
      /\ run.job = "create-token" /\ run.step = "tx" /\ run.copy = file
  <2>1. file \in Deployments
    BY DEF IInv, DiskOK
  <2> QED
    BY <1>1, <2>1, IdleType DEF Processes, Jobs, Idle
<1>3. Begin(p, run) /\ Readable(file) /\ UNCHANGED Chain /\ UNCHANGED Disk
  BY <1>1 DEF StartCreate
<1> QED
  BY <1>2, <1>3, BeginDoes DEF Begins

LEMMA StartFactoryUpgradeDoes ==
    ASSUME IInv, NEW p \in Commands, StartFactoryUpgrade(p)
    PROVE  /\ Begins(p)
           /\ proc'[p].job = "upgrade-factory" /\ proc'[p].step = "tx" /\ proc'[p].copy = file
           /\ proc'[p].all = FALSE /\ proc'[p].alone = Quiet
           /\ Readable(file)
           /\ UNCHANGED <<factories, tokens>> /\ UNCHANGED Disk
<1>1. PICK n : n = code + 1
  OBVIOUS
<1>2. PICK run : run = [Idle EXCEPT !.job = "upgrade-factory", !.copy = file,
                                    !.step = "tx", !.impl = n]
  OBVIOUS
<1>3. /\ run \in Processes /\ run.all = FALSE
      /\ run.job = "upgrade-factory" /\ run.step = "tx" /\ run.copy = file
  <2>1. file \in Deployments /\ n \in Nat /\ "upgrade-factory" \in Jobs
    BY <1>1 DEF IInv, DiskOK, ChainOK, Jobs
  <2> QED
    BY <1>2, <2>1, IdleType DEF Processes, Idle
<1>4. Begin(p, run) /\ Readable(file) /\ UNCHANGED <<factories, tokens>> /\ UNCHANGED Disk
  BY <1>1, <1>2 DEF StartFactoryUpgrade
<1> QED
  BY <1>3, <1>4, BeginDoes DEF Begins

LEMMA StartArchitectureUpgradeDoes ==
    ASSUME IInv, NEW p \in Commands, StartArchitectureUpgrade(p)
    PROVE  /\ Begins(p)
           /\ proc'[p].job = "upgrade-hook-architecture" /\ proc'[p].step = "tx"
           /\ proc'[p].copy = file /\ proc'[p].all = FALSE /\ proc'[p].alone = Quiet
           /\ Readable(file)
           /\ UNCHANGED <<factories, tokens>> /\ UNCHANGED Disk
<1>1. PICK n : n = code + 1
  OBVIOUS
<1>2. PICK run : run = [Idle EXCEPT !.job = "upgrade-hook-architecture", !.copy = file,
                                    !.step = "tx", !.impl = n]
  OBVIOUS
<1>3. /\ run \in Processes /\ run.all = FALSE
      /\ run.job = "upgrade-hook-architecture" /\ run.step = "tx" /\ run.copy = file
  <2>1. file \in Deployments /\ n \in Nat /\ "upgrade-hook-architecture" \in Jobs
    BY <1>1 DEF IInv, DiskOK, ChainOK, Jobs
  <2> QED
    BY <1>2, <2>1, IdleType DEF Processes, Idle
<1>4. Begin(p, run) /\ Readable(file) /\ UNCHANGED <<factories, tokens>> /\ UNCHANGED Disk
  BY <1>1, <1>2 DEF StartArchitectureUpgrade
<1> QED
  BY <1>3, <1>4, BeginDoes DEF Begins

LEMMA StartUpgradeDoes ==
    ASSUME IInv, NEW p \in Commands, NEW job \in Upgrades, NEW all \in BOOLEAN,
           StartUpgrade(p, job, all)
    PROVE  /\ Begins(p)
           /\ proc'[p].job = job /\ proc'[p].step = "tx" /\ proc'[p].copy = file
           /\ proc'[p].all = all /\ proc'[p].impl = code + 1 /\ proc'[p].alone = Quiet
           /\ proc'[p].todo \in Targets(file, all)
           /\ Readable(file) /\ file.createdTokens # <<>>
           /\ UNCHANGED <<factories, tokens>> /\ UNCHANGED Disk
<1>1. PICK n : n = code + 1
  OBVIOUS
<1>2. PICK todo \in Targets(file, all) :
         Begin(p, [Idle EXCEPT !.job = job, !.copy = file, !.todo = todo, !.all = all,
                               !.step = FirstStep(all), !.impl = n])
  BY <1>1 DEF StartUpgrade
<1>3. PICK run : run = [Idle EXCEPT !.job = job, !.copy = file, !.todo = todo, !.all = all,
                                    !.step = FirstStep(all), !.impl = n]
  OBVIOUS
<1>4. /\ run.job = job /\ run.step = "tx" /\ run.copy = file /\ run.impl = n
      /\ run.todo = todo /\ run.all = all /\ run.alone = TRUE /\ run.token = NoEntry
      /\ run = [job |-> job, step |-> "tx", copy |-> file, todo |-> todo, all |-> all,
                impl |-> n, token |-> NoEntry, alone |-> TRUE]
  BY <1>3 DEF Idle, FirstStep
<1>5. Begin(p, run)
  BY <1>2, <1>3
<1>6. run \in Processes
  <2>1. PICK run2 : run2 = proc'[p]
    OBVIOUS
  <2>2. run2.todo = todo
    <3>1. PICK alone : alone = Quiet
      OBVIOUS
    <3>2. run2 = [run EXCEPT !.alone = alone]
      BY <1>5, <2>1, <3>1 DEF Begin
    <3> QED
      BY <1>4, <3>2
  <2>3. run2 \in Processes
    BY <2>1, StartUpgradeKeeps DEF IInv, ProcOK
  <2>4. todo \in Seq(Nat)
    BY <2>2, <2>3 DEF Processes
  <2>5. file \in Deployments /\ n \in Nat /\ job \in Jobs
    BY <1>1 DEF IInv, DiskOK, ChainOK, Jobs, Upgrades
  <2>6. NoEntry \in Entries
    BY DEF NoEntry, Entries, None
  <2> QED
    BY <1>4, <2>4, <2>5, <2>6 DEF Processes
<1>7. /\ Readable(file) /\ file.createdTokens # <<>>
      /\ UNCHANGED <<factories, tokens>> /\ UNCHANGED Disk
  BY DEF StartUpgrade
<1>8. job # "idle"
  BY DEF Upgrades
<1>9. Begins(p)
  BY <1>4, <1>5, <1>6, <1>8 DEF Begins
<1>10. /\ proc'[p].job = job /\ proc'[p].step = "tx" /\ proc'[p].copy = file
       /\ proc'[p].all = all /\ proc'[p].impl = n /\ proc'[p].alone = Quiet
       /\ proc'[p].todo = todo
  BY <1>4, <1>5, <1>6, BeginDoes
<1> QED
  BY <1>1, <1>2, <1>7, <1>9, <1>10

LEMMA StartExportDoes ==
    ASSUME IInv, NEW p \in Commands, StartExport(p)
    PROVE  /\ Begins(p)
           /\ proc'[p].job = "export" /\ proc'[p].step = "tx"
           /\ proc'[p].copy = collectAddresses(file) /\ proc'[p].todo = Writes(outputDirs)
           /\ proc'[p].all = FALSE /\ proc'[p].alone = Quiet
           /\ UNCHANGED Chain /\ UNCHANGED Disk
<1>1. PICK todo : todo = Writes(outputDirs)
  OBVIOUS
<1>2. PICK copy : copy = collectAddresses(file)
  OBVIOUS
<1>3. PICK run : run = [Idle EXCEPT !.job = "export", !.step = "tx", !.todo = todo,
                                    !.copy = copy]
  OBVIOUS
<1>4. /\ run.job = "export" /\ run.step = "tx" /\ run.copy = copy
      /\ run.todo = todo /\ run.all = FALSE
      /\ run = [job |-> "export", step |-> "tx", copy |-> copy, todo |-> todo, all |-> FALSE,
                impl |-> None, token |-> NoEntry, alone |-> TRUE]
  BY <1>3 DEF Idle
<1>5. Begin(p, run) /\ UNCHANGED Chain /\ UNCHANGED Disk
  BY <1>1, <1>2, <1>3 DEF StartExport
<1>6. run \in Processes
  <2>1. PICK run2 : run2 = proc'[p]
    OBVIOUS
  <2>2. run2.todo = todo
    <3>1. PICK alone : alone = Quiet
      OBVIOUS
    <3>2. run2 = [run EXCEPT !.alone = alone]
      BY <1>5, <2>1, <3>1 DEF Begin
    <3> QED
      BY <1>4, <3>2
  <2>3. run2 \in Processes
    BY <2>1, StartExportKeeps DEF IInv, ProcOK
  <2>4. todo \in Seq(Nat)
    BY <2>2, <2>3 DEF Processes
  <2>5. copy \in Deployments /\ None \in Nat
    BY <1>2, NoRecordType DEF IInv, DiskOK, collectAddresses, None
  <2>6. NoEntry \in Entries
    BY DEF NoEntry, Entries, None
  <2> QED
    BY <1>4, <2>4, <2>5, <2>6 DEF Processes, Jobs
<1>7. Begins(p)
  BY <1>4, <1>5, <1>6 DEF Begins
<1>8. /\ proc'[p].job = "export" /\ proc'[p].step = "tx" /\ proc'[p].copy = copy
      /\ proc'[p].all = FALSE /\ proc'[p].alone = Quiet /\ proc'[p].todo = todo
  BY <1>4, <1>5, <1>6, BeginDoes
<1> QED
  BY <1>1, <1>2, <1>5, <1>7, <1>8

(***************************************************************************)
(* A command goes on, or ends.                                             *)
(***************************************************************************)
Same(old, new) == new.job = old.job /\ new.alone = old.alone /\ new.all = old.all

Goes(p) ==
    /\ proc[p].job # "idle"
    /\ \E run \in Processes :
          proc' = [proc EXCEPT ![p] = run] /\ (run = Idle \/ Same(proc[p], run))
    /\ UNCHANGED <<starts, solo>> /\ (orderly' => orderly)

LEMMA ContinueDoes ==
    ASSUME IInv, IInv', NEW p \in Commands, NEW run, Continue(p, run)
    PROVE  /\ proc[p] \in Processes /\ Sound(proc[p])
           /\ proc'[p] = run /\ run \in Processes
           /\ UNCHANGED Log
           /\ proc[p].job # "idle" /\ (run = Idle \/ Same(proc[p], run)) => Goes(p)
<1>1. proc'[p] = run /\ proc' = [proc EXCEPT ![p] = run] /\ UNCHANGED Log
  BY DEF Continue, IInv, ProcOK
<1>2. run \in Processes
  <2>1. proc'[p] \in Processes
    BY DEF IInv, ProcOK
  <2> QED
    BY <1>1, <2>1
<1>3. UNCHANGED <<starts, solo>> /\ (orderly' => orderly)
  BY <1>1 DEF Log
<1> QED
  BY <1>1, <1>2, <1>3, RunOf DEF Goes

LEMMA DeployFactoryDoes ==
    ASSUME IInv, IInv', NEW p \in Commands, DeployFactory(p),
           NEW old, old = proc[p], NEW new, new = proc'[p]
    PROVE  /\ Goes(p) /\ Same(old, new)
           /\ old.job = "deploy" /\ old.step = "tx" /\ new.step = "default"
           /\ new.impl = code + 1
           /\ new.copy.factory = Len(factories) + 1 /\ new.copy.impl = code + 3
           /\ new.copy.default =
                 [k \in Kinds |-> IF k = "hook" THEN code + 1 ELSE code + 2]
           /\ new.copy.createdTokens = <<>>
           /\ DOMAIN factories' = DOMAIN factories \cup {Len(factories) + 1}
           /\ \A f \in DOMAIN factories : factories'[f] = factories[f]
           /\ factories'[Len(factories) + 1].impl = code + 3
           /\ factories'[Len(factories) + 1].default =
                 [k \in Kinds |-> IF k = "hook" THEN None ELSE code + 2]
           /\ UNCHANGED tokens /\ UNCHANGED Disk
<1>1. PICK n : n = Len(factories) + 1
  OBVIOUS
<1>2. PICK default : default = [k \in Kinds |-> IF k = "hook" THEN None ELSE code + 2]
  OBVIOUS
<1>3. PICK impl : impl = code + 1
  OBVIOUS
<1>4. PICK r : r = [factory |-> Len(factories) + 1, impl |-> code + 3,
                    default |-> [k \in Kinds |-> IF k = "hook" THEN code + 1 ELSE code + 2],
                    createdTokens |-> FirstLaunches]
  OBVIOUS
<1>5. PICK factory : factory = [impl |-> code + 3, default |-> default]
  OBVIOUS
<1>6. PICK run : run = [old EXCEPT !.step = "default", !.copy = r, !.impl = impl]
  OBVIOUS
<1>7. /\ Continue(p, run)
      /\ factories' = Append(factories, factory) /\ UNCHANGED tokens /\ UNCHANGED Disk
      /\ old.job = "deploy" /\ old.step = "tx"
  BY <1>2, <1>3, <1>4, <1>5, <1>6 DEF DeployFactory, At
<1>8. old \in Processes /\ new = run
  BY <1>7, ContinueDoes
<1>9. new.step = "default" /\ new.copy = r /\ new.impl = impl /\ Same(old, new)
  BY <1>6, <1>8 DEF Processes, Same
<1>10. Goes(p)
  BY <1>7, <1>8, <1>9, ContinueDoes
<1>11. /\ factories \in Seq(Factories) /\ factories' \in Seq(Factories)
       /\ Len(factories) \in Nat
  BY DEF IInv, ChainOK
<1>12. /\ Len(factories') = n /\ n \in Nat /\ n >= 1
       /\ \A f \in 1..Len(factories) : factories'[f] = factories[f]
       /\ factories'[n] = factory
  BY <1>1, <1>7, <1>11
<1>13. /\ DOMAIN factories' = DOMAIN factories \cup {n}
       /\ \A f \in DOMAIN factories : factories'[f] = factories[f]
  BY <1>1, <1>11, <1>12
<1> QED
  BY <1>1, <1>2, <1>3, <1>4, <1>5, <1>7, <1>9, <1>10, <1>12, <1>13 DEF FirstLaunches

LEMMA SetFirstDefaultDoes ==
    ASSUME IInv, IInv', NEW p \in Commands, SetFirstDefault(p),
           NEW old, old = proc[p], NEW new, new = proc'[p]
    PROVE  /\ Goes(p) /\ Same(old, new)
           /\ old.job = "deploy" /\ old.step = "default" /\ new.step = "write"
           /\ new.copy = old.copy /\ new.impl = old.impl
           /\ old.copy.factory \in DOMAIN factories
           /\ DOMAIN factories' = DOMAIN factories
           /\ \A g \in DOMAIN factories :
                 /\ factories'[g].impl = factories[g].impl
                 /\ \A k \in Kinds : factories'[g].default[k] =
                       IF g = old.copy.factory /\ k = "hook" THEN old.impl
                       ELSE factories[g].default[k]
           /\ UNCHANGED tokens /\ UNCHANGED Disk
<1>1. PICK run : run = [old EXCEPT !.step = "write"]
  OBVIOUS
<1>2. /\ Continue(p, run)
      /\ factories' = DefaultSet(old.copy.factory, "hook", old.impl)
      /\ UNCHANGED <<code, tokens>> /\ UNCHANGED Disk
      /\ old.job = "deploy" /\ old.step = "default"
  BY <1>1 DEF SetFirstDefault, At
<1>3. old \in Processes /\ Sound(old) /\ new = run
  BY <1>2, ContinueDoes
<1>4. new.step = "write" /\ new.copy = old.copy /\ new.impl = old.impl /\ Same(old, new)
  BY <1>1, <1>3 DEF Processes, Same
<1>5. Goes(p)
  BY <1>2, <1>3, <1>4, ContinueDoes
<1>6. /\ old.copy.factory \in DOMAIN factories
      /\ old.impl \in Nat /\ old.impl # None /\ old.impl <= code
  BY <1>2, <1>3 DEF Sound, Copied, Upgrading, Fine, HasCode, Processes
<1>7. ChainOK /\ "hook" \in Kinds
  BY DEF IInv, Kinds
<1>8. /\ DOMAIN factories' = DOMAIN factories
      /\ \A g \in DOMAIN factories :
            /\ factories'[g].impl = factories[g].impl
            /\ \A k \in Kinds : factories'[g].default[k] =
                  IF g = old.copy.factory /\ k = "hook" THEN old.impl
                  ELSE factories[g].default[k]
  BY <1>2, <1>6, <1>7, DefaultSetGrows
<1> QED
  BY <1>2, <1>4, <1>5, <1>6, <1>8

LEMMA CreateTokenDoes ==
    ASSUME IInv, IInv', NEW p \in Commands, NEW mined \in BOOLEAN, CreateToken(p, mined),
           NEW old, old = proc[p], NEW new, new = proc'[p]
    PROVE  /\ Goes(p) /\ Same(old, new)
           /\ old.job = "create-token" /\ old.step = "tx" /\ new.step = "router"
           /\ new.copy = old.copy /\ new.token.impl = old.token.impl
           /\ old.copy.factory \in DOMAIN factories
           /\ UNCHANGED factories /\ UNCHANGED Disk
<1>1. PICK n : n = Len(tokens) + 1
  OBVIOUS
<1>2. PICK run : run = [old EXCEPT !.step = "router", !.token.token = n]
  OBVIOUS
<1>3. mined
  BY DEF CreateToken, waitForSuccessfulTransactionReceipt
<1>4. /\ Continue(p, run) /\ UNCHANGED factories /\ UNCHANGED Disk
      /\ old.job = "create-token" /\ old.step = "tx"
  BY <1>1, <1>2, <1>3 DEF CreateToken, At, extractCreatedTokenFromLogs
<1>5. old \in Processes /\ Sound(old) /\ new = run
  BY <1>4, ContinueDoes
<1>6. /\ new.step = "router" /\ new.copy = old.copy /\ Same(old, new)
      /\ new.token.impl = old.token.impl
  <2>1. old.token \in Entries
    BY <1>5 DEF Processes
  <2>2. PICK token : token = [old.token EXCEPT !.token = n]
    OBVIOUS
  <2>3. token.impl = old.token.impl
    BY <2>1, <2>2 DEF Entries
  <2>4. run = [old EXCEPT !.step = "router", !.token = token]
    BY <1>2, <1>5, <2>2 DEF Processes
  <2> QED
    BY <1>5, <2>3, <2>4 DEF Processes, Same
<1>7. Goes(p)
  BY <1>4, <1>5, <1>6, ContinueDoes
<1>8. old.copy.factory \in DOMAIN factories
  BY <1>4, <1>5 DEF Sound, Copied, Recorders, Fine, HasCode
<1> QED
  BY <1>4, <1>6, <1>7, <1>8

(***************************************************************************)
(* The launch that a create-token adds to the chain.                       *)
(***************************************************************************)
TokenCreated(p, n, factory) ==
    /\ proc'[p].token.token = n
    /\ n \notin DOMAIN tokens /\ DOMAIN tokens' = DOMAIN tokens \cup {n}
    /\ \A t \in DOMAIN tokens : tokens'[t] = tokens[t]
    /\ tokens'[n].factory = factory
    /\ tokens'[n].impl = factories[factory].default

LEMMA CreateTokenLaunches ==
    ASSUME IInv, IInv', NEW p \in Commands, NEW mined \in BOOLEAN, CreateToken(p, mined)
    PROVE  TokenCreated(p, Len(tokens) + 1, proc[p].copy.factory)
<1>a. PICK n : n = Len(tokens) + 1
  OBVIOUS
<1>b. PICK old : old = proc[p]
  OBVIOUS
<1>c. PICK factory : factory = old.copy.factory
  OBVIOUS
<1>1. PICK launch : launch = [factory |-> old.copy.factory,
                              impl |-> factories[old.copy.factory].default]
  OBVIOUS
<1>2. PICK run : run = [old EXCEPT !.step = "router", !.token.token = n]
  OBVIOUS
<1>3. mined
  BY DEF CreateToken, waitForSuccessfulTransactionReceipt
<1>4. Continue(p, run) /\ tokens' = Append(tokens, launch)
  BY <1>1, <1>2, <1>3, <1>a, <1>b DEF CreateToken, At, extractCreatedTokenFromLogs
<1>5. old \in Processes /\ proc'[p] = run
  BY <1>4, <1>b, ContinueDoes
<1>6. run.token.token = n
  <2>1. old.token \in Entries
    BY <1>5 DEF Processes
  <2>2. PICK token : token = [old.token EXCEPT !.token = n]
    OBVIOUS
  <2>3. token.token = n
    BY <2>1, <2>2 DEF Entries
  <2>4. run = [old EXCEPT !.step = "router", !.token = token]
    BY <1>2, <1>5, <2>2 DEF Processes
  <2> QED
    BY <1>5, <2>3, <2>4 DEF Processes
<1>7. tokens \in Seq(Tokens) /\ tokens' \in Seq(Tokens) /\ Len(tokens) \in Nat
  BY DEF IInv, ChainOK
<1>8. /\ Len(tokens') = n /\ n \in Nat /\ n >= 1
      /\ \A t \in 1..Len(tokens) : tokens'[t] = tokens[t]
      /\ tokens'[n] = launch
  BY <1>4, <1>7, <1>a
<1>9. /\ n \notin DOMAIN tokens /\ DOMAIN tokens' = DOMAIN tokens \cup {n}
      /\ \A t \in DOMAIN tokens : tokens'[t] = tokens[t]
  BY <1>7, <1>8, <1>a
<1>10. TokenCreated(p, n, factory)
  BY <1>1, <1>5, <1>6, <1>8, <1>9, <1>c DEF TokenCreated
<1> QED
  BY <1>a, <1>c, <1>b, <1>10

LEMMA ReadRouterDoes ==
    ASSUME IInv, IInv', NEW p \in Commands, NEW found \in BOOLEAN,
           readOptionalFactoryRouterImplementation(p, found),
           NEW old, old = proc[p], NEW new, new = proc'[p]
    PROVE  /\ Goes(p) /\ Same(old, new)
           /\ old.job = "create-token" /\ old.step = "router" /\ new.step = "hook"
           /\ new.copy = old.copy /\ new.token.token = old.token.token
           /\ new.token.impl["router"]
                 \in {None, factories[old.copy.factory].default["router"]}
           /\ new.token.impl["hook"] = old.token.impl["hook"]
           /\ UNCHANGED Chain /\ UNCHANGED Disk
<1>1. PICK impl : impl = IF found THEN factories[old.copy.factory].default["router"]
                         ELSE None
  OBVIOUS
<1>2. PICK run : run = [old EXCEPT !.step = "hook", !.token.impl["router"] = impl]
  OBVIOUS
<1>3. /\ Continue(p, run) /\ UNCHANGED Chain /\ UNCHANGED Disk
      /\ old.job = "create-token" /\ old.step = "router"
  BY <1>1, <1>2 DEF readOptionalFactoryRouterImplementation, At
<1>4. old \in Processes /\ new = run
  BY <1>3, ContinueDoes
<1>5. /\ new.step = "hook" /\ new.copy = old.copy /\ Same(old, new)
      /\ new.token.token = old.token.token
      /\ new.token.impl["router"] = impl
      /\ new.token.impl["hook"] = old.token.impl["hook"]
  <2>1. old.token \in Entries
    BY <1>4 DEF Processes
  <2>2. PICK token : token = [old.token EXCEPT !.impl["router"] = impl]
    OBVIOUS
  <2>3. /\ token.token = old.token.token /\ token.impl["router"] = impl
        /\ token.impl["hook"] = old.token.impl["hook"]
    BY <2>1, <2>2 DEF Entries, Kinds
  <2>4. run = [old EXCEPT !.step = "hook", !.token = token]
    BY <1>2, <1>4, <2>2 DEF Processes
  <2> QED
    BY <1>4, <2>3, <2>4 DEF Processes, Same
<1>6. Goes(p)
  BY <1>3, <1>4, <1>5, ContinueDoes
<1> QED
  BY <1>1, <1>3, <1>5, <1>6

(***************************************************************************)
(* A launch that is added to a copy is the newest there.                   *)
(***************************************************************************)
LEMMA PushDoes ==
    ASSUME NEW r \in Deployments, NEW after \in Deployments, NEW entry \in Entries,
           after.createdTokens = Append(r.createdTokens, entry)
    PROVE  /\ Recorded(after) = Recorded(r) \cup {entry.token}
           /\ after.createdTokens # <<>> /\ latestToken(after) = entry.token
           /\ \A i \in DOMAIN after.createdTokens :
                 \/ i \in DOMAIN r.createdTokens
                    /\ after.createdTokens[i] = r.createdTokens[i]
                 \/ after.createdTokens[i] = entry
<1>1. PICK before : before = r.createdTokens
  OBVIOUS
<1>2. PICK n : n = Len(before)
  OBVIOUS
<1>3. PICK entries : entries = Append(before, entry)
  OBVIOUS
<1>4. before \in Seq(Entries) /\ n \in Nat
  BY <1>1, <1>2 DEF Deployments
<1>5. /\ Len(entries) = n + 1 /\ entries[n + 1] = entry
      /\ \A i \in 1..n : entries[i] = before[i]
      /\ DOMAIN entries = 1..(n + 1) /\ DOMAIN before = 1..n
      /\ entries # <<>>
  BY <1>2, <1>3, <1>4, AppendProperties
<1>6. after.createdTokens = entries
  BY <1>1, <1>3
<1>7. latestToken(after) = entry.token
  BY <1>5, <1>6 DEF latestToken
<1>8. \A i \in DOMAIN entries :
         \/ i \in DOMAIN before /\ entries[i] = before[i]
         \/ entries[i] = entry
  BY <1>4, <1>5
<1>9. Recorded(after) = Recorded(r) \cup {entry.token}
  <2>1. ASSUME NEW i \in DOMAIN before
        PROVE  i \in DOMAIN entries /\ entries[i] = before[i]
    BY <1>4, <1>5
  <2>2. n + 1 \in DOMAIN entries
    BY <1>4, <1>5
  <2> QED
    BY <1>1, <1>5, <1>6, <1>8, <2>1, <2>2 DEF Recorded
<1> QED
  BY <1>1, <1>5, <1>6, <1>7, <1>8, <1>9

LEMMA ReadHookDoes ==
    ASSUME IInv, IInv', NEW p \in Commands, NEW found \in BOOLEAN,
           readOptionalFactoryHookImplementation(p, found),
           NEW old, old = proc[p], NEW new, new = proc'[p]
    PROVE  /\ Goes(p) /\ Same(old, new)
           /\ old.job = "create-token" /\ old.step = "hook" /\ new.step = "write"
           /\ new.token.token = old.token.token
           /\ new.token.impl["hook"] \in {None, factories[old.copy.factory].default["hook"]}
           /\ new.token.impl["router"] = old.token.impl["router"]
           /\ new.copy.factory = old.copy.factory /\ new.copy.impl = old.copy.impl
           /\ new.copy.default = old.copy.default
           /\ Recorded(new.copy) = Recorded(old.copy) \cup {new.token.token}
           /\ new.copy.createdTokens # <<>> /\ latestToken(new.copy) = new.token.token
           /\ \A i \in DOMAIN new.copy.createdTokens :
                 \/ i \in DOMAIN old.copy.createdTokens
                    /\ new.copy.createdTokens[i] = old.copy.createdTokens[i]
                 \/ new.copy.createdTokens[i] = new.token
           /\ UNCHANGED Chain /\ UNCHANGED Disk
<1>1. PICK impl : impl = IF found THEN factories[old.copy.factory].default["hook"] ELSE None
  OBVIOUS
<1>2. PICK token : token = [old.token EXCEPT !.impl["hook"] = impl]
  OBVIOUS
<1>3. PICK copy : copy = [old.copy EXCEPT !.createdTokens = Append(@, token)]
  OBVIOUS
<1>4. PICK run : run = [old EXCEPT !.step = "write", !.token = token,
                                   !.copy.createdTokens = push(@, token)]
  OBVIOUS
<1>5. /\ Continue(p, run) /\ UNCHANGED Chain /\ UNCHANGED Disk
      /\ old.job = "create-token" /\ old.step = "hook"
  BY <1>1, <1>2, <1>4 DEF readOptionalFactoryHookImplementation, At
<1>6. old \in Processes /\ new = run
  BY <1>5, ContinueDoes
<1>7. /\ token.token = old.token.token /\ token.impl["hook"] = impl
      /\ token.impl["router"] = old.token.impl["router"]
  <2>1. old.token \in Entries
    BY <1>6 DEF Processes
  <2> QED
    BY <1>2, <2>1 DEF Entries, Kinds
<1>8. /\ copy.factory = old.copy.factory /\ copy.impl = old.copy.impl
      /\ copy.default = old.copy.default
      /\ copy.createdTokens = Append(old.copy.createdTokens, token)
  <2>1. old.copy \in Deployments
    BY <1>6 DEF Processes
  <2> QED
    BY <1>3, <2>1 DEF Deployments
<1>9. new.step = "write" /\ new.token = token /\ new.copy = copy /\ Same(old, new)
  <2>1. run = [old EXCEPT !.step = "write", !.token = token, !.copy = copy]
    BY <1>3, <1>4, <1>6 DEF Processes, push
  <2> QED
    BY <1>6, <2>1 DEF Processes, Same
<1>10. Goes(p)
  BY <1>5, <1>6, <1>9, ContinueDoes
<1>11. /\ Recorded(copy) = Recorded(old.copy) \cup {token.token}
       /\ copy.createdTokens # <<>> /\ latestToken(copy) = token.token
       /\ \A i \in DOMAIN copy.createdTokens :
             \/ i \in DOMAIN old.copy.createdTokens
                /\ copy.createdTokens[i] = old.copy.createdTokens[i]
             \/ copy.createdTokens[i] = token
  <2>1. old \in Processes /\ new \in Processes
    BY <1>6 DEF IInv, ProcOK
  <2>2. old.copy \in Deployments /\ copy \in Deployments /\ token \in Entries
    BY <1>9, <2>1 DEF Processes
  <2>3. PICK r \in Deployments : r = old.copy
    BY <2>2
  <2>4. copy.createdTokens = Append(r.createdTokens, token)
    BY <1>8, <2>3
  <2>5. /\ Recorded(copy) = Recorded(r) \cup {token.token}
        /\ copy.createdTokens # <<>> /\ latestToken(copy) = token.token
        /\ \A i \in DOMAIN copy.createdTokens :
              \/ i \in DOMAIN r.createdTokens
                 /\ copy.createdTokens[i] = r.createdTokens[i]
              \/ copy.createdTokens[i] = token
    BY <2>2, <2>4, PushDoes
  <2> QED
    BY <2>3, <2>5
<1> QED
  BY <1>1, <1>5, <1>7, <1>8, <1>9, <1>10, <1>11

(***************************************************************************)
(* applyHookImplementationMetadata, field by field.                        *)
(***************************************************************************)
MetadataApplied(r, kind, targets, all, impl, new) ==
    /\ new.factory = r.factory /\ new.impl = r.impl
    /\ \A k \in Kinds : new.default[k] = IF all /\ k = kind THEN impl ELSE r.default[k]
    /\ DOMAIN new.createdTokens = DOMAIN r.createdTokens
    /\ \A i \in DOMAIN r.createdTokens :
          /\ new.createdTokens[i].token = r.createdTokens[i].token
          /\ \A k \in Kinds : new.createdTokens[i].impl[k] =
                IF k = kind /\ (all \/ r.createdTokens[i].token \in targets) THEN impl
                ELSE r.createdTokens[i].impl[k]
    /\ Recorded(new) = Recorded(r)

LEMMA MetadataDoes ==
    ASSUME NEW r \in Deployments, NEW kind \in Kinds, NEW targets,
           NEW all \in BOOLEAN, NEW impl \in Nat,
           NEW new, new = ApplyMetadata(r, kind, targets, all, impl)
    PROVE  MetadataApplied(r, kind, targets, all, impl, new)
<1>1. PICK before : before = r.createdTokens
  OBVIOUS
<1>2. PICK after : after = [i \in DOMAIN before |->
                               IF all \/ before[i].token \in targets
                               THEN [before[i] EXCEPT !.impl[kind] = impl]
                               ELSE before[i]]
  OBVIOUS
<1>3. PICK default : default = [r.default EXCEPT ![kind] = IF all THEN impl ELSE @]
  OBVIOUS
<1>4. new = [r EXCEPT !.default = default, !.createdTokens = after]
  BY <1>1, <1>2, <1>3 DEF ApplyMetadata, Deployments
<1>5. /\ new.factory = r.factory /\ new.impl = r.impl
      /\ new.default = default /\ new.createdTokens = after
  BY <1>4 DEF Deployments
<1>6. \A k \in Kinds : default[k] = IF all /\ k = kind THEN impl ELSE r.default[k]
  BY <1>3 DEF Deployments
<1>7. DOMAIN after = DOMAIN before
  BY <1>2
<1>8. ASSUME NEW i \in DOMAIN before
      PROVE  /\ after[i].token = before[i].token
             /\ \A k \in Kinds : after[i].impl[k] =
                   IF k = kind /\ (all \/ before[i].token \in targets) THEN impl
                   ELSE before[i].impl[k]
  <2>1. before[i] \in Entries
    BY <1>1 DEF Deployments
  <2>2. PICK entry : entry = [before[i] EXCEPT !.impl[kind] = impl]
    OBVIOUS
  <2>3. /\ entry.token = before[i].token
        /\ \A k \in Kinds : entry.impl[k] = IF k = kind THEN impl ELSE before[i].impl[k]
    BY <2>1, <2>2 DEF Entries
  <2>4. after[i] = IF all \/ before[i].token \in targets THEN entry ELSE before[i]
    BY <1>2, <2>2
  <2> QED
    BY <2>3, <2>4
<1>9. Recorded(new) = Recorded(r)
  BY <1>1, <1>5, <1>7, <1>8 DEF Recorded
<1> QED
  BY <1>1, <1>5, <1>6, <1>7, <1>8, <1>9 DEF MetadataApplied

ProxyUpgraded(job, kind, one, old, new) ==
    /\ old.job = job /\ old.step = "tx" /\ new.impl = old.impl
    /\ new.step = IF Len(old.todo) > 1 THEN "tx" ELSE AfterUpgrades(old.all)
    /\ new.todo = Tail(old.todo)
    /\ old.todo \in Seq(Nat) /\ old.todo # <<>>
    /\ new.copy = IF old.all THEN old.copy
                  ELSE ApplyMetadata(old.copy, kind, {one}, FALSE, old.impl)
    /\ old.copy \in Deployments /\ old.impl \in Nat /\ old.all \in BOOLEAN
    /\ one \in DOMAIN tokens /\ kind \in Kinds
    /\ DOMAIN tokens' = DOMAIN tokens
    /\ \A t \in DOMAIN tokens :
          /\ tokens'[t].factory = tokens[t].factory
          /\ \A k \in Kinds : tokens'[t].impl[k] =
                IF t = one /\ k = kind THEN old.impl ELSE tokens[t].impl[k]

LEMMA UpgradeProxyDoes ==
    ASSUME IInv, IInv', NEW p \in Commands, NEW job \in Upgrades, UpgradeProxy(p, job),
           NEW old, old = proc[p], NEW new, new = proc'[p]
    PROVE  /\ Goes(p) /\ Same(old, new)
           /\ ProxyUpgraded(job, KindOf(job), old.todo[1], old, new)
           /\ UNCHANGED factories /\ UNCHANGED Disk
<1>a. PICK kind : kind = KindOf(job)
  OBVIOUS
<1>b. PICK one : one = old.todo[1]
  OBVIOUS
<1>1. PICK copy : copy = IF old.all THEN old.copy
                         ELSE ApplyMetadata(old.copy, kind, {one}, FALSE, old.impl)
  OBVIOUS
<1>2. PICK step : step = IF Len(old.todo) > 1 THEN "tx" ELSE AfterUpgrades(old.all)
  OBVIOUS
<1>3. PICK run : run = [old EXCEPT
                          !.todo = Tail(@),
                          !.step = IF Len(old.todo) > 1 THEN @ ELSE AfterUpgrades(old.all),
                          !.copy = IF old.all THEN @
                                   ELSE ApplyMetadata(@, kind, {one}, FALSE, old.impl)]
  OBVIOUS
<1>4. /\ Continue(p, run)
      /\ tokens' = [tokens EXCEPT ![one].impl[kind] = old.impl]
      /\ UNCHANGED <<code, factories>> /\ UNCHANGED Disk
      /\ old.job = job /\ old.step = "tx"
  BY <1>3, <1>a, <1>b DEF UpgradeProxy, At
<1>5. old \in Processes /\ Sound(old) /\ new = run
  BY <1>4, ContinueDoes
<1>6. /\ new.step = step /\ new.copy = copy /\ new.todo = Tail(old.todo)
      /\ new.impl = old.impl /\ Same(old, new)
  <2>1. run = [old EXCEPT !.todo = Tail(@), !.step = step, !.copy = copy]
    BY <1>1, <1>2, <1>3, <1>4, <1>5 DEF Processes
  <2> QED
    BY <1>5, <2>1 DEF Processes, Same
<1>7. Goes(p)
  <2>1. old.job # "idle"
    BY <1>4 DEF Upgrades
  <2> QED
    BY <1>4, <1>5, <1>6, <2>1, ContinueDoes
<1>8. /\ old.copy \in Deployments /\ Fine(old.copy)
      /\ old.todo \in Seq(Nat) /\ old.todo # <<>>
      /\ \A i \in DOMAIN old.todo : old.todo[i] \in Recorded(old.copy)
      /\ old.impl \in Nat /\ old.all \in BOOLEAN
  BY <1>4, <1>5 DEF Processes, Sound, Copied, Upgrading, Recorders
<1>9. one \in DOMAIN tokens
  <2>1. 1 \in DOMAIN old.todo
    BY <1>8
  <2> QED
    BY <1>8, <1>b, <2>1 DEF Fine, HasCode
<1>10. kind \in Kinds
  BY <1>a DEF KindOf, Kinds
<1>11. ChainOK
  BY DEF IInv
<1>12. PICK before : before = tokens[one]
  OBVIOUS
<1>13. PICK after : after = [before EXCEPT !.impl[kind] = old.impl]
  OBVIOUS
<1>14. /\ after.factory = before.factory
       /\ \A k \in Kinds : after.impl[k] = IF k = kind THEN old.impl ELSE before.impl[k]
  <2>1. before \in Tokens
    BY <1>9, <1>11, <1>12 DEF ChainOK
  <2> QED
    BY <1>13, <2>1 DEF Tokens
<1>15. tokens' = [tokens EXCEPT ![one] = after]
  BY <1>4, <1>12, <1>13
<1>16. /\ DOMAIN tokens' = DOMAIN tokens
       /\ \A t \in DOMAIN tokens :
             /\ tokens'[t].factory = tokens[t].factory
             /\ \A k \in Kinds : tokens'[t].impl[k] =
                   IF t = one /\ k = kind THEN old.impl ELSE tokens[t].impl[k]
  <2>1. /\ DOMAIN tokens' = DOMAIN tokens
        /\ \A t \in DOMAIN tokens : tokens'[t] = IF t = one THEN after ELSE tokens[t]
    BY <1>15
  <2> QED
    BY <1>12, <1>14, <2>1
<1>17. ProxyUpgraded(job, kind, one, old, new)
  BY <1>1, <1>2, <1>4, <1>6, <1>8, <1>9, <1>10, <1>16 DEF ProxyUpgraded
<1> QED
  BY <1>a, <1>b, <1>4, <1>6, <1>7, <1>17

DefaultChanged(job, kind, old, new) ==
    /\ old.job = job /\ old.step = "default" /\ new.step = "write"
    /\ new.impl = old.impl
    /\ new.copy = ApplyMetadata(old.copy, kind, {}, TRUE, old.impl)
    /\ old.copy \in Deployments /\ old.impl \in Nat /\ old.impl # None
    /\ kind \in Kinds
    /\ old.copy.factory \in DOMAIN factories
    /\ DOMAIN factories' = DOMAIN factories
    /\ \A g \in DOMAIN factories :
          /\ factories'[g].impl = factories[g].impl
          /\ \A k \in Kinds : factories'[g].default[k] =
                IF g = old.copy.factory /\ k = kind THEN old.impl
                ELSE factories[g].default[k]

LEMMA SetDefaultDoes ==
    ASSUME IInv, IInv', NEW p \in Commands, NEW job \in Upgrades, SetDefault(p, job),
           NEW old, old = proc[p], NEW new, new = proc'[p]
    PROVE  /\ Goes(p) /\ Same(old, new)
           /\ DefaultChanged(job, KindOf(job), old, new)
           /\ UNCHANGED tokens /\ UNCHANGED Disk
<1>a. PICK kind : kind = KindOf(job)
  OBVIOUS
<1>1. PICK copy : copy = ApplyMetadata(old.copy, kind, {}, TRUE, old.impl)
  OBVIOUS
<1>2. PICK run : run = [old EXCEPT !.step = "write",
                                   !.copy = ApplyMetadata(@, kind, {}, TRUE, old.impl)]
  OBVIOUS
<1>3. /\ Continue(p, run)
      /\ factories' = DefaultSet(old.copy.factory, kind, old.impl)
      /\ UNCHANGED <<code, tokens>> /\ UNCHANGED Disk
      /\ old.job = job /\ old.step = "default"
  BY <1>2, <1>a DEF SetDefault, At
<1>4. old \in Processes /\ Sound(old) /\ new = run
  BY <1>3, ContinueDoes
<1>5. new.step = "write" /\ new.copy = copy /\ new.impl = old.impl /\ Same(old, new)
  <2>1. run = [old EXCEPT !.step = "write", !.copy = copy]
    BY <1>1, <1>2, <1>4 DEF Processes
  <2> QED
    BY <1>4, <2>1 DEF Processes, Same
<1>6. Goes(p)
  <2>1. old.job # "idle"
    BY <1>3 DEF Upgrades
  <2> QED
    BY <1>3, <1>4, <1>5, <2>1, ContinueDoes
<1>7. /\ old.copy \in Deployments /\ old.copy.factory \in DOMAIN factories
      /\ old.impl \in Nat /\ old.impl <= code /\ old.impl # None
  BY <1>3, <1>4 DEF Processes, Sound, Copied, Upgrading, Recorders, Fine, HasCode
<1>8. kind \in Kinds
  BY <1>a DEF KindOf, Kinds
<1>9. ChainOK
  BY DEF IInv
<1>10. /\ DOMAIN factories' = DOMAIN factories
       /\ \A g \in DOMAIN factories :
             /\ factories'[g].impl = factories[g].impl
             /\ \A k \in Kinds : factories'[g].default[k] =
                   IF g = old.copy.factory /\ k = kind THEN old.impl
                   ELSE factories[g].default[k]
  BY <1>3, <1>7, <1>8, <1>9, DefaultSetGrows
<1>11. DefaultChanged(job, kind, old, new)
  BY <1>1, <1>3, <1>5, <1>7, <1>8, <1>10 DEF DefaultChanged
<1> QED
  BY <1>a, <1>3, <1>5, <1>6, <1>11

LEMMA UpgradeFactoryDoes ==
    ASSUME IInv, IInv', NEW p \in Commands, UpgradeFactory(p),
           NEW old, old = proc[p], NEW new, new = proc'[p]
    PROVE  /\ Goes(p) /\ Same(old, new)
           /\ old.job = "upgrade-factory" /\ old.step = "tx" /\ new.step = "write"
           /\ new.copy.factory = old.copy.factory /\ new.copy.impl = old.impl
           /\ new.copy.default = old.copy.default
           /\ new.copy.createdTokens = old.copy.createdTokens
           /\ DOMAIN factories' = DOMAIN factories
           /\ \A g \in DOMAIN factories :
                 /\ factories'[g].default = factories[g].default
                 /\ factories'[g].impl = IF g = old.copy.factory THEN old.impl
                                         ELSE factories[g].impl
           /\ UNCHANGED tokens /\ UNCHANGED Disk
<1>1. PICK copy : copy = [old.copy EXCEPT !.impl = old.impl]
  OBVIOUS
<1>2. PICK run : run = [old EXCEPT !.step = "write", !.copy.impl = old.impl]
  OBVIOUS
<1>3. /\ Continue(p, run)
      /\ factories' = [factories EXCEPT ![old.copy.factory].impl = old.impl]
      /\ UNCHANGED <<code, tokens>> /\ UNCHANGED Disk
      /\ old.job = "upgrade-factory" /\ old.step = "tx"
  BY <1>2 DEF UpgradeFactory, At
<1>4. old \in Processes /\ Sound(old) /\ new = run
  BY <1>3, ContinueDoes
<1>5. new.step = "write" /\ new.copy = copy /\ Same(old, new)
  <2>1. run = [old EXCEPT !.step = "write", !.copy = copy]
    BY <1>1, <1>2, <1>4 DEF Processes
  <2> QED
    BY <1>4, <2>1 DEF Processes, Same
<1>6. /\ copy.factory = old.copy.factory /\ copy.impl = old.impl
      /\ copy.default = old.copy.default /\ copy.createdTokens = old.copy.createdTokens
  <2>1. old.copy \in Deployments
    BY <1>4 DEF Processes
  <2> QED
    BY <1>1, <2>1 DEF Deployments
<1>7. Goes(p)
  BY <1>3, <1>4, <1>5, ContinueDoes
<1>8. old.copy.factory \in DOMAIN factories /\ old.impl \in Nat
  BY <1>3, <1>4 DEF Processes, Sound, Copied, Recorders, Fine, HasCode
<1>9. ChainOK
  BY DEF IInv
<1>10. /\ DOMAIN factories' = DOMAIN factories
       /\ \A g \in DOMAIN factories :
             /\ factories'[g].default = factories[g].default
             /\ factories'[g].impl = IF g = old.copy.factory THEN old.impl
                                     ELSE factories[g].impl
  BY <1>3, <1>8, <1>9, FactoryUpgradeGrows
<1> QED
  BY <1>3, <1>5, <1>6, <1>7, <1>10

LEMMA UpgradeFactoryFirstDoes ==
    ASSUME IInv, IInv', NEW p \in Commands, UpgradeFactoryFirst(p),
           NEW old, old = proc[p], NEW new, new = proc'[p]
    PROVE  /\ Goes(p) /\ Same(old, new)
           /\ old.job = "upgrade-hook-architecture" /\ old.step = "tx" /\ new.step = "tx2"
           /\ new.copy = old.copy /\ new.impl = old.impl
           /\ old.copy.factory \in DOMAIN factories
           /\ DOMAIN factories' = DOMAIN factories
           /\ \A g \in DOMAIN factories :
                 /\ factories'[g].default = factories[g].default
                 /\ factories'[g].impl = IF g = old.copy.factory THEN old.impl
                                         ELSE factories[g].impl
           /\ UNCHANGED tokens /\ UNCHANGED Disk
<1>1. PICK run : run = [old EXCEPT !.step = "tx2"]
  OBVIOUS
<1>2. /\ Continue(p, run)
      /\ factories' = [factories EXCEPT ![old.copy.factory].impl = old.impl]
      /\ UNCHANGED <<code, tokens>> /\ UNCHANGED Disk
      /\ old.job = "upgrade-hook-architecture" /\ old.step = "tx"
  BY <1>1 DEF UpgradeFactoryFirst, At
<1>3. old \in Processes /\ Sound(old) /\ new = run
  BY <1>2, ContinueDoes
<1>4. new.step = "tx2" /\ new.copy = old.copy /\ new.impl = old.impl /\ Same(old, new)
  BY <1>1, <1>3 DEF Processes, Same
<1>5. Goes(p)
  BY <1>2, <1>3, <1>4, ContinueDoes
<1>6. old.copy.factory \in DOMAIN factories /\ old.impl \in Nat
  BY <1>2, <1>3 DEF Processes, Sound, Copied, Recorders, Fine, HasCode
<1>7. ChainOK
  BY DEF IInv
<1>8. /\ DOMAIN factories' = DOMAIN factories
      /\ \A g \in DOMAIN factories :
            /\ factories'[g].default = factories[g].default
            /\ factories'[g].impl = IF g = old.copy.factory THEN old.impl
                                    ELSE factories[g].impl
  BY <1>2, <1>6, <1>7, FactoryUpgradeGrows
<1> QED
  BY <1>2, <1>4, <1>5, <1>6, <1>8

LEMMA SetArchitectureDefaultDoes ==
    ASSUME IInv, IInv', NEW p \in Commands, SetArchitectureDefault(p),
           NEW old, old = proc[p], NEW new, new = proc'[p]
    PROVE  /\ Goes(p) /\ Same(old, new)
           /\ old.job = "upgrade-hook-architecture" /\ old.step = "tx2"
           /\ new.step = "write"
           /\ new.copy.factory = old.copy.factory /\ new.copy.impl = old.impl
           /\ new.copy.default["hook"] = old.impl + 1
           /\ new.copy.default["router"] = old.copy.default["router"]
           /\ new.copy.createdTokens = old.copy.createdTokens
           /\ old.copy.factory \in DOMAIN factories
           /\ DOMAIN factories' = DOMAIN factories
           /\ \A g \in DOMAIN factories :
                 /\ factories'[g].impl = factories[g].impl
                 /\ \A k \in Kinds : factories'[g].default[k] =
                       IF g = old.copy.factory /\ k = "hook" THEN old.impl + 1
                       ELSE factories[g].default[k]
           /\ UNCHANGED tokens /\ UNCHANGED Disk
<1>1. PICK impl : impl = old.impl + 1
  OBVIOUS
<1>2. PICK copy : copy = [old.copy EXCEPT !.impl = old.impl, !.default["hook"] = impl]
  OBVIOUS
<1>3. PICK run : run = [old EXCEPT !.step = "write", !.copy.impl = old.impl,
                                   !.copy.default["hook"] = impl]
  OBVIOUS
<1>4. /\ Continue(p, run)
      /\ factories' = DefaultSet(old.copy.factory, "hook", impl)
      /\ UNCHANGED <<code, tokens>> /\ UNCHANGED Disk
      /\ old.job = "upgrade-hook-architecture" /\ old.step = "tx2"
  BY <1>1, <1>3 DEF SetArchitectureDefault, At
<1>5. old \in Processes /\ Sound(old) /\ new = run
  BY <1>4, ContinueDoes
<1>6. new.step = "write" /\ new.copy = copy /\ Same(old, new)
  <2>1. run = [old EXCEPT !.step = "write", !.copy = copy]
    BY <1>2, <1>3, <1>5 DEF Processes, Deployments
  <2> QED
    BY <1>5, <2>1 DEF Processes, Same
<1>7. /\ copy.factory = old.copy.factory /\ copy.impl = old.impl
      /\ copy.default["hook"] = impl /\ copy.default["router"] = old.copy.default["router"]
      /\ copy.createdTokens = old.copy.createdTokens
  <2>1. old.copy \in Deployments
    BY <1>5 DEF Processes
  <2> QED
    BY <1>2, <2>1 DEF Deployments, Kinds
<1>8. Goes(p)
  BY <1>4, <1>5, <1>6, ContinueDoes
<1>9. /\ old.copy.factory \in DOMAIN factories
      /\ impl \in Nat /\ impl # None /\ impl <= code
  <2>1. old.impl \in Nat /\ old.impl + 1 <= code
    BY <1>4, <1>5 DEF Processes, Sound, Upgrading
  <2>2. impl \in Nat /\ impl # None /\ impl <= code
    BY <1>1, <2>1 DEF None
  <2> QED
    BY <1>4, <1>5, <2>2 DEF Sound, Copied, Recorders, Fine, HasCode
<1>10. ChainOK /\ "hook" \in Kinds
  BY DEF IInv, Kinds
<1>11. /\ DOMAIN factories' = DOMAIN factories
       /\ \A g \in DOMAIN factories :
             /\ factories'[g].impl = factories[g].impl
             /\ \A k \in Kinds : factories'[g].default[k] =
                   IF g = old.copy.factory /\ k = "hook" THEN impl
                   ELSE factories[g].default[k]
  BY <1>4, <1>9, <1>10, DefaultSetGrows
<1> QED
  BY <1>1, <1>4, <1>6, <1>7, <1>8, <1>9, <1>11

Exported(n, old, new) ==
    /\ old.job = "export" /\ old.step = "tx"
    /\ old.todo \in Seq(Nat) /\ old.todo # <<>>
    /\ bundle' = [bundle EXCEPT ![Directory(n)] = WriteFile(@, n, old.copy)]
    /\ IF Len(old.todo) = 1 THEN new = Idle
       ELSE /\ Same(old, new) /\ new.step = "tx" /\ new.copy = old.copy
            /\ new.todo = Tail(old.todo)

LEMMA ExportDoes ==
    ASSUME IInv, IInv', NEW p \in Commands, Export(p),
           NEW old, old = proc[p], NEW new, new = proc'[p]
    PROVE  /\ Goes(p) /\ Exported(old.todo[1], old, new)
           /\ UNCHANGED Chain /\ UNCHANGED <<file, last>>
<1>a. PICK n : n = old.todo[1]
  OBVIOUS
<1>1. PICK run : run = IF Len(old.todo) = 1 THEN Idle ELSE [old EXCEPT !.todo = Tail(@)]
  OBVIOUS
<1>2. /\ Continue(p, run)
      /\ bundle' = [bundle EXCEPT ![Directory(n)] = WriteFile(@, n, old.copy)]
      /\ UNCHANGED Chain /\ UNCHANGED <<file, last>>
      /\ old.job = "export" /\ old.step = "tx"
  BY <1>1, <1>a DEF Export, At
<1>3. old \in Processes /\ Sound(old) /\ new = run
  BY <1>2, ContinueDoes
<1>4. IF Len(old.todo) = 1 THEN new = Idle
      ELSE /\ Same(old, new) /\ new.step = "tx" /\ new.copy = old.copy
           /\ new.todo = Tail(old.todo)
  BY <1>1, <1>2, <1>3 DEF Processes, Same
<1>5. Goes(p)
  BY <1>2, <1>3, <1>4, ContinueDoes
<1>6. old.todo \in Seq(Nat) /\ old.todo # <<>>
  BY <1>2, <1>3 DEF Processes, Sound, Upgrading
<1>7. Exported(n, old, new)
  BY <1>2, <1>4, <1>6 DEF Exported
<1> QED
  BY <1>a, <1>2, <1>5, <1>7

LEMMA TruncateDoes ==
    ASSUME IInv, IInv', Exclusive, NEW p \in Commands, Truncate(p),
           NEW old, old = proc[p], NEW new, new = proc'[p]
    PROVE  /\ Goes(p) /\ Same(old, new)
           /\ old.step = "write" /\ new.step = "writing"
           /\ new.copy = old.copy /\ new.impl = old.impl /\ new.token = old.token
           /\ file' = NoRecord
           /\ UNCHANGED Chain /\ UNCHANGED <<bundle, last>>
<1>1. PICK run : run = [old EXCEPT !.step = "writing"]
  OBVIOUS
<1>2. /\ Continue(p, run) /\ file' = NoRecord
      /\ UNCHANGED Chain /\ UNCHANGED <<bundle, last>>
      /\ old.step = "write"
  BY <1>1 DEF Truncate
<1>3. old \in Processes /\ Sound(old) /\ new = run
  BY <1>2, ContinueDoes
<1>4. /\ new.step = "writing" /\ new.copy = old.copy /\ new.impl = old.impl
      /\ new.token = old.token /\ Same(old, new)
  BY <1>1, <1>3 DEF Processes, Same
<1>5. old.job # "idle"
  BY <1>2 DEF Exclusive, Idle
<1>6. Goes(p)
  BY <1>2, <1>3, <1>4, <1>5, ContinueDoes
<1> QED
  BY <1>2, <1>4, <1>6

LEMMA WriteDoes ==
    ASSUME IInv, IInv', Exclusive, NEW p \in Commands, writeDeployment(p),
           NEW old, old = proc[p]
    PROVE  /\ Goes(p)
           /\ old.job # "idle" /\ old.step = "writing" /\ proc'[p] = Idle
           /\ file' = old.copy /\ last' = old.copy
           /\ UNCHANGED Chain /\ UNCHANGED bundle
<1>1. /\ Continue(p, Idle) /\ file' = old.copy /\ last' = old.copy
      /\ UNCHANGED Chain /\ UNCHANGED bundle
      /\ old.step = "writing"
  BY DEF writeDeployment, Written
<1>2. old.job # "idle"
  BY <1>1 DEF Exclusive, Idle
<1>3. proc'[p] = Idle /\ Goes(p)
  BY <1>1, <1>2, ContinueDoes
<1> QED
  BY <1>1, <1>2, <1>3

LEMMA StopDoes ==
    ASSUME IInv, NEW p \in Commands, Stop(p)
    PROVE  /\ Goes(p) /\ proc'[p] = Idle /\ orderly' = FALSE
           /\ UNCHANGED Chain /\ UNCHANGED Disk
<1>1. /\ proc[p].job # "idle" /\ proc' = [proc EXCEPT ![p] = Idle] /\ orderly' = FALSE
      /\ UNCHANGED Chain /\ UNCHANGED Disk /\ UNCHANGED <<starts, solo>>
  BY DEF Stop
<1>2. proc'[p] = Idle
  BY <1>1 DEF IInv, ProcOK
<1> QED
  BY <1>1, <1>2, IdleType DEF Goes

-----------------------------------------------------------------------------
(* Who is alone.                                                           *)

LEMMA BeginsExclusive ==
    ASSUME IInv, Exclusive, NEW p \in Commands, Begins(p)
    PROVE  /\ Exclusive'
           /\ \A q \in Commands : q # p /\ proc'[q].alone => proc'[q].job = "idle"
<1>1. PICK started \in Processes : started.job # "idle" /\ Begin(p, started)
  BY DEF Begins
<1>2. PICK alone : alone = Quiet
  OBVIOUS
<1>3. proc'[p].job # "idle" /\ proc'[p].alone = alone
  BY <1>1, <1>2, BeginDoes
<1>4. ASSUME NEW q \in Commands, q # p
      PROVE  /\ proc[q].job = "idle" => proc'[q] = Idle
             /\ proc[q].job # "idle" => proc'[q].job # "idle" /\ ~proc'[q].alone
  <2>1. CASE proc[q].job = "idle"
    BY <1>1, <1>4, <2>1 DEF Begin
  <2>2. CASE proc[q].job # "idle"
    <3>1. PICK other : other = proc[q]
      OBVIOUS
    <3>2. PICK after : after = [other EXCEPT !.alone = FALSE]
      OBVIOUS
    <3>3. proc'[q] = after
      BY <1>1, <1>4, <2>2, <3>1, <3>2 DEF Begin
    <3>4. other \in Processes
      BY <3>1 DEF IInv, ProcOK
    <3>5. after.job = other.job /\ after.alone = FALSE
      BY <3>2, <3>4 DEF Processes
    <3> QED
      BY <2>2, <3>1, <3>3, <3>5
  <2> QED
    BY <2>1, <2>2
<1>5. Idle.job = "idle" /\ Idle.alone = TRUE
  BY DEF Idle
<1>6. ASSUME NEW q \in Commands, q # p, proc'[q].alone
      PROVE  proc'[q].job = "idle"
  BY <1>4, <1>5, <1>6
<1>7. \A q \in Commands : proc'[q].job = "idle" => proc'[q] = Idle
  BY <1>3, <1>4
<1>8. ASSUME NEW q \in Commands, NEW r \in Commands, q # r,
             proc'[q].job # "idle", proc'[q].alone
      PROVE  proc'[r].job = "idle"
  <2>1. q = p
    BY <1>6, <1>8
  <2>2. Quiet
    BY <1>2, <1>3, <1>8, <2>1
  <2>3. proc[r].job = "idle"
    BY <2>2 DEF Quiet
  <2> QED
    BY <1>4, <1>5, <1>8, <2>1, <2>3
<1>9. ASSUME solo'
      PROVE  \A q \in Commands : proc'[q].alone
  <2>1. Quiet
    BY <1>1, <1>9 DEF Begin
  <2>2. \A q \in Commands : proc[q].job = "idle"
    BY <2>1 DEF Quiet
  <2> QED
    BY <1>2, <1>3, <1>4, <1>5, <2>1, <2>2
<1>10. orderly' => solo'
  BY <1>1 DEF Begin, Exclusive
<1> QED
  BY <1>6, <1>7, <1>8, <1>9, <1>10 DEF Exclusive

LEMMA GoesExclusive ==
    ASSUME IInv, Exclusive, NEW p \in Commands, Goes(p)
    PROVE  /\ Exclusive'
           /\ \A q \in Commands : q # p /\ proc'[q].alone => proc'[q].job = "idle"
<1>1. PICK run \in Processes :
         proc' = [proc EXCEPT ![p] = run] /\ (run = Idle \/ Same(proc[p], run))
  BY DEF Goes
<1>2. /\ proc'[p] = run
      /\ \A q \in Commands : q # p => proc'[q] = proc[q]
  BY <1>1 DEF IInv, ProcOK
<1>3. Idle.job = "idle" /\ Idle.alone = TRUE
  BY DEF Idle
<1>4. PICK old : old = proc[p]
  OBVIOUS
<1>5. old.job # "idle" /\ (run = Idle \/ (run.job = old.job /\ run.alone = old.alone))
  BY <1>1, <1>4 DEF Goes, Same
<1>6. \A q \in Commands : proc'[q].job = "idle" => proc'[q] = Idle
  BY <1>2, <1>4, <1>5 DEF Exclusive
<1>7. ASSUME NEW q \in Commands, NEW r \in Commands, q # r,
             proc'[q].job # "idle", proc'[q].alone
      PROVE  proc'[r].job = "idle"
  <2>1. CASE q = p
    BY <1>2, <1>3, <1>4, <1>5, <1>7, <2>1 DEF Exclusive
  <2>2. CASE q # p
    <3>1. proc[q].job # "idle" /\ proc[q].alone
      BY <1>2, <1>7, <2>2
    <3>2. proc[r].job = "idle" /\ r # p
      BY <1>4, <1>5, <1>7, <2>2, <3>1 DEF Exclusive
    <3> QED
      BY <1>2, <3>2
  <2> QED
    BY <2>1, <2>2
<1>8. solo' = solo /\ (orderly' => orderly)
  BY DEF Goes
<1>9. solo => \A q \in Commands : proc'[q].alone
  BY <1>2, <1>3, <1>4, <1>5 DEF Exclusive
<1>10. Exclusive'
  BY <1>6, <1>7, <1>8, <1>9 DEF Exclusive
<1>11. ASSUME NEW q \in Commands, q # p, proc'[q].alone
       PROVE  proc'[q].job = "idle"
  BY <1>2, <1>4, <1>5, <1>11 DEF Exclusive
<1> QED
  BY <1>10, <1>11

(***************************************************************************)
(* Every step of a command begins or goes on with it.                      *)
(***************************************************************************)
LEMMA CommandActs ==
    ASSUME IInv, IInv', Exclusive, NEW p \in Commands, Command(p)
    PROVE  Begins(p) \/ Goes(p)
<1>1. CASE deploy(p)
  BY <1>1, StartDeployDoes, DeployFactoryDoes, SetFirstDefaultDoes DEF deploy
<1>2. CASE StartRewrite(p)
  BY <1>2, StartRewriteDoes
<1>3. CASE createToken(p)
  <2>1. CASE StartCreate(p)
    BY <2>1, StartCreateDoes
  <2>2. ASSUME NEW mined \in BOOLEAN, CreateToken(p, mined)
        PROVE  Goes(p)
    BY <2>2, CreateTokenDoes
  <2>3. ASSUME NEW found \in BOOLEAN,
               \/ readOptionalFactoryRouterImplementation(p, found)
               \/ readOptionalFactoryHookImplementation(p, found)
        PROVE  Goes(p)
    BY <2>3, ReadRouterDoes, ReadHookDoes
  <2> QED
    BY <1>3, <2>1, <2>2, <2>3 DEF createToken
<1>4. ASSUME NEW job \in Upgrades, Upgrade(p, job)
      PROVE  Begins(p) \/ Goes(p)
  <2>1. ASSUME NEW all \in BOOLEAN, StartUpgrade(p, job, all)
        PROVE  Begins(p)
    BY <2>1, StartUpgradeDoes
  <2>2. CASE UpgradeProxy(p, job)
    BY <2>2, UpgradeProxyDoes
  <2>3. CASE SetDefault(p, job)
    BY <2>3, SetDefaultDoes
  <2> QED
    BY <1>4, <2>1, <2>2, <2>3 DEF Upgrade
<1>5. CASE upgradeHooks(p) \/ upgradeRouters(p)
  BY <1>4, <1>5 DEF upgradeHooks, upgradeRouters, Upgrades
<1>6. CASE upgradeFactory(p)
  BY <1>6, StartFactoryUpgradeDoes, UpgradeFactoryDoes DEF upgradeFactory
<1>7. CASE upgradeHookArchitecture(p)
  BY <1>7, StartArchitectureUpgradeDoes, UpgradeFactoryFirstDoes, SetArchitectureDefaultDoes
     DEF upgradeHookArchitecture
<1>8. CASE exportAbis(p)
  BY <1>8, StartExportDoes, ExportDoes DEF exportAbis
<1>9. CASE Truncate(p) \/ writeDeployment(p) \/ Stop(p)
  BY <1>9, TruncateDoes, WriteDoes, StopDoes
<1> QED
  BY <1>1, <1>2, <1>3, <1>5, <1>6, <1>7, <1>8, <1>9 DEF Command

-----------------------------------------------------------------------------
(* What a command that begins can rely on, should it be alone.             *)

(***************************************************************************)
(* Most commands neither export nor upgrade launches.                      *)
(***************************************************************************)
LEMMA PlainUndisturbed ==
    ASSUME NEW run, run.job \notin Upgrades \cup {"export"}, ~run.all,
           InStep(run), Remembers(run)', Pushed(run)'
    PROVE  Undisturbed(run)'
BY DEF Undisturbed, InStep, Exporting, Converging, Newest

LEMMA CopyRemembers ==
    ASSUME FileIsLast, Readable(file), UNCHANGED Disk,
           NEW run, run.copy = file, run.job # "deploy"
    PROVE  Remembers(run)'
BY DEF FileIsLast, Remembers, Recorded, Disk

LEMMA StartDeployUndisturbed ==
    ASSUME IInv, IInv', NEW p \in Commands, StartDeploy(p), NEW new, new = proc'[p]
    PROVE  Undisturbed(new)'
<1>1. new.job = "deploy" /\ new.step = "tx" /\ new.all = FALSE
  BY StartDeployDoes
<1>2. InStep(new) /\ Remembers(new)' /\ Pushed(new)'
  BY <1>1 DEF InStep, Remembers, Recorders, Upgrades, Pushed
<1> QED
  BY <1>1, <1>2, PlainUndisturbed DEF Upgrades

LEMMA StartRewriteUndisturbed ==
    ASSUME IInv, IInv', FileIsLast, NEW p \in Commands, StartRewrite(p),
           NEW new, new = proc'[p]
    PROVE  Undisturbed(new)'
<1>1. /\ new.job = "rewrite" /\ new.step = "write" /\ new.all = FALSE
      /\ new.copy = file /\ Readable(file) /\ UNCHANGED Disk
  BY StartRewriteDoes
<1>2. InStep(new) /\ Pushed(new)'
  BY <1>1 DEF InStep, Pushed
<1>3. Remembers(new)'
  BY <1>1, CopyRemembers
<1> QED
  BY <1>1, <1>2, <1>3, PlainUndisturbed DEF Upgrades

LEMMA StartCreateUndisturbed ==
    ASSUME IInv, IInv', FileIsLast, NEW p \in Commands, StartCreate(p),
           NEW new, new = proc'[p]
    PROVE  Undisturbed(new)'
<1>1. /\ new.job = "create-token" /\ new.step = "tx" /\ new.all = FALSE
      /\ new.token = NoEntry /\ new.copy = file /\ Readable(file) /\ UNCHANGED Disk
  BY StartCreateDoes
<1>2. InStep(new) /\ Pushed(new)'
  BY <1>1 DEF InStep, Pushed, Ending
<1>3. Remembers(new)'
  BY <1>1, CopyRemembers
<1> QED
  BY <1>1, <1>2, <1>3, PlainUndisturbed DEF Upgrades

LEMMA StartFactoryUpgradeUndisturbed ==
    ASSUME IInv, IInv', FileIsLast, NEW p \in Commands, StartFactoryUpgrade(p),
           NEW new, new = proc'[p]
    PROVE  Undisturbed(new)'
<1>1. /\ new.job = "upgrade-factory" /\ new.step = "tx" /\ new.all = FALSE
      /\ new.copy = file /\ Readable(file) /\ UNCHANGED Disk
  BY StartFactoryUpgradeDoes
<1>2. InStep(new) /\ Pushed(new)'
  BY <1>1 DEF InStep, Upgrades, Pushed
<1>3. Remembers(new)'
  BY <1>1, CopyRemembers
<1> QED
  BY <1>1, <1>2, <1>3, PlainUndisturbed DEF Upgrades

LEMMA StartArchitectureUpgradeUndisturbed ==
    ASSUME IInv, IInv', FileIsLast, NEW p \in Commands, StartArchitectureUpgrade(p),
           NEW new, new = proc'[p]
    PROVE  Undisturbed(new)'
<1>1. /\ new.job = "upgrade-hook-architecture" /\ new.step = "tx" /\ new.all = FALSE
      /\ new.copy = file /\ Readable(file) /\ UNCHANGED Disk
  BY StartArchitectureUpgradeDoes
<1>2. InStep(new) /\ Pushed(new)'
  BY <1>1 DEF InStep, Upgrades, Pushed
<1>3. Remembers(new)'
  BY <1>1, CopyRemembers
<1> QED
  BY <1>1, <1>2, <1>3, PlainUndisturbed DEF Upgrades

(***************************************************************************)
(* An upgrade is newer than all there is, and has all launches before it.  *)
(***************************************************************************)
LEMMA StartUpgradeUndisturbed ==
    ASSUME IInv, IInv', FileIsLast, NEW p \in Commands, NEW job \in Upgrades,
           NEW all \in BOOLEAN, StartUpgrade(p, job, all), NEW new, new = proc'[p]
    PROVE  Undisturbed(new)'
<1>1. /\ new.job = job /\ new.step = "tx" /\ new.all = all /\ new.copy = file
      /\ new.impl = code + 1 /\ new.todo \in Targets(file, all)
      /\ Readable(file) /\ file.createdTokens # <<>>
      /\ UNCHANGED <<factories, tokens>> /\ UNCHANGED Disk
  BY StartUpgradeDoes
<1>2. job # "idle" /\ job # "create-token" /\ job # "export" /\ job # "deploy"
      /\ job # "rewrite"
  BY DEF Upgrades
<1>3. InStep(new) /\ Pushed(new)' /\ Exporting(new)'
  BY <1>1, <1>2 DEF InStep, Pushed, Exporting
<1>4. Remembers(new)'
  BY <1>1, <1>2, CopyRemembers
<1>5. Newest(new)'
  <2>1. ASSUME NEW f \in DOMAIN factories, NEW k \in Kinds
        PROVE  factories[f].default[k] <= code + 1
    <3>1. factories[f] \in Factories /\ factories[f].default[k] <= code /\ code \in Nat
      BY DEF IInv, ChainOK
    <3>2. factories[f].default[k] \in Nat
      BY <3>1 DEF Factories
    <3> QED
      BY <3>1, <3>2
  <2> QED
    BY <1>1, <2>1 DEF Newest
<1>6. Converging(new)'
  <2>1. PICK r : r = file
    OBVIOUS
  <2>2. ASSUME all
        PROVE  \A t \in Recorded(r) : Listed(new.todo, t)
    <3>1. new.todo = [i \in DOMAIN r.createdTokens |-> r.createdTokens[i].token]
      BY <1>1, <2>1, <2>2 DEF Targets
    <3> QED
      BY <3>1 DEF Recorded, Listed
  <2>3. new.copy = r /\ r.createdTokens # <<>> /\ new.step = "tx" /\ "tx" \notin Ending
    BY <1>1, <2>1 DEF Ending
  <2>4. new.all = all
    BY <1>1
  <2>5. ASSUME new.all, NEW t \in Recorded(new.copy)
        PROVE  Listed(new.todo, t)
    BY <2>2, <2>3, <2>4, <2>5
  <2> QED
    BY <2>3, <2>5 DEF Converging
<1> QED
  BY <1>3, <1>4, <1>5, <1>6 DEF Undisturbed, InStep

LEMMA StartExportUndisturbed ==
    ASSUME IInv, IInv', NEW p \in Commands, StartExport(p), NEW new, new = proc'[p]
    PROVE  Undisturbed(new)'
<1>1. /\ new.job = "export" /\ new.step = "tx" /\ new.all = FALSE
      /\ new.copy = collectAddresses(file) /\ new.todo = Writes(outputDirs)
      /\ UNCHANGED Disk
  BY StartExportDoes
<1>2. InStep(new) /\ Remembers(new)' /\ Pushed(new)' /\ Converging(new)' /\ Newest(new)'
  BY <1>1 DEF InStep, Remembers, Recorders, Upgrades, Pushed, Converging, Newest
<1>3. new.copy = collectAddresses(file')
  BY <1>1 DEF Disk
<1>4. Bundles \in Nat /\ Bundles # 0
  BY BoundsAssumption
<1>5. Writes(outputDirs) = [i \in 1..(3 * Bundles - 0) |-> 0 + i]
  <2>1. Cardinality(outputDirs) = Bundles
    BY <1>4, FS_Interval DEF outputDirs
  <2>2. PICK n : n = 3 * Bundles
    OBVIOUS
  <2>3. n \in Nat /\ n - 0 = n /\ \A i \in 1..n : 0 + i = i
    BY <1>4, <2>2
  <2>4. Writes(outputDirs) = [i \in 1..n |-> i]
    BY <2>1, <2>2 DEF Writes
  <2> QED
    BY <2>2, <2>3, <2>4
<1>6. 0 \in 0..(3 * Bundles - 1) /\ \A n \in 1..0 : Done(n, new.copy)'
  BY <1>4
<1>7. Exporting(new)'
  BY <1>1, <1>3, <1>5, <1>6 DEF Exporting, collectAddresses, Readable
<1> QED
  BY <1>2, <1>7 DEF Undisturbed, InStep

-----------------------------------------------------------------------------
(* What a command that goes on can rely on.                                *)

LEMMA DeployFactoryUndisturbed ==
    ASSUME IInv, IInv', NEW p \in Commands, DeployFactory(p),
           NEW old, old = proc[p], NEW new, new = proc'[p], Undisturbed(old)
    PROVE  Undisturbed(new)'
<1>1. /\ new.job = "deploy" /\ old.job = "deploy" /\ new.all = old.all
      /\ new.step = "default" /\ new.copy.factory = Len(factories) + 1
      /\ UNCHANGED Disk
  <2>1. /\ Same(old, new) /\ old.job = "deploy"
        /\ new.step = "default" /\ new.copy.factory = Len(factories) + 1
        /\ UNCHANGED Disk
    BY DeployFactoryDoes
  <2> QED
    BY <2>1 DEF Same
<1>2. ~new.all
  BY <1>1 DEF Undisturbed, InStep, Upgrades
<1>3. InStep(new) /\ Pushed(new)'
  BY <1>1, <1>2 DEF InStep, Upgrades, Pushed
<1>4. last.factory # Len(factories) + 1
  <2>1. Len(factories) \in Nat /\ DOMAIN factories = 1..Len(factories)
    BY DEF IInv, ChainOK
  <2>2. CASE last = NoRecord
    BY <2>1, <2>2 DEF NoRecord, None
  <2>3. CASE last # NoRecord
    <3>1. last.factory \in 1..Len(factories)
      BY <2>1, <2>3 DEF IInv, DiskOK, Real, HasCode
    <3> QED
      BY <2>1, <3>1
  <2> QED
    BY <2>2, <2>3
<1>5. Remembers(new)'
  BY <1>1, <1>4 DEF Remembers, Recorders, Upgrades, Disk
<1> QED
  BY <1>1, <1>2, <1>3, <1>5, PlainUndisturbed DEF Upgrades

LEMMA SetFirstDefaultUndisturbed ==
    ASSUME IInv, IInv', NEW p \in Commands, SetFirstDefault(p),
           NEW old, old = proc[p], NEW new, new = proc'[p], Undisturbed(old)
    PROVE  Undisturbed(new)'
<1>1. /\ new.job = "deploy" /\ old.job = "deploy" /\ new.all = old.all
      /\ old.step = "default" /\ new.step = "write" /\ new.copy = old.copy
      /\ UNCHANGED Disk
  BY SetFirstDefaultDoes DEF Same
<1>2. ~new.all
  BY <1>1 DEF Undisturbed, InStep, Upgrades
<1>3. InStep(new) /\ Pushed(new)'
  BY <1>1, <1>2 DEF InStep, Upgrades, Pushed
<1>4. Remembers(new)'
  BY <1>1 DEF Undisturbed, Remembers, Recorders, Upgrades, Disk
<1> QED
  BY <1>1, <1>2, <1>3, <1>4, PlainUndisturbed DEF Upgrades

LEMMA CreateTokenUndisturbed ==
    ASSUME IInv, IInv', NEW p \in Commands, NEW mined \in BOOLEAN, CreateToken(p, mined),
           NEW old, old = proc[p], NEW new, new = proc'[p], Undisturbed(old)
    PROVE  Undisturbed(new)'
<1>1. /\ new.job = "create-token" /\ old.job = "create-token" /\ new.all = old.all
      /\ new.step = "router" /\ new.copy = old.copy
      /\ UNCHANGED Disk
  BY CreateTokenDoes DEF Same
<1>2. ~new.all
  BY <1>1 DEF Undisturbed, InStep, Upgrades
<1>3. InStep(new) /\ Pushed(new)'
  <2>1. InStep(new)
    BY <1>1, <1>2 DEF InStep, Upgrades
  <2>2. Pushed(new)'
    BY <1>1 DEF Pushed, Ending
  <2> QED
    BY <2>1, <2>2
<1>4. Remembers(new)'
  BY <1>1 DEF Undisturbed, Remembers, Recorded, Disk
<1> QED
  BY <1>1, <1>2, <1>3, <1>4, PlainUndisturbed DEF Upgrades

LEMMA ReadRouterUndisturbed ==
    ASSUME IInv, IInv', NEW p \in Commands, NEW found \in BOOLEAN,
           readOptionalFactoryRouterImplementation(p, found),
           NEW old, old = proc[p], NEW new, new = proc'[p], Undisturbed(old)
    PROVE  Undisturbed(new)'
<1>1. /\ new.job = "create-token" /\ old.job = "create-token" /\ new.all = old.all
      /\ new.step = "hook" /\ new.copy = old.copy
      /\ UNCHANGED Disk
  BY ReadRouterDoes DEF Same
<1>2. ~new.all
  BY <1>1 DEF Undisturbed, InStep, Upgrades
<1>3. InStep(new) /\ Pushed(new)'
  <2>1. InStep(new)
    BY <1>1, <1>2 DEF InStep, Upgrades
  <2>2. Pushed(new)'
    BY <1>1 DEF Pushed, Ending
  <2> QED
    BY <2>1, <2>2
<1>4. Remembers(new)'
  BY <1>1 DEF Undisturbed, Remembers, Recorded, Disk
<1> QED
  BY <1>1, <1>2, <1>3, <1>4, PlainUndisturbed DEF Upgrades

LEMMA ReadHookUndisturbed ==
    ASSUME IInv, IInv', NEW p \in Commands, NEW found \in BOOLEAN,
           readOptionalFactoryHookImplementation(p, found),
           NEW old, old = proc[p], NEW new, new = proc'[p], Undisturbed(old)
    PROVE  Undisturbed(new)'
<1>1. /\ new.job = "create-token" /\ old.job = "create-token" /\ new.all = old.all
      /\ new.step = "write"
      /\ UNCHANGED Disk
  <2>1. Same(old, new) /\ old.job = "create-token" /\ new.step = "write"
    BY ReadHookDoes
  <2>2. UNCHANGED Disk
    BY ReadHookDoes
  <2> QED
    BY <2>1, <2>2 DEF Same
<1>2. ~new.all
  BY <1>1 DEF Undisturbed, InStep, Upgrades
<1>3. InStep(new)
  BY <1>1, <1>2 DEF InStep, Upgrades
<1>5. /\ Recorded(new.copy) = Recorded(old.copy) \cup {new.token.token}
      /\ new.copy.createdTokens # <<>> /\ latestToken(new.copy) = new.token.token
  BY ReadHookDoes
<1>6. Pushed(new)'
  BY <1>5 DEF Pushed, latestToken
<1>7. Remembers(new)'
  <2>1. Recorded(last) \subseteq Recorded(old.copy)
    BY <1>1 DEF Undisturbed, Remembers, Recorders
  <2>2. last' = last
    BY <1>1 DEF Disk
  <2> QED
    BY <1>1, <1>5, <2>1, <2>2 DEF Remembers, Recorded
<1> QED
  BY <1>1, <1>2, <1>3, <1>6, <1>7, PlainUndisturbed DEF Upgrades

LEMMA UpgradeFactoryUndisturbed ==
    ASSUME IInv, IInv', NEW p \in Commands, UpgradeFactory(p),
           NEW old, old = proc[p], NEW new, new = proc'[p], Undisturbed(old)
    PROVE  Undisturbed(new)'
<1>1. /\ new.job = "upgrade-factory" /\ old.job = "upgrade-factory" /\ new.all = old.all
      /\ new.step = "write" /\ new.copy.createdTokens = old.copy.createdTokens
      /\ UNCHANGED Disk
  BY UpgradeFactoryDoes DEF Same
<1>2. ~new.all
  BY <1>1 DEF Undisturbed, InStep, Upgrades
<1>3. InStep(new) /\ Pushed(new)'
  BY <1>1, <1>2 DEF InStep, Upgrades, Pushed
<1>4. Remembers(new)'
  BY <1>1 DEF Undisturbed, Remembers, Recorders, Recorded, Disk
<1> QED
  BY <1>1, <1>2, <1>3, <1>4, PlainUndisturbed DEF Upgrades

LEMMA UpgradeFactoryFirstUndisturbed ==
    ASSUME IInv, IInv', NEW p \in Commands, UpgradeFactoryFirst(p),
           NEW old, old = proc[p], NEW new, new = proc'[p], Undisturbed(old)
    PROVE  Undisturbed(new)'
<1>1. /\ new.job = "upgrade-hook-architecture" /\ old.job = "upgrade-hook-architecture"
      /\ new.all = old.all /\ new.step = "tx2" /\ new.copy = old.copy
      /\ UNCHANGED Disk
  BY UpgradeFactoryFirstDoes DEF Same
<1>2. ~new.all
  BY <1>1 DEF Undisturbed, InStep, Upgrades
<1>3. InStep(new) /\ Pushed(new)'
  BY <1>1, <1>2 DEF InStep, Upgrades, Pushed
<1>4. Remembers(new)'
  BY <1>1 DEF Undisturbed, Remembers, Recorders, Recorded, Disk
<1> QED
  BY <1>1, <1>2, <1>3, <1>4, PlainUndisturbed DEF Upgrades

LEMMA SetArchitectureDefaultUndisturbed ==
    ASSUME IInv, IInv', NEW p \in Commands, SetArchitectureDefault(p),
           NEW old, old = proc[p], NEW new, new = proc'[p], Undisturbed(old)
    PROVE  Undisturbed(new)'
<1>1. /\ new.job = "upgrade-hook-architecture" /\ old.job = "upgrade-hook-architecture"
      /\ new.all = old.all /\ new.step = "write"
      /\ new.copy.createdTokens = old.copy.createdTokens
      /\ UNCHANGED Disk
  BY SetArchitectureDefaultDoes DEF Same
<1>2. ~new.all
  BY <1>1 DEF Undisturbed, InStep, Upgrades
<1>3. InStep(new) /\ Pushed(new)'
  BY <1>1, <1>2 DEF InStep, Upgrades, Pushed
<1>4. Remembers(new)'
  BY <1>1 DEF Undisturbed, Remembers, Recorders, Recorded, Disk
<1> QED
  BY <1>1, <1>2, <1>3, <1>4, PlainUndisturbed DEF Upgrades

LEMMA TruncateUndisturbed ==
    ASSUME IInv, IInv', Exclusive, NEW p \in Commands, Truncate(p),
           NEW old, old = proc[p], NEW new, new = proc'[p], Undisturbed(old)
    PROVE  Undisturbed(new)'
<1>1. /\ new.job = old.job /\ new.all = old.all
      /\ old.step = "write" /\ new.step = "writing"
      /\ new.copy = old.copy /\ new.impl = old.impl /\ new.token = old.token
      /\ UNCHANGED Chain /\ UNCHANGED <<bundle, last>>
  BY TruncateDoes DEF Same
<1>2. InStep(new)
  BY <1>1 DEF Undisturbed, InStep
<1>3. Remembers(new)'
  BY <1>1 DEF Undisturbed, Remembers, Recorded
<1>4. Exporting(new)'
  BY <1>1 DEF Undisturbed, InStep, Upgrades, Exporting
<1>5. Pushed(new)'
  BY <1>1 DEF Undisturbed, Pushed, Ending, latestToken
<1>6. Converging(new)'
  <2>1. Converging(old)
    BY DEF Undisturbed
  <2>2. factories' = factories /\ tokens' = tokens
    BY <1>1 DEF Chain
  <2>3. PICK kind : kind = KindOf(old.job)
    OBVIOUS
  <2>4. KindOf(new.job) = kind /\ new.step \in Ending /\ old.step \in Ending /\ old.step # "tx"
    BY <1>1, <2>3 DEF Ending
  <2> QED
    BY <1>1, <2>1, <2>2, <2>3, <2>4 DEF Converging, UpgradedTo
<1>7. Newest(new)'
  BY <1>1 DEF Undisturbed, Newest, Chain
<1> QED
  BY <1>2, <1>3, <1>4, <1>5, <1>6, <1>7 DEF Undisturbed, InStep

(***************************************************************************)
(* One launch after the other leaves the list, upgraded.                   *)
(***************************************************************************)
LEMMA ListShrinks ==
    ASSUME NEW todo \in Seq(Nat), NEW t, Listed(todo, t), t # todo[1]
    PROVE  Len(todo) > 1 /\ Listed(Tail(todo), t)
<1>1. PICK len : len = Len(todo)
  OBVIOUS
<1>2. PICK i \in DOMAIN todo : todo[i] = t
  BY DEF Listed
<1>3. len \in Nat /\ i \in 1..len /\ i # 1 /\ todo # <<>>
  BY <1>1, <1>2
<1>4. PICK rest : rest = Tail(todo)
  OBVIOUS
<1>5. /\ Len(rest) = len - 1 /\ DOMAIN rest = 1..(len - 1)
      /\ \A j \in 1..(len - 1) : rest[j] = todo[j + 1]
  BY <1>1, <1>3, <1>4, HeadTailProperties
<1>6. PICK j : j = i - 1
  OBVIOUS
<1>7. len > 1 /\ j \in 1..(len - 1) /\ j + 1 = i
  BY <1>3, <1>6
<1>8. rest[j] = t
  BY <1>2, <1>5, <1>7
<1> QED
  BY <1>1, <1>4, <1>5, <1>7, <1>8 DEF Listed

LEMMA UpgradeProxyUndisturbed ==
    ASSUME IInv, IInv', NEW p \in Commands, NEW job \in Upgrades, UpgradeProxy(p, job),
           NEW old, old = proc[p], NEW new, new = proc'[p], Undisturbed(old)
    PROVE  Undisturbed(new)'
<1>1. PICK kind : kind = KindOf(job)
  OBVIOUS
<1>2. PICK one : one = old.todo[1]
  OBVIOUS
<1>3. /\ Same(old, new) /\ old.job = job /\ old.step = "tx" /\ new.impl = old.impl
      /\ new.step = IF Len(old.todo) > 1 THEN "tx" ELSE AfterUpgrades(old.all)
      /\ new.todo = Tail(old.todo)
      /\ old.todo \in Seq(Nat) /\ old.todo # <<>>
      /\ old.copy \in Deployments /\ old.impl \in Nat /\ old.all \in BOOLEAN
      /\ one \in DOMAIN tokens /\ kind \in Kinds
      /\ UNCHANGED factories /\ UNCHANGED Disk
  <2>1. ProxyUpgraded(job, KindOf(job), old.todo[1], old, new)
    BY UpgradeProxyDoes
  <2>2. Same(old, new) /\ UNCHANGED factories /\ UNCHANGED Disk
    BY UpgradeProxyDoes
  <2> QED
    BY <1>1, <1>2, <2>1, <2>2 DEF ProxyUpgraded
<1>4. new.copy = IF old.all THEN old.copy
                 ELSE ApplyMetadata(old.copy, kind, {one}, FALSE, old.impl)
  <2>1. ProxyUpgraded(job, KindOf(job), old.todo[1], old, new)
    BY UpgradeProxyDoes
  <2> QED
    BY <1>1, <1>2, <2>1 DEF ProxyUpgraded
<1>5. /\ DOMAIN tokens' = DOMAIN tokens
      /\ \A t \in DOMAIN tokens : tokens'[t].impl[kind] =
            IF t = one THEN old.impl ELSE tokens[t].impl[kind]
  <2>1. ProxyUpgraded(job, KindOf(job), old.todo[1], old, new)
    BY UpgradeProxyDoes
  <2> QED
    BY <1>1, <1>2, <1>3, <2>1 DEF ProxyUpgraded
<1>6. new.job = job /\ new.all = old.all
  BY <1>3 DEF Same
<1>7. /\ job # "idle" /\ job # "create-token" /\ job # "export" /\ job # "deploy"
      /\ job # "rewrite"
  BY DEF Upgrades
<1>8. /\ new.step \in {"tx", "default", "write"}
      /\ new.step = "default" => old.all
      /\ old.all => new.step \notin Ending
      /\ Len(old.todo) > 1 => new.step = "tx"
  BY <1>3 DEF AfterUpgrades, Ending
<1>9. InStep(new) /\ Pushed(new)' /\ Exporting(new)'
  BY <1>6, <1>7, <1>8 DEF InStep, Pushed, Exporting
<1>10. Recorded(new.copy) = Recorded(old.copy)
  <2>1. CASE old.all
    BY <1>4, <2>1
  <2>2. CASE ~old.all
    <3>1. PICK r \in Deployments : r = old.copy
      BY <1>3
    <3>2. new.copy = ApplyMetadata(r, kind, {one}, FALSE, old.impl)
      BY <1>4, <2>2, <3>1
    <3>3. MetadataApplied(r, kind, {one}, FALSE, old.impl, new.copy)
      BY <1>3, <3>2, MetadataDoes
    <3> QED
      BY <3>1, <3>3 DEF MetadataApplied
  <2> QED
    BY <2>1, <2>2
<1>11. Remembers(new)'
  <2>1. Recorded(last) \subseteq Recorded(old.copy)
    BY <1>3 DEF Undisturbed, Remembers, Recorders
  <2>2. last' = last
    BY <1>3 DEF Disk
  <2> QED
    BY <1>6, <1>7, <1>10, <2>1, <2>2 DEF Remembers, Recorded
<1>12. Newest(new)'
  BY <1>3, <1>6 DEF Undisturbed, Newest
<1>13. Converging(new)'
  <2>1. SUFFICES ASSUME old.all
                 PROVE  Converging(new)'
    BY <1>6 DEF Converging
  <2>2. /\ old.copy.createdTokens # <<>>
        /\ \A t \in Recorded(old.copy) :
              \/ tokens[t].impl[kind] = old.impl
              \/ Listed(old.todo, t)
    BY <1>1, <1>3, <2>1 DEF Undisturbed, Converging, UpgradedTo
  <2>3. new.copy = old.copy
    BY <1>4, <2>1
  <2>4. Recorded(old.copy) \subseteq DOMAIN tokens
    <3>1. Sound(old)
      BY RunOf
    <3> QED
      BY <1>3, <3>1 DEF Sound, Copied, Recorders, Fine, HasCode
  <2>5. ASSUME NEW t \in Recorded(old.copy)
        PROVE  \/ tokens'[t].impl[kind] = new.impl
               \/ new.step = "tx" /\ Listed(new.todo, t)
    <3>1. CASE t = one
      BY <1>3, <1>5, <2>4, <3>1
    <3>2. CASE t # one /\ tokens[t].impl[kind] = old.impl
      BY <1>3, <1>5, <2>4, <3>2
    <3>3. CASE t # one /\ Listed(old.todo, t)
      BY <1>2, <1>3, <1>8, <3>3, ListShrinks
    <3> QED
      BY <2>2, <3>1, <3>2, <3>3
  <2>6. KindOf(new.job) = kind
    BY <1>1, <1>6
  <2>7. \A t \in Recorded(new.copy)' :
           \/ UpgradedTo(new, t)'
           \/ new.step = "tx" /\ Listed(new.todo, t)
    BY <2>3, <2>5, <2>6 DEF UpgradedTo, Recorded
  <2> QED
    BY <1>8, <2>1, <2>2, <2>3, <2>7 DEF Converging
<1> QED
  BY <1>9, <1>11, <1>12, <1>13 DEF Undisturbed, InStep

LEMMA SetDefaultUndisturbed ==
    ASSUME IInv, IInv', NEW p \in Commands, NEW job \in Upgrades, SetDefault(p, job),
           NEW old, old = proc[p], NEW new, new = proc'[p], Undisturbed(old)
    PROVE  Undisturbed(new)'
<1>1. PICK kind : kind = KindOf(job)
  OBVIOUS
<1>2. /\ Same(old, new) /\ old.job = job /\ old.step = "default" /\ new.step = "write"
      /\ new.impl = old.impl
      /\ new.copy = ApplyMetadata(old.copy, kind, {}, TRUE, old.impl)
      /\ old.copy \in Deployments /\ old.impl \in Nat /\ kind \in Kinds
      /\ old.copy.factory \in DOMAIN factories
      /\ UNCHANGED tokens /\ UNCHANGED Disk
  <2>1. DefaultChanged(job, KindOf(job), old, new)
    BY SetDefaultDoes
  <2>2. Same(old, new) /\ UNCHANGED tokens /\ UNCHANGED Disk
    BY SetDefaultDoes
  <2> QED
    BY <1>1, <2>1, <2>2 DEF DefaultChanged
<1>3. /\ DOMAIN factories' = DOMAIN factories
      /\ \A g \in DOMAIN factories :
            /\ factories'[g].impl = factories[g].impl
            /\ \A k \in Kinds : factories'[g].default[k] =
                  IF g = old.copy.factory /\ k = kind THEN old.impl
                  ELSE factories[g].default[k]
  <2>1. DefaultChanged(job, KindOf(job), old, new)
    BY SetDefaultDoes
  <2>2. Same(old, new) /\ UNCHANGED tokens /\ UNCHANGED Disk
    BY SetDefaultDoes
  <2> QED
    BY <1>1, <2>1, <2>2 DEF DefaultChanged
<1>4. new.job = job /\ new.all = old.all
  BY <1>2 DEF Same
<1>5. /\ job # "idle" /\ job # "create-token" /\ job # "export" /\ job # "deploy"
      /\ job # "rewrite"
  BY DEF Upgrades
<1>6. InStep(new) /\ Pushed(new)' /\ Exporting(new)'
  BY <1>2, <1>4, <1>5 DEF InStep, Pushed, Exporting
<1>7. /\ new.copy.factory = old.copy.factory /\ new.copy.default[kind] = old.impl
      /\ DOMAIN new.copy.createdTokens = DOMAIN old.copy.createdTokens
      /\ \A i \in DOMAIN old.copy.createdTokens :
            new.copy.createdTokens[i].impl[kind] = old.impl
      /\ Recorded(new.copy) = Recorded(old.copy)
  <2>1. PICK r \in Deployments : r = old.copy
    BY <1>2
  <2>2. new.copy = ApplyMetadata(r, kind, {}, TRUE, old.impl)
    BY <1>2, <2>1
  <2>3. MetadataApplied(r, kind, {}, TRUE, old.impl, new.copy)
    BY <1>2, <2>2, MetadataDoes
  <2> QED
    BY <1>2, <2>1, <2>3 DEF MetadataApplied
<1>8. Remembers(new)'
  <2>1. Recorded(last) \subseteq Recorded(old.copy)
    BY <1>2 DEF Undisturbed, Remembers, Recorders
  <2>2. last' = last
    BY <1>2 DEF Disk
  <2> QED
    BY <1>4, <1>5, <1>7, <2>1, <2>2 DEF Remembers, Recorded
<1>9. Newest(new)'
  <2>1. \A f \in DOMAIN factories, k \in Kinds : factories[f].default[k] <= old.impl
    BY <1>2 DEF Undisturbed, Newest
  <2>2. ASSUME NEW f \in DOMAIN factories, NEW k \in Kinds
        PROVE  factories'[f].default[k] <= old.impl
    BY <1>2, <1>3, <2>1
  <2> QED
    BY <1>2, <1>3, <1>4, <2>2 DEF Newest
<1>10. Converging(new)'
  <2>1. old.all
    BY <1>2 DEF Undisturbed, InStep
  <2>2. /\ old.copy.createdTokens # <<>>
        /\ \A t \in Recorded(old.copy) : tokens[t].impl[kind] = old.impl
    BY <1>1, <1>2, <2>1 DEF Undisturbed, Converging, UpgradedTo
  <2>3. KindOf(new.job) = kind
    BY <1>1, <1>4
  <2>4. new.copy.createdTokens # <<>>
    <3>1. Len(old.copy.createdTokens) >= 1
      BY <1>2, <2>2 DEF Deployments
    <3>2. 1 \in DOMAIN old.copy.createdTokens
      BY <1>2, <3>1 DEF Deployments
    <3> QED
      BY <1>7, <3>2
  <2>5. \A t \in Recorded(new.copy)' : UpgradedTo(new, t)'
    BY <1>2, <1>7, <2>2, <2>3 DEF UpgradedTo, Recorded
  <2>6. factories'[new.copy.factory].default[kind] = new.impl
    BY <1>2, <1>3, <1>7
  <2>7. /\ new.copy.default[kind] = new.impl
        /\ \A i \in DOMAIN new.copy.createdTokens :
              new.copy.createdTokens[i].impl[kind] = new.impl
    BY <1>2, <1>7
  <2> QED
    BY <2>3, <2>4, <2>5, <2>6, <2>7 DEF Converging
<1> QED
  BY <1>6, <1>8, <1>9, <1>10 DEF Undisturbed, InStep

(***************************************************************************)
(* To write a file of a directory again, or another one, leaves the file   *)
(* as it was written.                                                      *)
(***************************************************************************)
LEMMA WriteFileLasts ==
    ASSUME NEW dir \in Directories, NEW r, NEW m \in Nat, NEW n \in Nat,
           n = m \/ WriteFile(dir, n, r) = dir,
           NEW after, after = WriteFile(dir, m, r)
    PROVE  WriteFile(after, n, r) = after
<1>1. PICK json : json = Snapshot(r)
  OBVIOUS
<1>2. PICK ts : ts = renderAddressesTs(r)
  OBVIOUS
<1>3. PICK readme : readme = renderReadme(r)
  OBVIOUS
<1>4. \A d, i : WriteFile(d, i, r) = CASE i % 3 = 1 -> [d EXCEPT !.json = json]
                                       [] i % 3 = 2 -> [d EXCEPT !.ts = ts]
                                       [] i % 3 = 0 -> [d EXCEPT !.readme = readme]
  BY <1>1, <1>2, <1>3 DEF WriteFile
<1>5. n % 3 \in {0, 1, 2} /\ m % 3 \in {0, 1, 2}
  OBVIOUS
<1>6. dir = [json |-> dir.json, ts |-> dir.ts, readme |-> dir.readme]
  BY DEF Directories
<1>7. CASE m % 3 = 1
  <2>1. after = [json |-> json, ts |-> dir.ts, readme |-> dir.readme]
    BY <1>4, <1>6, <1>7
  <2>2. CASE n % 3 = 1
    BY <1>4, <2>1, <2>2
  <2>3. CASE n % 3 = 2
    <3>1. dir.ts = ts
      BY <1>4, <1>6, <1>7, <2>3
    <3> QED
      BY <1>4, <2>1, <2>3, <3>1
  <2>4. CASE n % 3 = 0
    <3>1. dir.readme = readme
      BY <1>4, <1>6, <1>7, <2>4
    <3> QED
      BY <1>4, <2>1, <2>4, <3>1
  <2> QED
    BY <1>5, <2>2, <2>3, <2>4
<1>8. CASE m % 3 = 2
  <2>1. after = [json |-> dir.json, ts |-> ts, readme |-> dir.readme]
    BY <1>4, <1>6, <1>8
  <2>2. CASE n % 3 = 2
    BY <1>4, <2>1, <2>2
  <2>3. CASE n % 3 = 1
    <3>1. dir.json = json
      BY <1>4, <1>6, <1>8, <2>3
    <3> QED
      BY <1>4, <2>1, <2>3, <3>1
  <2>4. CASE n % 3 = 0
    <3>1. dir.readme = readme
      BY <1>4, <1>6, <1>8, <2>4
    <3> QED
      BY <1>4, <2>1, <2>4, <3>1
  <2> QED
    BY <1>5, <2>2, <2>3, <2>4
<1>9. CASE m % 3 = 0
  <2>1. after = [json |-> dir.json, ts |-> dir.ts, readme |-> readme]
    BY <1>4, <1>6, <1>9
  <2>2. CASE n % 3 = 0
    BY <1>4, <2>1, <2>2
  <2>3. CASE n % 3 = 1
    <3>1. dir.json = json
      BY <1>4, <1>6, <1>9, <2>3
    <3> QED
      BY <1>4, <2>1, <2>3, <3>1
  <2>4. CASE n % 3 = 2
    <3>1. dir.ts = ts
      BY <1>4, <1>6, <1>9, <2>4
    <3> QED
      BY <1>4, <2>1, <2>4, <3>1
  <2> QED
    BY <1>5, <2>2, <2>3, <2>4
<1> QED
  BY <1>5, <1>7, <1>8, <1>9

LEMMA DirectoryType ==
    ASSUME NEW n \in 1..(3 * Bundles)
    PROVE  Directory(n) \in 1..Bundles
<1>1. Bundles \in Nat /\ n \in Nat /\ 1 <= n /\ n <= 3 * Bundles
  BY BoundsAssumption
<1>2. (n + 2) \div 3 >= 1 /\ (n + 2) \div 3 <= Bundles /\ (n + 2) \div 3 \in Int
  BY <1>1
<1> QED
  BY <1>1, <1>2 DEF Directory

(***************************************************************************)
(* The files that an export has written stay as they are while it writes   *)
(* the next one.                                                           *)
(***************************************************************************)
LEMMA NextFileDone ==
    ASSUME bundle \in [1..Bundles -> Directories], NEW r,
           NEW k \in 0..(3 * Bundles - 1), \A n \in 1..k : Done(n, r),
           bundle' = [bundle EXCEPT ![Directory(k + 1)] = WriteFile(@, k + 1, r)],
           NEW n \in 1..(k + 1)
    PROVE  Done(n, r)'
<1>1. Bundles \in Nat
  BY BoundsAssumption
<1>2. PICK m : m = k + 1
  OBVIOUS
<1>3. m \in 1..(3 * Bundles) /\ n \in 1..(3 * Bundles) /\ (n = m \/ n \in 1..k)
  BY <1>1, <1>2
<1>4. Directory(m) \in 1..Bundles /\ Directory(n) \in 1..Bundles
  BY <1>3, DirectoryType
<1>5. PICK written : written = WriteFile(bundle[Directory(m)], m, r)
  OBVIOUS
<1>6. bundle' = [bundle EXCEPT ![Directory(m)] = written]
  BY <1>2, <1>5
<1>7. CASE Directory(n) = Directory(m)
  <2>1. bundle'[Directory(n)] = written
    BY <1>4, <1>6, <1>7
  <2>2. PICK dir \in Directories : dir = bundle[Directory(n)]
    BY <1>4
  <2>3. n = m \/ WriteFile(dir, n, r) = dir
    BY <1>3, <2>2 DEF Done
  <2>4. written = WriteFile(dir, m, r) /\ m \in Nat /\ n \in Nat
    BY <1>3, <1>5, <1>7, <2>2
  <2>5. WriteFile(written, n, r) = written
    BY <2>3, <2>4, WriteFileLasts
  <2> QED
    BY <2>1, <2>5 DEF Done
<1>8. CASE Directory(n) # Directory(m)
  <2>1. bundle'[Directory(n)] = bundle[Directory(n)]
    BY <1>4, <1>6, <1>8
  <2>2. n \in 1..k
    BY <1>3, <1>8
  <2> QED
    BY <2>1, <2>2 DEF Done
<1> QED
  BY <1>7, <1>8

(***************************************************************************)
(* A directory whose three files say what the record says is up to date.   *)
(***************************************************************************)
AllWritten(directories, r) ==
    \A n \in 1..(3 * Bundles) :
        WriteFile(directories[Directory(n)], n, r) = directories[Directory(n)]

LEMMA AllDone ==
    ASSUME NEW directories \in [1..Bundles -> Directories], NEW r,
           AllWritten(directories, r), NEW d \in 1..Bundles
    PROVE  directories[d] = Rendered(r)
<1>1. Bundles \in Nat /\ d \in Nat /\ d >= 1 /\ d <= Bundles
  BY BoundsAssumption
<1>2. PICK dir \in Directories : dir = directories[d]
  OBVIOUS
<1>3. dir = [json |-> dir.json, ts |-> dir.ts, readme |-> dir.readme]
  BY DEF Directories
<1>4. ASSUME NEW n \in 1..(3 * Bundles), (n + 2) \div 3 = d
      PROVE  WriteFile(dir, n, r) = dir
  BY <1>2, <1>4 DEF AllWritten, Directory
<1>5. dir.json = Snapshot(r)
  <2>1. PICK n : n = 3 * d - 2
    OBVIOUS
  <2>2. n \in 1..(3 * Bundles) /\ (n + 2) \div 3 = d /\ n % 3 = 1
    BY <1>1, <2>1
  <2>3. WriteFile(dir, n, r) = dir
    BY <1>4, <2>2
  <2>4. [dir EXCEPT !.json = Snapshot(r)] = dir
    BY <2>2, <2>3 DEF WriteFile
  <2> QED
    BY <2>4 DEF Directories
<1>6. dir.ts = renderAddressesTs(r)
  <2>1. PICK n : n = 3 * d - 1
    OBVIOUS
  <2>2. n \in 1..(3 * Bundles) /\ (n + 2) \div 3 = d /\ n % 3 = 2
    BY <1>1, <2>1
  <2>3. WriteFile(dir, n, r) = dir
    BY <1>4, <2>2
  <2>4. [dir EXCEPT !.ts = renderAddressesTs(r)] = dir
    BY <2>2, <2>3 DEF WriteFile
  <2> QED
    BY <2>4 DEF Directories
<1>7. dir.readme = renderReadme(r)
  <2>1. PICK n : n = 3 * d
    OBVIOUS
  <2>2. n \in 1..(3 * Bundles) /\ (n + 2) \div 3 = d /\ n % 3 = 0
    BY <1>1, <2>1
  <2>3. WriteFile(dir, n, r) = dir
    BY <1>4, <2>2
  <2>4. [dir EXCEPT !.readme = renderReadme(r)] = dir
    BY <2>2, <2>3 DEF WriteFile
  <2> QED
    BY <2>4 DEF Directories
<1> QED
  BY <1>2, <1>3, <1>5, <1>6, <1>7 DEF Rendered

LEMMA ExportUndisturbed ==
    ASSUME IInv, IInv', NEW p \in Commands, Export(p),
           NEW old, old = proc[p], NEW new, new = proc'[p], Undisturbed(old)
    PROVE  /\ new.job # "idle" => Undisturbed(new)'
           /\ Len(old.todo) = 1 =>
                 \A d \in 1..Bundles : bundle'[d] = Rendered(collectAddresses(file))
<1>1. Exported(old.todo[1], old, new) /\ UNCHANGED Chain /\ file' = file /\ last' = last
  <2>1. UNCHANGED Chain /\ UNCHANGED <<file, last>>
    BY ExportDoes
  <2>2. Exported(old.todo[1], old, new)
    BY ExportDoes
  <2> QED
    BY <2>1, <2>2
<1>2. old.job = "export" /\ old.step = "tx"
  BY <1>1 DEF Exported
<1>3. PICK r : r = collectAddresses(file)
  OBVIOUS
<1>4. old.copy = r
  BY <1>2, <1>3 DEF Undisturbed, Exporting
<1>5. PICK k \in 0..(3 * Bundles - 1) :
         /\ old.todo = [i \in 1..(3 * Bundles - k) |-> k + i]
         /\ \A n \in 1..k : Done(n, r)
  BY <1>2, <1>4 DEF Undisturbed, Exporting
<1>6. PICK all : all = 3 * Bundles
  OBVIOUS
<1>7. Bundles \in Nat /\ all \in Nat /\ k \in Nat /\ k < all /\ all - k \in Nat
  BY <1>6, BoundsAssumption
<1>8. old.todo[1] = k + 1 /\ Len(old.todo) = all - k
  <2>1. 1 \in 1..(all - k)
    BY <1>7
  <2>2. old.todo \in Seq(Nat) /\ DOMAIN old.todo = 1..(all - k)
    BY <1>1, <1>5, <1>6 DEF Exported
  <2>3. Len(old.todo) = all - k
    BY <1>7, <2>2, LenProperties
  <2> QED
    BY <1>5, <1>6, <2>1, <2>3
<1>9. bundle' = [bundle EXCEPT ![Directory(k + 1)] = WriteFile(@, k + 1, r)]
  BY <1>1, <1>4, <1>8 DEF Exported
<1>10. bundle \in [1..Bundles -> Directories] /\ bundle' \in [1..Bundles -> Directories]
  BY DEF IInv, DiskOK
<1>11. \A n \in 1..(k + 1) : Done(n, r)'
  BY <1>5, <1>9, <1>10, NextFileDone
<1>12. ASSUME Len(old.todo) = 1
       PROVE  \A d \in 1..Bundles : bundle'[d] = Rendered(r)
  <2>1. k + 1 = 3 * Bundles
    <3>1. all - k = 1
      BY <1>8, <1>12
    <3>2. k + 1 = all
      BY <1>7, <3>1
    <3> QED
      BY <1>6, <3>2
  <2>2. PICK directories \in [1..Bundles -> Directories] : directories = bundle'
    BY <1>10
  <2>3. AllWritten(directories, r)
    BY <1>11, <2>1, <2>2 DEF Done, AllWritten
  <2>4. \A d \in 1..Bundles : directories[d] = Rendered(r)
    BY <2>3, AllDone
  <2> QED
    BY <2>2, <2>4
<1>13. ASSUME new.job # "idle"
       PROVE  Undisturbed(new)'
  <2>1. /\ new.job = "export" /\ new.all = old.all /\ new.step = "tx" /\ new.copy = r
        /\ new.todo = Tail(old.todo) /\ Len(old.todo) # 1
    BY <1>1, <1>2, <1>4, <1>13 DEF Exported, Same, Idle
  <2>2. ~new.all
    BY <1>2, <2>1 DEF Undisturbed, InStep, Upgrades
  <2>3. InStep(new) /\ Remembers(new)' /\ Pushed(new)' /\ Converging(new)' /\ Newest(new)'
    BY <2>1, <2>2 DEF InStep, Remembers, Recorders, Upgrades, Pushed, Converging, Newest
  <2>4. PICK m : m = k + 1
    OBVIOUS
  <2>5. m \in 0..(3 * Bundles - 1) /\ all - m \in Nat
    BY <1>6, <1>7, <1>8, <2>1, <2>4
  <2>6. new.todo = [i \in 1..(3 * Bundles - m) |-> m + i]
    <3>1. PICK todo : todo = old.todo
      OBVIOUS
    <3>2. PICK rest : rest = Tail(todo)
      OBVIOUS
    <3>3. todo \in Seq(Nat) /\ todo # <<>> /\ Len(todo) = all - k
      BY <1>1, <1>8, <3>1 DEF Exported
    <3>4. /\ rest \in Seq(Nat) /\ Len(rest) = (all - k) - 1
          /\ \A i \in 1..((all - k) - 1) : rest[i] = todo[i + 1]
      BY <3>2, <3>3, HeadTailProperties
    <3>5. (all - k) - 1 = all - m
      BY <1>7, <2>4
    <3>6. DOMAIN rest = 1..(all - m) /\ rest = [i \in DOMAIN rest |-> rest[i]]
      BY <2>5, <3>4, <3>5
    <3>7. ASSUME NEW i \in 1..(all - m)
          PROVE  rest[i] = m + i
      <4>1. i + 1 \in 1..(all - k) /\ k + (i + 1) = m + i
        BY <1>7, <2>4, <3>5
      <4>2. todo[i + 1] = k + (i + 1)
        BY <1>5, <1>6, <3>1, <4>1
      <4> QED
        BY <3>4, <3>5, <4>1, <4>2
    <3>8. rest = [i \in 1..(all - m) |-> m + i]
      BY <3>6, <3>7
    <3> QED
      BY <1>6, <2>1, <3>1, <3>2, <3>8
  <2>7. \A n \in 1..m : Done(n, new.copy)'
    BY <1>11, <2>1, <2>4
  <2>8. new.copy = collectAddresses(file')
    BY <1>1, <1>3, <2>1
  <2>9. Exporting(new)'
    BY <2>5, <2>6, <2>7, <2>8 DEF Exporting, collectAddresses, Readable
  <2> QED
    BY <2>3, <2>9 DEF Undisturbed, InStep
<1> QED
  BY <1>3, <1>12, <1>13

-----------------------------------------------------------------------------
(* The first layer is inductive.                                           *)

LEMMA AloneBefore ==
    ASSUME AInv, NEW p \in Commands, Goes(p), proc'[p].job # "idle", proc'[p].alone, IInv
    PROVE  Undisturbed(proc[p])
<1>1. PICK run \in Processes :
         proc' = [proc EXCEPT ![p] = run] /\ (run = Idle \/ Same(proc[p], run))
  BY DEF Goes
<1>2. proc'[p] = run
  BY <1>1 DEF IInv, ProcOK
<1>3. run # Idle
  BY <1>2 DEF Idle
<1>4. proc[p].alone
  BY <1>1, <1>2, <1>3 DEF Same
<1> QED
  BY <1>4 DEF Goes, AInv

LEMMA ActorUndisturbed ==
    ASSUME IInv, IInv', AInv, NEW p \in Commands, Command(p),
           NEW new, new = proc'[p], new.job # "idle", new.alone
    PROVE  Undisturbed(new)'
<1>1. Exclusive /\ FileIsLast
  BY DEF AInv
<1>2. PICK old : old = proc[p]
  OBVIOUS
<1>3. Goes(p) => Undisturbed(old)
  BY <1>2, AloneBefore
<1>4. CASE deploy(p)
  <2>1. CASE StartDeploy(p)
    BY <2>1, StartDeployUndisturbed
  <2>2. CASE DeployFactory(p)
    <3>1. Goes(p)
      BY <2>2, DeployFactoryDoes
    <3> QED
      BY <1>2, <1>3, <2>2, <3>1, DeployFactoryUndisturbed
  <2>3. CASE SetFirstDefault(p)
    <3>1. Goes(p)
      BY <2>3, SetFirstDefaultDoes
    <3> QED
      BY <1>2, <1>3, <2>3, <3>1, SetFirstDefaultUndisturbed
  <2> QED
    BY <1>4, <2>1, <2>2, <2>3 DEF deploy
<1>5. CASE StartRewrite(p)
  BY <1>1, <1>5, StartRewriteUndisturbed
<1>6. CASE createToken(p)
  <2>1. CASE StartCreate(p)
    BY <1>1, <2>1, StartCreateUndisturbed
  <2>2. ASSUME NEW mined \in BOOLEAN, CreateToken(p, mined)
        PROVE  Undisturbed(new)'
    <3>1. Goes(p)
      BY <2>2, CreateTokenDoes
    <3> QED
      BY <1>2, <1>3, <2>2, <3>1, CreateTokenUndisturbed
  <2>3. ASSUME NEW found \in BOOLEAN, readOptionalFactoryRouterImplementation(p, found)
        PROVE  Undisturbed(new)'
    <3>1. Goes(p)
      BY <2>3, ReadRouterDoes
    <3> QED
      BY <1>2, <1>3, <2>3, <3>1, ReadRouterUndisturbed
  <2>4. ASSUME NEW found \in BOOLEAN, readOptionalFactoryHookImplementation(p, found)
        PROVE  Undisturbed(new)'
    <3>1. Goes(p)
      BY <2>4, ReadHookDoes
    <3> QED
      BY <1>2, <1>3, <2>4, <3>1, ReadHookUndisturbed
  <2> QED
    BY <1>6, <2>1, <2>2, <2>3, <2>4 DEF createToken
<1>7. ASSUME NEW job \in Upgrades, Upgrade(p, job)
      PROVE  Undisturbed(new)'
  <2>1. ASSUME NEW all \in BOOLEAN, StartUpgrade(p, job, all)
        PROVE  Undisturbed(new)'
    BY <1>1, <2>1, StartUpgradeUndisturbed
  <2>2. CASE UpgradeProxy(p, job)
    <3>1. Goes(p)
      BY <2>2, UpgradeProxyDoes
    <3> QED
      BY <1>2, <1>3, <2>2, <3>1, UpgradeProxyUndisturbed
  <2>3. CASE SetDefault(p, job)
    <3>1. Goes(p)
      BY <2>3, SetDefaultDoes
    <3> QED
      BY <1>2, <1>3, <2>3, <3>1, SetDefaultUndisturbed
  <2> QED
    BY <1>7, <2>1, <2>2, <2>3 DEF Upgrade
<1>8. CASE upgradeHooks(p) \/ upgradeRouters(p)
  BY <1>7, <1>8 DEF upgradeHooks, upgradeRouters, Upgrades
<1>9. CASE upgradeFactory(p)
  <2>1. CASE StartFactoryUpgrade(p)
    BY <1>1, <2>1, StartFactoryUpgradeUndisturbed
  <2>2. CASE UpgradeFactory(p)
    <3>1. Goes(p)
      BY <2>2, UpgradeFactoryDoes
    <3> QED
      BY <1>2, <1>3, <2>2, <3>1, UpgradeFactoryUndisturbed
  <2> QED
    BY <1>9, <2>1, <2>2 DEF upgradeFactory
<1>10. CASE upgradeHookArchitecture(p)
  <2>1. CASE StartArchitectureUpgrade(p)
    BY <1>1, <2>1, StartArchitectureUpgradeUndisturbed
  <2>2. CASE UpgradeFactoryFirst(p)
    <3>1. Goes(p)
      BY <2>2, UpgradeFactoryFirstDoes
    <3> QED
      BY <1>2, <1>3, <2>2, <3>1, UpgradeFactoryFirstUndisturbed
  <2>3. CASE SetArchitectureDefault(p)
    <3>1. Goes(p)
      BY <2>3, SetArchitectureDefaultDoes
    <3> QED
      BY <1>2, <1>3, <2>3, <3>1, SetArchitectureDefaultUndisturbed
  <2> QED
    BY <1>10, <2>1, <2>2, <2>3 DEF upgradeHookArchitecture
<1>11. CASE exportAbis(p)
  <2>1. CASE StartExport(p)
    BY <2>1, StartExportUndisturbed
  <2>2. CASE Export(p)
    <3>1. Goes(p)
      BY <2>2, ExportDoes
    <3> QED
      BY <1>2, <1>3, <2>2, <3>1, ExportUndisturbed
  <2> QED
    BY <1>11, <2>1, <2>2 DEF exportAbis
<1>12. CASE Truncate(p)
  <2>1. Goes(p)
    BY <1>1, <1>12, TruncateDoes
  <2> QED
    BY <1>1, <1>2, <1>3, <1>12, <2>1, TruncateUndisturbed
<1>13. CASE writeDeployment(p)
  <2>1. new = Idle
    BY <1>1, <1>2, <1>13, WriteDoes
  <2> QED
    BY <2>1 DEF Idle
<1>14. CASE Stop(p)
  <2>1. new = Idle
    BY <1>14, StopDoes
  <2> QED
    BY <2>1 DEF Idle
<1> QED
  BY <1>4, <1>5, <1>6, <1>8, <1>9, <1>10, <1>11, <1>12, <1>13, <1>14 DEF Command

(***************************************************************************)
(* Only the end of a command touches the record, only an export the        *)
(* directories.                                                            *)
(***************************************************************************)
LEMMA DiskActs ==
    ASSUME IInv, IInv', Exclusive, NEW p \in Commands, Command(p)
    PROVE  /\ \/ UNCHANGED <<file, last>>
              \/ file' = NoRecord /\ last' = last
              \/ writeDeployment(p)
           /\ bundle' = bundle \/ Export(p)
<1>1. ASSUME UNCHANGED Disk
      PROVE  UNCHANGED <<file, last>> /\ bundle' = bundle
  BY <1>1 DEF Disk
<1>2. CASE deploy(p)
  BY <1>1, <1>2, StartDeployDoes, DeployFactoryDoes, SetFirstDefaultDoes DEF deploy
<1>3. CASE StartRewrite(p)
  BY <1>1, <1>3, StartRewriteDoes
<1>4. CASE createToken(p)
  <2>1. CASE StartCreate(p)
    BY <1>1, <2>1, StartCreateDoes
  <2>2. ASSUME NEW mined \in BOOLEAN, CreateToken(p, mined)
        PROVE  UNCHANGED Disk
    BY <2>2, CreateTokenDoes
  <2>3. ASSUME NEW found \in BOOLEAN,
               \/ readOptionalFactoryRouterImplementation(p, found)
               \/ readOptionalFactoryHookImplementation(p, found)
        PROVE  UNCHANGED Disk
    BY <2>3, ReadRouterDoes, ReadHookDoes
  <2> QED
    BY <1>1, <1>4, <2>1, <2>2, <2>3 DEF createToken
<1>5. ASSUME NEW job \in Upgrades, Upgrade(p, job)
      PROVE  UNCHANGED Disk
  <2>1. ASSUME NEW all \in BOOLEAN, StartUpgrade(p, job, all)
        PROVE  UNCHANGED Disk
    BY <2>1, StartUpgradeDoes
  <2>2. CASE UpgradeProxy(p, job)
    BY <2>2, UpgradeProxyDoes
  <2>3. CASE SetDefault(p, job)
    BY <2>3, SetDefaultDoes
  <2> QED
    BY <1>5, <2>1, <2>2, <2>3 DEF Upgrade
<1>6. CASE upgradeHooks(p) \/ upgradeRouters(p)
  BY <1>1, <1>5, <1>6 DEF upgradeHooks, upgradeRouters, Upgrades
<1>7. CASE upgradeFactory(p)
  BY <1>1, <1>7, StartFactoryUpgradeDoes, UpgradeFactoryDoes DEF upgradeFactory
<1>8. CASE upgradeHookArchitecture(p)
  BY <1>1, <1>8, StartArchitectureUpgradeDoes, UpgradeFactoryFirstDoes,
     SetArchitectureDefaultDoes DEF upgradeHookArchitecture
<1>9. CASE StartExport(p)
  BY <1>1, <1>9, StartExportDoes
<1>10. CASE Export(p)
  BY <1>10, ExportDoes
<1>11. CASE Truncate(p)
  BY <1>11, TruncateDoes
<1>12. CASE writeDeployment(p)
  BY <1>12, WriteDoes
<1>13. CASE Stop(p)
  BY <1>1, <1>13, StopDoes
<1> QED
  BY <1>2, <1>3, <1>4, <1>6, <1>7, <1>8, <1>9, <1>10, <1>11, <1>12, <1>13
     DEF Command, exportAbis

LEMMA CommandUndisturbed ==
    ASSUME IInv, IInv', AInv, NEW p \in Commands, Command(p)
    PROVE  AInv'
<1>1. Exclusive
  BY DEF AInv
<1>2. /\ Exclusive'
      /\ \A q \in Commands : q # p /\ proc'[q].alone => proc'[q].job = "idle"
  BY <1>1, CommandActs, BeginsExclusive, GoesExclusive
<1>3. FileIsLast'
  <2>1. CASE writeDeployment(p)
    BY <1>1, <2>1, WriteDoes DEF FileIsLast
  <2> QED
    BY <1>1, <2>1, DiskActs DEF AInv, FileIsLast, Readable
<1>4. ASSUME NEW q \in Commands, proc'[q].job # "idle", proc'[q].alone
      PROVE  Undisturbed(proc[q])'
  <2>1. q = p
    BY <1>2, <1>4
  <2>2. PICK new : new = proc'[p]
    OBVIOUS
  <2>3. Undisturbed(new)'
    BY <1>4, <2>1, <2>2, ActorUndisturbed
  <2> QED
    BY <2>1, <2>2, <2>3
<1> QED
  BY <1>2, <1>3, <1>4 DEF AInv

LEMMA NextUndisturbed == IInv /\ IInv' /\ AInv /\ [Next]_vars => AInv'
<1> SUFFICES ASSUME IInv, IInv', AInv, [Next]_vars
             PROVE  AInv'
  OBVIOUS
<1>1. CASE Next
  BY <1>1, CommandUndisturbed DEF Next
<1>2. CASE UNCHANGED vars
  <2>1. /\ proc' = proc /\ tokens' = tokens /\ factories' = factories /\ file' = file
        /\ last' = last /\ bundle' = bundle /\ solo' = solo /\ orderly' = orderly
    BY <1>2 DEF vars
  <2>2. Exclusive' /\ FileIsLast'
    BY <2>1 DEF AInv, Exclusive, FileIsLast
  <2>3. ASSUME NEW run, Undisturbed(run)
        PROVE  Undisturbed(run)'
    <3>1. InStep(run)' /\ Remembers(run)' /\ Pushed(run)'
      BY <2>1, <2>3 DEF Undisturbed, InStep, Remembers, Recorded, Pushed, latestToken
    <3>2. Exporting(run)'
      BY <2>1, <2>3 DEF Undisturbed, Exporting, Done, collectAddresses, Readable
    <3>3. Converging(run)' /\ Newest(run)'
      BY <2>1, <2>3 DEF Undisturbed, Converging, UpgradedTo, Recorded, Newest
    <3> QED
      BY <3>1, <3>2, <3>3 DEF Undisturbed
  <2>4. ASSUME NEW q \in Commands, proc'[q].job # "idle", proc'[q].alone
        PROVE  Undisturbed(proc[q])'
    <3>1. PICK run : run = proc[q]
      OBVIOUS
    <3>2. Undisturbed(run)
      BY <2>1, <2>4, <3>1 DEF AInv
    <3> QED
      BY <2>1, <2>3, <3>1, <3>2
  <2> QED
    BY <2>2, <2>4 DEF AInv
<1> QED
  BY <1>1, <1>2

LEMMA InitUndisturbed == Init => AInv
<1> SUFFICES ASSUME Init
             PROVE  AInv
  OBVIOUS
<1>1. /\ \A p \in Commands : proc[p] = Idle
      /\ file = last
  BY DEF Init
<1>2. Idle.job = "idle" /\ Idle.alone
  BY DEF Idle
<1>3. solo = TRUE
  BY DEF Init
<1> QED
  BY <1>1, <1>2, <1>3 DEF AInv, Exclusive, FileIsLast

(***************************************************************************)
(* AInv is invariant: what a command has learnt and done while it is alone *)
(* stays so.                                                               *)
(***************************************************************************)
THEOREM UndisturbedHolds == Spec => []AInv
<1>1. IInv /\ IInv' /\ AInv /\ [Next]_vars => AInv'
  BY NextUndisturbed
<1> QED
  BY <1>1, InitUndisturbed, InvariantHolds, PTL DEF Spec

-----------------------------------------------------------------------------
(* What an undisturbed command leaves behind.                              *)

(***************************************************************************)
(* A record that is complete again was written by the command that went    *)
(* idle, from its own copy.                                                *)
(***************************************************************************)
LEMMA CompletesWrites ==
    ASSUME IInv, IInv', AInv, [Next]_vars, NEW p \in Commands, Completes(p), proc[p].alone
    PROVE  /\ Undisturbed(proc[p]) /\ Sound(proc[p]) /\ file' = proc[p].copy
           /\ proc[p].job # "idle"
<1>1. Exclusive
  BY DEF AInv
<1>2. proc[p].job # "idle"
  BY <1>1 DEF Completes, Exclusive, Idle
<1>3. file' # file /\ file' # NoRecord
  BY DEF Completes, Readable
<1>4. PICK q \in Commands : Command(q)
  BY <1>3 DEF Next, vars
<1>5. writeDeployment(q)
  BY <1>1, <1>3, <1>4, DiskActs
<1>6. proc[q].job # "idle" /\ file' = proc[q].copy
  BY <1>1, <1>5, WriteDoes
<1>7. q = p
  BY <1>1, <1>2, <1>6 DEF Exclusive
<1> QED
  BY <1>2, <1>6, <1>7, RunOf DEF AInv

(***************************************************************************)
(* An entry is lost from one complete record to the next only if commands  *)
(* overlapped, or another factory was deployed.                            *)
(***************************************************************************)
THEOREM LostOnlyByOverlap == Spec => EntriesLostOnlyByOverlap
<1>1. ASSUME IInv, IInv', AInv, [Next]_vars, NEW p \in Commands, Completes(p), proc[p].alone,
             file'.factory = last.factory
      PROVE  Recorded(last) \subseteq Recorded(file')
  <2>1. PICK run : run = proc[p]
    OBVIOUS
  <2>2. Undisturbed(run) /\ Sound(run) /\ file' = run.copy /\ run.job # "idle"
    BY <1>1, <2>1, CompletesWrites
  <2>3. run.step = "writing"
    BY <1>1, <2>1 DEF Completes
  <2>4. run.job # "export" /\ run.job # "deploy"
    BY <1>1, <2>2, <2>3 DEF Undisturbed, InStep, Remembers
  <2>5. run.job \in Recorders
    BY <2>2, <2>4 DEF Sound, Processes, Jobs, Recorders, Upgrades
  <2> QED
    BY <2>2, <2>5 DEF Undisturbed, Remembers
<1>2. IInv /\ IInv' /\ AInv /\ [Next]_vars =>
        [\A p \in Commands :
            Completes(p) /\ proc[p].alone /\ file'.factory = last.factory =>
                Recorded(last) \subseteq Recorded(file')]_vars
  BY <1>1
<1> QED
  BY <1>2, InvariantHolds, UndisturbedHolds, PTL DEF Spec, EntriesLostOnlyByOverlap

(***************************************************************************)
(* The token every other command takes by default is, after an undisturbed *)
(* create-token, the one just created.                                     *)
(***************************************************************************)
THEOREM LatestIsCreated == Spec => CreatedIsLatest
<1>1. ASSUME IInv, IInv', AInv, [Next]_vars, NEW p \in Commands, Completes(p), proc[p].alone,
             proc[p].job = "create-token"
      PROVE  /\ file'.createdTokens # <<>>
             /\ latestToken(file') = proc[p].token.token
             /\ latestToken(file') \in Launched(file'.factory)
  <2>1. PICK run : run = proc[p]
    OBVIOUS
  <2>2. Undisturbed(run) /\ Sound(run) /\ file' = run.copy
    BY <1>1, <2>1, CompletesWrites
  <2>3. run.step = "writing" /\ run.job = "create-token"
    BY <1>1, <2>1 DEF Completes
  <2>4. run.copy.createdTokens # <<>> /\ latestToken(run.copy) = run.token.token
    BY <2>2, <2>3 DEF Undisturbed, Pushed, Ending
  <2>5. Fine(run.copy) /\ run.copy \in Deployments
    BY <2>2, <2>3 DEF Sound, Copied, Recorders, Processes
  <2>6. Len(run.copy.createdTokens) \in DOMAIN run.copy.createdTokens
    BY <2>4, <2>5 DEF Deployments
  <2>7. latestToken(run.copy) \in Launched(run.copy.factory)
    BY <2>5, <2>6 DEF latestToken, Recorded, Fine
  <2> QED
    BY <2>1, <2>2, <2>4, <2>7
<1>2. IInv /\ IInv' /\ AInv /\ [Next]_vars =>
        [\A p \in Commands :
            Completes(p) /\ proc[p].alone /\ proc[p].job = "create-token" =>
                /\ file'.createdTokens # <<>>
                /\ latestToken(file') = proc[p].token.token
                /\ latestToken(file') \in Launched(file'.factory)]_vars
  BY <1>1
<1> QED
  BY <1>2, InvariantHolds, UndisturbedHolds, PTL DEF Spec, CreatedIsLatest

(***************************************************************************)
(* Repeating an interrupted upgrade heals it: an undisturbed upgrade --all *)
(* ends with one implementation everywhere, whatever was there before.     *)
(***************************************************************************)
THEOREM UpgradeConverges == Spec => AllUpgradeConverges
<1>1. ASSUME IInv, IInv', AInv, [Next]_vars, NEW p \in Commands, Completes(p), proc[p].alone,
             proc[p].all
      PROVE  /\ ConvergedOn(KindOf(proc[p].job), file')
             /\ proc[p].job = "upgrade-hooks" => smokeHookUpgrade(file')
  <2>1. PICK run : run = proc[p]
    OBVIOUS
  <2>2. Undisturbed(run) /\ Sound(run) /\ file' = run.copy
    BY <1>1, <2>1, CompletesWrites
  <2>3. PICK kind : kind = KindOf(run.job)
    OBVIOUS
  <2>4. PICK r : r = run.copy
    OBVIOUS
  <2>5. run.step = "writing" /\ run.all
    BY <1>1, <2>1 DEF Completes
  <2>6. /\ r.createdTokens # <<>>
        /\ \A t \in Recorded(r) : tokens[t].impl[kind] = run.impl
        /\ r.default[kind] = run.impl
        /\ factories[r.factory].default[kind] = run.impl
        /\ \A i \in DOMAIN r.createdTokens : r.createdTokens[i].impl[kind] = run.impl
    BY <2>2, <2>3, <2>4, <2>5 DEF Undisturbed, Converging, UpgradedTo, Ending
  <2>7. \A i \in DOMAIN r.createdTokens :
           readProxyImplementation(r.createdTokens[i].token, kind) = run.impl
    BY <2>6 DEF readProxyImplementation, Recorded
  <2>8. ConvergedOn(kind, r)
    BY <2>6, <2>7 DEF ConvergedOn
  <2>9. ASSUME run.job = "upgrade-hooks"
        PROVE  smokeHookUpgrade(r)
    <3>1. kind = "hook"
      BY <2>3, <2>9 DEF KindOf
    <3>2. run.impl # None /\ r \in Deployments
      BY <2>2, <2>4, <2>9 DEF Sound, Upgrading, Upgrades, Processes
    <3>3. Len(r.createdTokens) \in DOMAIN r.createdTokens
      BY <2>6, <3>2 DEF Deployments
    <3>4. recordedImplementation(r) = run.impl
      BY <2>6, <3>1, <3>2, <3>3 DEF recordedImplementation
    <3>5. readProxyImplementation(latestToken(r), "hook") = run.impl
      BY <2>7, <3>1, <3>3 DEF latestToken
    <3> QED
      BY <3>4, <3>5 DEF smokeHookUpgrade
  <2> QED
    BY <2>1, <2>2, <2>3, <2>4, <2>8, <2>9
<1>2. IInv /\ IInv' /\ AInv /\ [Next]_vars =>
        [\A p \in Commands :
            Completes(p) /\ proc[p].alone /\ proc[p].all =>
                /\ ConvergedOn(KindOf(proc[p].job), file')
                /\ proc[p].job = "upgrade-hooks" => smokeHookUpgrade(file')]_vars
  BY <1>1
<1> QED
  BY <1>2, InvariantHolds, UndisturbedHolds, PTL DEF Spec, AllUpgradeConverges

(***************************************************************************)
(* An undisturbed export leaves every file of every directory with what    *)
(* the record says, whatever an earlier one left there.                    *)
(***************************************************************************)
THEOREM ExportAgrees == Spec => ExportsAgree
<1>1. ASSUME IInv, IInv', AInv, [Next]_vars, NEW p \in Commands, At(p, "export", "tx"),
             proc[p].alone, Len(proc[p].todo) = 1, bundle' # bundle
      PROVE  \A d \in 1..Bundles : bundle'[d] = Rendered(collectAddresses(file))
  <2>1. PICK run : run = proc[p]
    OBVIOUS
  <2>2. run.job = "export" /\ run.job # "idle" /\ run.alone
    BY <1>1, <2>1 DEF At
  <2>3. PICK q \in Commands : Command(q)
    BY <1>1 DEF Next, vars
  <2>4. Export(q)
    BY <1>1, <2>3, DiskActs DEF AInv
  <2>5. proc[q].job # "idle"
    BY <2>4 DEF Export, At
  <2>6. q = p
    BY <1>1, <2>1, <2>2, <2>5 DEF AInv, Exclusive
  <2>7. Undisturbed(run)
    BY <1>1, <2>1, <2>2 DEF AInv
  <2> QED
    BY <1>1, <2>1, <2>4, <2>6, <2>7, ExportUndisturbed
<1>2. IInv /\ IInv' /\ AInv /\ [Next]_vars =>
        [\A p \in Commands :
            /\ At(p, "export", "tx")
            /\ proc[p].alone
            /\ Len(proc[p].todo) = 1
            /\ bundle' # bundle
            => \A d \in 1..Bundles : bundle'[d] = Rendered(collectAddresses(file))]_vars
  BY <1>1
<1> QED
  BY <1>2, InvariantHolds, UndisturbedHolds, PTL DEF Spec, ExportsAgree

-----------------------------------------------------------------------------
(* The second layer, over AInv: no two commands overlap, but they may stop *)
(* anywhere.  No launch of a record has an older router than its factory   *)
(* gives to new ones; that is true of the copy a command works on, and of  *)
(* the launch that create-token is about to add to it.                     *)

Ahead(r) ==
    \A t \in Recorded(r) :
        tokens[t].impl["router"] >= factories[r.factory].default["router"]

Announces(run) == run.job = "create-token" /\ run.step \in {"router", "hook"}

AheadRun(run) ==
    /\ Ahead(run.copy)
    /\ Announces(run) =>
          tokens[run.token.token].impl["router"]
              >= factories[run.copy.factory].default["router"]

SInv == solo => Ahead(last) /\ \A p \in Commands : AheadRun(proc[p])

(***************************************************************************)
(* A step after which no launch is behind that was not: it leaves the      *)
(* factories' routers, and gives launches none or the newest.              *)
(***************************************************************************)
Steady ==
    /\ \A f \in DOMAIN factories :
          factories'[f].default["router"] = factories[f].default["router"]
    /\ \A t \in DOMAIN tokens :
          \/ tokens'[t].impl["router"] = tokens[t].impl["router"]
          \/ \A f \in DOMAIN factories :
                tokens'[t].impl["router"] >= factories[f].default["router"]

LEMMA SteadyAhead ==
    ASSUME Steady, NEW r, Real(r), Ahead(r)
    PROVE  Ahead(r)'
<1>1. CASE r = NoRecord
  BY <1>1 DEF Ahead, Recorded, NoRecord
<1>2. CASE r # NoRecord
  <2>1. r.factory \in DOMAIN factories /\ Recorded(r) \subseteq DOMAIN tokens
    BY <1>2 DEF Real, HasCode
  <2>2. ASSUME NEW t \in Recorded(r)
        PROVE  tokens'[t].impl["router"] >= factories'[r.factory].default["router"]
    BY <2>1, <2>2 DEF Steady, Ahead
  <2> QED
    BY <2>2 DEF Ahead, Recorded
<1> QED
  BY <1>1, <1>2

LEMMA RealCopy ==
    ASSUME NEW run, Sound(run)
    PROVE  Real(run.copy)
BY DEF Sound, Copied, Fine, Real

LEMMA ChainSteady ==
    ASSUME UNCHANGED <<factories, tokens>>
    PROVE  Steady
BY DEF Steady

LEMMA AheadSame ==
    ASSUME NEW r, NEW after, Ahead(r)', Recorded(after) = Recorded(r),
           after.factory = r.factory
    PROVE  Ahead(after)'
BY DEF Ahead, Recorded

LEMMA IdleAhead == AheadRun(Idle)'
BY DEF AheadRun, Idle, Ahead, Recorded, NoRecord, Announces

(***************************************************************************)
(* A command begins: it has the record, or nothing yet.                    *)
(***************************************************************************)
LEMMA StartAhead ==
    ASSUME IInv, FileIsLast, Ahead(last), NEW new, UNCHANGED Disk,
           UNCHANGED <<factories, tokens>>, ~Announces(new), new.copy \in {file, NoRecord}
    PROVE  Ahead(last)' /\ AheadRun(new)'
<1>1. last' = last
  BY DEF Disk
<1>2. PICK r : r = last
  OBVIOUS
<1>3. Ahead(r)'
  <2>1. Real(r)
    BY <1>2 DEF IInv, DiskOK
  <2> QED
    BY <1>2, <2>1, ChainSteady, SteadyAhead
<1>4. Ahead(new.copy)'
  <2>1. CASE new.copy = NoRecord
    BY <2>1 DEF Ahead, Recorded, NoRecord
  <2>2. CASE new.copy # NoRecord
    <3>1. new.copy = r
      BY <1>2, <2>2 DEF FileIsLast, Readable
    <3> QED
      BY <1>3, <3>1
  <2> QED
    BY <2>1, <2>2
<1> QED
  BY <1>1, <1>2, <1>3, <1>4 DEF AheadRun, Announces

LEMMA StartsAhead ==
    ASSUME IInv, IInv', AInv, Ahead(last), NEW p \in Commands, NEW new, new = proc'[p],
           \/ StartDeploy(p) \/ StartRewrite(p) \/ StartCreate(p)
           \/ \E job \in Upgrades, all \in BOOLEAN : StartUpgrade(p, job, all)
           \/ StartFactoryUpgrade(p) \/ StartArchitectureUpgrade(p) \/ StartExport(p)
    PROVE  Ahead(last)' /\ AheadRun(new)'
<1>1. FileIsLast
  BY DEF AInv
<1>2. /\ UNCHANGED Disk /\ UNCHANGED <<factories, tokens>>
      /\ ~Announces(new) /\ new.copy \in {file, NoRecord}
  <2>1. CASE StartDeploy(p)
    BY <2>1, StartDeployDoes DEF Chain, Announces
  <2>2. CASE StartRewrite(p)
    BY <2>2, StartRewriteDoes DEF Chain, Announces
  <2>3. CASE StartCreate(p)
    BY <2>3, StartCreateDoes DEF Chain, Announces
  <2>4. ASSUME NEW job \in Upgrades, NEW all \in BOOLEAN, StartUpgrade(p, job, all)
        PROVE  /\ UNCHANGED Disk /\ UNCHANGED <<factories, tokens>>
               /\ ~Announces(new) /\ new.copy \in {file, NoRecord}
    <3>1. /\ new.job = job /\ new.copy = file
          /\ UNCHANGED Disk /\ UNCHANGED <<factories, tokens>>
      BY <2>4, StartUpgradeDoes
    <3> QED
      BY <3>1 DEF Announces, Upgrades
  <2>5. CASE StartFactoryUpgrade(p)
    BY <2>5, StartFactoryUpgradeDoes DEF Announces
  <2>6. CASE StartArchitectureUpgrade(p)
    BY <2>6, StartArchitectureUpgradeDoes DEF Announces
  <2>7. CASE StartExport(p)
    BY <2>7, StartExportDoes DEF Chain, Announces, collectAddresses
  <2> QED
    BY <2>1, <2>2, <2>3, <2>4, <2>5, <2>6, <2>7
<1> QED
  BY <1>1, <1>2, StartAhead

(***************************************************************************)
(* A command goes on by a steady step, and keeps its copy's launches.      *)
(***************************************************************************)
LEMMA SteadyLast ==
    ASSUME IInv, Steady, Ahead(last), last' = last
    PROVE  Ahead(last)'
<1>1. PICK r : r = last
  OBVIOUS
<1>2. Real(r) /\ Ahead(r)
  BY <1>1 DEF IInv, DiskOK
<1>3. Ahead(r)'
  BY <1>2, SteadyAhead
<1> QED
  BY <1>1, <1>3

LEMMA SteadyRun ==
    ASSUME IInv, Steady, NEW old, Sound(old), AheadRun(old), NEW new, ~Announces(new),
           Recorded(new.copy) = Recorded(old.copy), new.copy.factory = old.copy.factory
    PROVE  AheadRun(new)'
<1>1. PICK r : r = old.copy
  OBVIOUS
<1>2. PICK after : after = new.copy
  OBVIOUS
<1>3. Real(r) /\ Ahead(r)
  BY <1>1, RealCopy DEF AheadRun
<1>4. Ahead(r)'
  BY <1>3, SteadyAhead
<1>5. Ahead(after)'
  BY <1>1, <1>2, <1>4, AheadSame
<1> QED
  BY <1>2, <1>5 DEF AheadRun, Announces

LEMMA DeployFactoryAhead ==
    ASSUME IInv, IInv', Ahead(last), NEW p \in Commands, NEW old, old = proc[p],
           NEW new, new = proc'[p], DeployFactory(p)
    PROVE  Ahead(last)' /\ AheadRun(new)'
<1>1. /\ Same(old, new) /\ old.job = "deploy" /\ new.copy.createdTokens = <<>>
      /\ \A f \in DOMAIN factories : factories'[f] = factories[f]
      /\ UNCHANGED tokens /\ UNCHANGED Disk
  BY DeployFactoryDoes
<1>2. Steady
  BY <1>1 DEF Steady
<1>3. AheadRun(new)'
  BY <1>1 DEF AheadRun, Announces, Ahead, Recorded, Same
<1> QED
  BY <1>1, <1>2, <1>3, SteadyLast DEF Disk

LEMMA SetFirstDefaultAhead ==
    ASSUME IInv, IInv', Ahead(last), NEW p \in Commands, NEW old, old = proc[p],
           AheadRun(old), NEW new, new = proc'[p], SetFirstDefault(p)
    PROVE  Ahead(last)' /\ AheadRun(new)'
<1>1. /\ Same(old, new) /\ old.job = "deploy" /\ new.copy = old.copy
      /\ \A g \in DOMAIN factories :
            /\ factories'[g].impl = factories[g].impl
            /\ \A k \in Kinds : factories'[g].default[k] =
                  IF g = old.copy.factory /\ k = "hook" THEN old.impl
                  ELSE factories[g].default[k]
      /\ UNCHANGED tokens /\ UNCHANGED Disk
  BY SetFirstDefaultDoes
<1>2. Steady
  BY <1>1 DEF Steady, Kinds
<1>3. AheadRun(new)'
  BY <1>1, <1>2, SteadyRun, RunOf DEF Announces, Same
<1> QED
  BY <1>1, <1>2, <1>3, SteadyLast DEF Disk

LEMMA CreateTokenAhead ==
    ASSUME IInv, IInv', Ahead(last), NEW p \in Commands, NEW old, old = proc[p],
           AheadRun(old), NEW new, new = proc'[p], NEW mined \in BOOLEAN,
           CreateToken(p, mined)
    PROVE  Ahead(last)' /\ AheadRun(new)'
<1>1. /\ new.copy = old.copy /\ old.copy.factory \in DOMAIN factories
      /\ factories' = factories /\ last' = last
  BY CreateTokenDoes DEF Disk
<1>2. PICK n : n = Len(tokens) + 1
  OBVIOUS
<1>3. /\ proc'[p].token.token = n
      /\ \A t \in DOMAIN tokens : tokens'[t] = tokens[t]
      /\ tokens'[n].impl = factories[old.copy.factory].default
  <2>1. TokenCreated(p, n, old.copy.factory)
    BY <1>2, CreateTokenLaunches
  <2> QED
    BY <2>1 DEF TokenCreated
<1>4. Steady
  BY <1>1, <1>3 DEF Steady
<1>5. PICK r : r = old.copy
  OBVIOUS
<1>6. Ahead(r)'
  <2>1. Real(r) /\ Ahead(r)
    BY <1>5, RunOf, RealCopy DEF AheadRun
  <2> QED
    BY <1>4, <2>1, SteadyAhead
<1>7. factories[r.factory].default["router"] \in Nat
  <2>1. factories[r.factory] \in Factories
    BY <1>1, <1>5 DEF IInv, ChainOK
  <2> QED
    BY <2>1 DEF Factories, Kinds
<1>8. tokens'[n].impl["router"] >= factories'[r.factory].default["router"]
  BY <1>1, <1>3, <1>5, <1>7
<1>9. AheadRun(new)'
  BY <1>1, <1>3, <1>5, <1>6, <1>8 DEF AheadRun
<1> QED
  BY <1>1, <1>4, <1>9, SteadyLast

LEMMA ReadRouterAhead ==
    ASSUME IInv, IInv', Ahead(last), NEW p \in Commands, NEW old, old = proc[p],
           AheadRun(old), NEW new, new = proc'[p], NEW found \in BOOLEAN,
           readOptionalFactoryRouterImplementation(p, found)
    PROVE  Ahead(last)' /\ AheadRun(new)'
<1>1. /\ old.job = "create-token" /\ old.step = "router" /\ new.copy = old.copy
      /\ new.token.token = old.token.token
      /\ UNCHANGED Chain /\ UNCHANGED Disk
  BY ReadRouterDoes
<1>2. factories' = factories /\ tokens' = tokens /\ last' = last
  BY <1>1 DEF Chain, Disk
<1>3. AheadRun(new)'
  BY <1>1, <1>2 DEF AheadRun, Announces, Ahead, Recorded
<1> QED
  BY <1>2, <1>3 DEF Ahead, Recorded

LEMMA ReadHookAhead ==
    ASSUME IInv, IInv', Ahead(last), NEW p \in Commands, NEW old, old = proc[p],
           AheadRun(old), NEW new, new = proc'[p], NEW found \in BOOLEAN,
           readOptionalFactoryHookImplementation(p, found)
    PROVE  Ahead(last)' /\ AheadRun(new)'
<1>1. /\ old.job = "create-token" /\ old.step = "hook" /\ new.step = "write"
      /\ new.token.token = old.token.token /\ new.copy.factory = old.copy.factory
      /\ Recorded(new.copy) = Recorded(old.copy) \cup {new.token.token}
  BY ReadHookDoes
<1>2. UNCHANGED Chain /\ UNCHANGED Disk
  BY ReadHookDoes
<1>3. factories' = factories /\ tokens' = tokens /\ last' = last
  BY <1>2 DEF Chain, Disk
<1>4. \A t \in Recorded(new.copy) :
         tokens[t].impl["router"] >= factories[new.copy.factory].default["router"]
  BY <1>1 DEF AheadRun, Announces, Ahead
<1>5. AheadRun(new)'
  BY <1>1, <1>3, <1>4 DEF AheadRun, Announces, Ahead, Recorded
<1> QED
  BY <1>3, <1>5 DEF Ahead, Recorded

(***************************************************************************)
(* A launch gets what is newer than any factory's.                         *)
(***************************************************************************)
LEMMA UpgradeProxyAhead ==
    ASSUME IInv, IInv', Ahead(last), NEW p \in Commands, NEW old, old = proc[p],
           AheadRun(old), Undisturbed(old), NEW new, new = proc'[p],
           NEW job \in Upgrades, UpgradeProxy(p, job)
    PROVE  Ahead(last)' /\ AheadRun(new)'
<1>1. PICK kind : kind = KindOf(job)
  OBVIOUS
<1>2. PICK one : one = old.todo[1]
  OBVIOUS
<1>3. ProxyUpgraded(job, kind, one, old, new)
  BY <1>1, <1>2, UpgradeProxyDoes
<1>4. Same(old, new) /\ UNCHANGED factories /\ UNCHANGED Disk
  BY UpgradeProxyDoes
<1>5. \A f \in DOMAIN factories, k \in Kinds : factories[f].default[k] <= old.impl
  BY <1>3 DEF Undisturbed, Newest, ProxyUpgraded
<1>6. Steady
  <2>1. ASSUME NEW t \in DOMAIN tokens
        PROVE  tokens'[t].impl["router"] \in {old.impl, tokens[t].impl["router"]}
    BY <1>3 DEF ProxyUpgraded, Kinds
  <2>2. ASSUME NEW f \in DOMAIN factories
        PROVE  old.impl >= factories[f].default["router"]
    <3>1. factories[f].default["router"] <= old.impl
      BY <1>5 DEF Kinds
    <3>2. factories[f].default["router"] \in Nat /\ old.impl \in Nat
      <4>1. factories[f] \in Factories /\ old.impl \in Nat
        BY <1>3 DEF IInv, ChainOK, ProxyUpgraded
      <4> QED
        BY <4>1 DEF Factories, Kinds
    <3> QED
      BY <3>1, <3>2
  <2> QED
    BY <1>4, <2>1, <2>2 DEF Steady
<1>7. Recorded(new.copy) = Recorded(old.copy) /\ new.copy.factory = old.copy.factory
  <2>1. /\ new.copy = IF old.all THEN old.copy
                      ELSE ApplyMetadata(old.copy, kind, {one}, FALSE, old.impl)
        /\ old.copy \in Deployments /\ old.impl \in Nat /\ kind \in Kinds
        /\ old.all \in BOOLEAN
    BY <1>3 DEF ProxyUpgraded
  <2>2. CASE ~old.all
    <3>1. PICK r \in Deployments : r = old.copy
      BY <2>1
    <3>2. new.copy = ApplyMetadata(r, kind, {one}, FALSE, old.impl)
      BY <2>1, <2>2, <3>1
    <3>3. MetadataApplied(r, kind, {one}, FALSE, old.impl, new.copy)
      BY <2>1, <3>2, MetadataDoes
    <3> QED
      BY <3>1, <3>3 DEF MetadataApplied
  <2> QED
    BY <2>1, <2>2
<1>8. ~Announces(new)
  BY <1>3, <1>4 DEF Announces, Same, ProxyUpgraded, Upgrades
<1>9. AheadRun(new)'
  BY <1>6, <1>7, <1>8, SteadyRun, RunOf
<1> QED
  BY <1>4, <1>6, <1>9, SteadyLast DEF Disk

(***************************************************************************)
(* The factory's default comes after the launches.                         *)
(***************************************************************************)
LEMMA SetDefaultAhead ==
    ASSUME IInv, IInv', Ahead(last), NEW p \in Commands, NEW old, old = proc[p],
           AheadRun(old), Undisturbed(old), NEW new, new = proc'[p],
           NEW job \in Upgrades, SetDefault(p, job)
    PROVE  Ahead(last)' /\ AheadRun(new)'
<1>1. PICK kind : kind = KindOf(job)
  OBVIOUS
<1>2. DefaultChanged(job, kind, old, new)
  BY <1>1, SetDefaultDoes
<1>3. Same(old, new) /\ UNCHANGED tokens /\ UNCHANGED Disk
  BY SetDefaultDoes
<1>4. /\ old.job = job /\ old.step = "default" /\ new.step = "write"
      /\ new.copy = ApplyMetadata(old.copy, kind, {}, TRUE, old.impl)
      /\ old.copy \in Deployments /\ old.impl \in Nat /\ kind \in Kinds
  BY <1>2 DEF DefaultChanged
<1>5. \A g \in DOMAIN factories :
         factories'[g].default["router"] = IF g = old.copy.factory /\ kind = "router"
                                           THEN old.impl
                                           ELSE factories[g].default["router"]
  BY <1>2 DEF DefaultChanged, Kinds
<1>6. \A t \in Recorded(old.copy) : tokens[t].impl[kind] = old.impl
  <2>1. old.all
    BY <1>4 DEF Undisturbed, InStep
  <2> QED
    BY <1>1, <1>4, <2>1 DEF Undisturbed, Converging, UpgradedTo
<1>7. ASSUME NEW r, Real(r), Ahead(r), Recorded(r) \subseteq Recorded(old.copy)
      PROVE  Ahead(r)'
  <2>1. CASE r = NoRecord
    BY <2>1 DEF Ahead, Recorded, NoRecord
  <2>2. CASE r # NoRecord
    <3>1. r.factory \in DOMAIN factories
      BY <1>7, <2>2 DEF Real, HasCode
    <3>2. ASSUME NEW t \in Recorded(r)
          PROVE  tokens[t].impl["router"] >= factories'[r.factory].default["router"]
      <4>1. CASE r.factory = old.copy.factory /\ kind = "router"
        BY <1>4, <1>5, <1>6, <1>7, <3>1, <4>1
      <4>2. CASE ~(r.factory = old.copy.factory /\ kind = "router")
        BY <1>5, <1>7, <3>1, <4>2 DEF Ahead
      <4> QED
        BY <4>1, <4>2
    <3> QED
      BY <1>3, <3>2 DEF Ahead, Recorded
  <2> QED
    BY <2>1, <2>2
<1>8. PICK r : r = old.copy
  OBVIOUS
<1>9. PICK after : after = new.copy
  OBVIOUS
<1>10. Recorded(after) = Recorded(r) /\ after.factory = r.factory
  <2>1. r \in Deployments /\ after = ApplyMetadata(r, kind, {}, TRUE, old.impl)
    BY <1>4, <1>8, <1>9
  <2>2. MetadataApplied(r, kind, {}, TRUE, old.impl, after)
    BY <1>4, <2>1, MetadataDoes
  <2> QED
    BY <2>2 DEF MetadataApplied
<1>11. Ahead(r)'
  <2>1. Real(r) /\ Ahead(r)
    BY <1>8, RunOf, RealCopy DEF AheadRun
  <2> QED
    BY <1>7, <1>8, <2>1
<1>12. AheadRun(new)'
  <2>1. Ahead(after)'
    BY <1>10, <1>11, AheadSame
  <2> QED
    BY <1>4, <1>9, <2>1 DEF AheadRun, Announces
<1>13. Ahead(last)'
  <2>1. PICK before : before = last
    OBVIOUS
  <2>2. Recorded(before) \subseteq Recorded(old.copy)
    BY <1>4, <2>1 DEF Undisturbed, Remembers, Recorders
  <2>3. Real(before) /\ Ahead(before)
    BY <2>1 DEF IInv, DiskOK
  <2>4. Ahead(before)'
    BY <1>7, <2>2, <2>3
  <2> QED
    BY <1>3, <2>1, <2>4 DEF Disk
<1> QED
  BY <1>12, <1>13

LEMMA FactoryStepsAhead ==
    ASSUME IInv, IInv', Ahead(last), NEW p \in Commands, NEW old, old = proc[p],
           AheadRun(old), NEW new, new = proc'[p],
           UpgradeFactory(p) \/ UpgradeFactoryFirst(p) \/ SetArchitectureDefault(p)
    PROVE  Ahead(last)' /\ AheadRun(new)'
<1>1. /\ Steady /\ last' = last /\ new.job # "create-token"
      /\ Recorded(new.copy) = Recorded(old.copy) /\ new.copy.factory = old.copy.factory
  <2>1. CASE UpgradeFactory(p)
    BY <2>1, UpgradeFactoryDoes DEF Same, Steady, Recorded, Disk
  <2>2. CASE UpgradeFactoryFirst(p)
    BY <2>2, UpgradeFactoryFirstDoes DEF Same, Steady, Recorded, Disk
  <2>3. CASE SetArchitectureDefault(p)
    <3>1. /\ Same(old, new) /\ old.job = "upgrade-hook-architecture"
          /\ new.copy.factory = old.copy.factory
          /\ new.copy.createdTokens = old.copy.createdTokens
          /\ UNCHANGED tokens /\ UNCHANGED Disk
      BY <2>3, SetArchitectureDefaultDoes
    <3>2. \A g \in DOMAIN factories :
             /\ factories'[g].impl = factories[g].impl
             /\ \A k \in Kinds : factories'[g].default[k] =
                   IF g = old.copy.factory /\ k = "hook" THEN old.impl + 1
                   ELSE factories[g].default[k]
      BY <2>3, SetArchitectureDefaultDoes
    <3> QED
      BY <3>1, <3>2 DEF Same, Steady, Recorded, Disk, Kinds
  <2> QED
    BY <2>1, <2>2, <2>3
<1> QED
  BY <1>1, SteadyRun, SteadyLast, RunOf DEF Announces

LEMMA EndAhead ==
    ASSUME IInv, IInv', Exclusive, Ahead(last), NEW p \in Commands, NEW old, old = proc[p],
           AheadRun(old), NEW new, new = proc'[p],
           Export(p) \/ Truncate(p) \/ writeDeployment(p) \/ Stop(p)
    PROVE  Ahead(last)' /\ AheadRun(new)'
<1>1. factories' = factories /\ tokens' = tokens
  BY ExportDoes, TruncateDoes, WriteDoes, StopDoes DEF Chain
<1>2. last' = last \/ last' = old.copy
  <2>1. CASE Export(p) \/ Truncate(p)
    BY <2>1, ExportDoes, TruncateDoes
  <2>2. CASE writeDeployment(p)
    BY <2>2, WriteDoes
  <2>3. CASE Stop(p)
    BY <2>3, StopDoes DEF Disk
  <2> QED
    BY <2>1, <2>2, <2>3
<1>3. new = Idle \/ (new.copy = old.copy /\ new.step \notin {"router", "hook"})
  <2>1. CASE Export(p)
    <3>1. Exported(old.todo[1], old, new)
      BY <2>1, ExportDoes
    <3> QED
      BY <3>1 DEF Exported
  <2>2. CASE Truncate(p)
    BY <2>2, TruncateDoes
  <2>3. CASE writeDeployment(p)
    BY <2>3, WriteDoes
  <2>4. CASE Stop(p)
    BY <2>4, StopDoes
  <2> QED
    BY <2>1, <2>2, <2>3, <2>4
<1>4. Ahead(last)'
  BY <1>1, <1>2 DEF Ahead, Recorded, AheadRun
<1>5. AheadRun(new)'
  BY <1>1, <1>3, IdleAhead DEF AheadRun, Announces, Ahead, Recorded
<1> QED
  BY <1>4, <1>5

-----------------------------------------------------------------------------
(* The second layer is inductive.                                          *)

LEMMA SoloBefore ==
    ASSUME NEW p \in Commands, Begins(p) \/ Goes(p), solo'
    PROVE  solo
BY DEF Begins, Begin, Goes

LEMMA SoloActor ==
    ASSUME IInv, IInv', AInv, Ahead(last), solo, NEW p \in Commands, Command(p),
           NEW old, old = proc[p], AheadRun(old), NEW new, new = proc'[p]
    PROVE  Ahead(last)' /\ AheadRun(new)'
<1>1. Exclusive
  BY DEF AInv
<1>2. Goes(p) => Undisturbed(old)
  BY DEF AInv, Exclusive, Goes
<1>3. CASE deploy(p)
  BY <1>3, StartsAhead, DeployFactoryAhead, SetFirstDefaultAhead DEF deploy
<1>4. CASE StartRewrite(p)
  BY <1>4, StartsAhead
<1>5. CASE createToken(p)
  <2>1. CASE StartCreate(p)
    BY <2>1, StartsAhead
  <2>2. ASSUME NEW mined \in BOOLEAN, CreateToken(p, mined)
        PROVE  Ahead(last)' /\ AheadRun(new)'
    BY <2>2, CreateTokenAhead
  <2>3. ASSUME NEW found \in BOOLEAN, readOptionalFactoryRouterImplementation(p, found)
        PROVE  Ahead(last)' /\ AheadRun(new)'
    BY <2>3, ReadRouterAhead
  <2>4. ASSUME NEW found \in BOOLEAN, readOptionalFactoryHookImplementation(p, found)
        PROVE  Ahead(last)' /\ AheadRun(new)'
    BY <2>4, ReadHookAhead
  <2> QED
    BY <1>5, <2>1, <2>2, <2>3, <2>4 DEF createToken
<1>6. ASSUME NEW job \in Upgrades, Upgrade(p, job)
      PROVE  Ahead(last)' /\ AheadRun(new)'
  <2>1. CASE \E all \in BOOLEAN : StartUpgrade(p, job, all)
    BY <2>1, StartsAhead
  <2>2. CASE UpgradeProxy(p, job)
    <3>1. Goes(p)
      BY <2>2, UpgradeProxyDoes
    <3> QED
      BY <1>2, <2>2, <3>1, UpgradeProxyAhead
  <2>3. CASE SetDefault(p, job)
    <3>1. Goes(p)
      BY <2>3, SetDefaultDoes
    <3> QED
      BY <1>2, <2>3, <3>1, SetDefaultAhead
  <2> QED
    BY <1>6, <2>1, <2>2, <2>3 DEF Upgrade
<1>7. CASE upgradeHooks(p) \/ upgradeRouters(p)
  BY <1>6, <1>7 DEF upgradeHooks, upgradeRouters, Upgrades
<1>8. CASE upgradeFactory(p)
  BY <1>8, StartsAhead, FactoryStepsAhead DEF upgradeFactory
<1>9. CASE upgradeHookArchitecture(p)
  BY <1>9, StartsAhead, FactoryStepsAhead DEF upgradeHookArchitecture
<1>10. CASE StartExport(p)
  BY <1>10, StartsAhead
<1>11. CASE Export(p) \/ Truncate(p) \/ writeDeployment(p) \/ Stop(p)
  BY <1>1, <1>11, EndAhead
<1> QED
  BY <1>3, <1>4, <1>5, <1>7, <1>8, <1>9, <1>10, <1>11 DEF Command, exportAbis

LEMMA CommandSolo ==
    ASSUME IInv, IInv', AInv, SInv, NEW p \in Commands, Command(p)
    PROVE  SInv'
<1> SUFFICES ASSUME solo'
             PROVE  Ahead(last)' /\ \A q \in Commands : AheadRun(proc[q])'
  BY DEF SInv
<1>1. Exclusive /\ (Begins(p) \/ Goes(p))
  BY CommandActs DEF AInv
<1>2. solo
  BY <1>1, SoloBefore
<1>3. PICK old : old = proc[p]
  OBVIOUS
<1>4. PICK new : new = proc'[p]
  OBVIOUS
<1>5. Ahead(last) /\ AheadRun(old)
  BY <1>2, <1>3 DEF SInv
<1>6. Ahead(last)' /\ AheadRun(new)'
  BY <1>2, <1>3, <1>4, <1>5, SoloActor
<1>7. /\ Exclusive'
      /\ \A q \in Commands : q # p /\ proc'[q].alone => proc'[q].job = "idle"
  BY <1>1, BeginsExclusive, GoesExclusive
<1>8. \A q \in Commands : q # p => proc'[q] = Idle
  BY <1>7 DEF Exclusive
<1>9. ASSUME NEW q \in Commands
      PROVE  AheadRun(proc[q])'
  <2>1. CASE q = p
    BY <1>4, <1>6, <2>1
  <2>2. CASE q # p
    BY <1>8, <2>2, IdleAhead
  <2> QED
    BY <2>1, <2>2
<1> QED
  BY <1>6, <1>9

LEMMA NextSolo == IInv /\ IInv' /\ AInv /\ SInv /\ [Next]_vars => SInv'
<1> SUFFICES ASSUME IInv, IInv', AInv, SInv, [Next]_vars
             PROVE  SInv'
  OBVIOUS
<1>1. CASE Next
  BY <1>1, CommandSolo DEF Next
<1>2. CASE UNCHANGED vars
  <2>1. /\ proc' = proc /\ tokens' = tokens /\ factories' = factories
        /\ last' = last /\ solo' = solo
    BY <1>2 DEF vars
  <2>2. ASSUME NEW run, AheadRun(run)
        PROVE  AheadRun(run)'
    BY <2>1, <2>2 DEF AheadRun, Ahead, Recorded, Announces
  <2>3. ASSUME solo, NEW q \in Commands
        PROVE  AheadRun(proc[q])'
    <3>1. PICK run : run = proc[q]
      OBVIOUS
    <3> QED
      BY <2>1, <2>2, <2>3, <3>1 DEF SInv
  <2>4. solo => Ahead(last)'
    BY <2>1 DEF SInv, Ahead, Recorded
  <2> QED
    BY <2>1, <2>3, <2>4 DEF SInv
<1> QED
  BY <1>1, <1>2

LEMMA InitSolo == Init => SInv
<1> SUFFICES ASSUME Init
             PROVE  SInv
  OBVIOUS
<1>1. last.createdTokens = <<>> /\ \A p \in Commands : proc[p] = Idle
  BY DEF Init, NoRecord, LegacyRecord
<1>2. Recorded(last) = {}
  BY <1>1 DEF Recorded
<1>3. AheadRun(Idle)
  BY DEF AheadRun, Idle, Ahead, Recorded, NoRecord, Announces
<1> QED
  BY <1>1, <1>2, <1>3 DEF SInv, Ahead

(***************************************************************************)
(* SInv is invariant: while no two commands overlapped, no launch that the *)
(* record or a command's copy of it names is behind its factory.           *)
(***************************************************************************)
THEOREM SoloHolds == Spec => []SInv
<1>1. IInv /\ IInv' /\ AInv /\ SInv /\ [Next]_vars => SInv'
  BY NextSolo
<1> QED
  BY <1>1, InitSolo, InvariantHolds, UndisturbedHolds, PTL DEF Spec

(***************************************************************************)
(* upgrade-routers --all upgrades the launches before the default: without *)
(* overlapping commands, wherever one stopped, no recorded launch is left  *)
(* with an older router than the factory gives to new ones.                *)
(***************************************************************************)
THEOREM RoutersKeepUp == Spec => []NoRouterLeftBehind
<1>1. AInv /\ SInv => NoRouterLeftBehind
  BY DEF AInv, FileIsLast, SInv, Ahead, NoRouterLeftBehind
<1> QED
  BY <1>1, UndisturbedHolds, SoloHolds, PTL

-----------------------------------------------------------------------------
(* The third layer, over AInv: no command stops half-way either.  While    *)
(* none is in progress, the record agrees with the chain.  A command in    *)
(* progress changes the chain before it changes the record; what it holds  *)
(* agrees with the chain up to what it has done and not yet noted.         *)

DefaultAgrees(r, k) == r.default[k] \in {None, factories[r.factory].default[k]}

EntryAgrees(r, i, k) ==
    r.createdTokens[i].impl[k] \in {None, tokens[r.createdTokens[i].token].impl[k]}

Agrees(r) ==
    /\ \A k \in Kinds : DefaultAgrees(r, k)
    /\ r.impl = factories[r.factory].impl
    /\ Launched(r.factory) \subseteq Recorded(r)
    /\ \A i \in DOMAIN r.createdTokens, k \in Kinds : EntryAgrees(r, i, k)

FileAgrees == file = last /\ (last # NoRecord => Agrees(last))

\* The factory of a deployment that has not been given its hook yet.
Unfinished(run) == run.job = "deploy" /\ run.step = "default"

DefaultsFollow(run) ==
    /\ \A k \in Kinds : (Unfinished(run) /\ k = "hook") \/ DefaultAgrees(run.copy, k)
    /\ Unfinished(run) => run.impl = run.copy.default["hook"]

FactoryFollows(run) ==
    factories[run.copy.factory].impl = IF run.step = "tx2" THEN run.impl ELSE run.copy.impl

LaunchesListed(run) ==
    \A t \in Launched(run.copy.factory) :
        t \in Recorded(run.copy) \/ (Announces(run) /\ t = run.token.token)

AnnouncedAgrees(run) ==
    Announces(run) =>
        /\ tokens[run.token.token].impl = factories[run.copy.factory].default
        /\ \A k \in Kinds :
              run.token.impl[k] \in {None, tokens[run.token.token].impl[k]}

\* The entries are set together, at the end of an upgrade --all.
UpgradingAll(run, k) == run.all /\ run.step \notin Ending /\ k = KindOf(run.job)

EntriesFollow(run) ==
    \A i \in DOMAIN run.copy.createdTokens, k \in Kinds :
        UpgradingAll(run, k) \/ EntryAgrees(run.copy, i, k)

InProgress(run) ==
    /\ DefaultsFollow(run) /\ FactoryFollows(run) /\ LaunchesListed(run)
    /\ AnnouncedAgrees(run) /\ EntriesFollow(run)

\* The jobs, once they can have changed the chain, that write a record.
Relies(run) == run.job \in Recorders \/ (run.job = "deploy" /\ run.step # "tx")

OInv ==
    orderly =>
        /\ \A p \in Commands : Relies(proc[p]) => InProgress(proc[p])
        /\ (\A p \in Commands : ~Relies(proc[p])) => FileAgrees

Progress(run) == IF Relies(run) THEN InProgress(run) ELSE FileAgrees

LEMMA FileAgreesLasts ==
    ASSUME UNCHANGED <<factories, tokens, file, last>>, FileAgrees
    PROVE  FileAgrees'
BY DEF FileAgrees, Agrees, DefaultAgrees, Launched, Recorded, EntryAgrees

LEMMA RecordBegun ==
    ASSUME FileAgrees, Readable(file), UNCHANGED <<factories, tokens>>,
           NEW new, new.copy = file, new.step \in {"tx", "write"}
    PROVE  InProgress(new)'
<1>1. PICK r : r = file
  OBVIOUS
<1>2. Agrees(r)
  BY <1>1 DEF FileAgrees, Readable
<1>3. new.copy = r /\ ~Unfinished(new) /\ ~Announces(new)
  BY <1>1 DEF Unfinished, Announces
<1>4. DefaultsFollow(new)'
  BY <1>2, <1>3 DEF DefaultsFollow, Unfinished, Agrees, DefaultAgrees
<1>5. FactoryFollows(new)'
  BY <1>2, <1>3 DEF FactoryFollows, Agrees
<1>6. LaunchesListed(new)'
  BY <1>2, <1>3 DEF LaunchesListed, Agrees, Launched, Recorded
<1>7. AnnouncedAgrees(new)'
  BY <1>3 DEF AnnouncedAgrees, Announces
<1>8. EntriesFollow(new)'
  BY <1>2, <1>3 DEF EntriesFollow, Agrees, EntryAgrees
<1> QED
  BY <1>4, <1>5, <1>6, <1>7, <1>8 DEF InProgress

LEMMA StartsProgress ==
    ASSUME IInv, IInv', FileAgrees, NEW p \in Commands, NEW new, new = proc'[p],
           \/ StartDeploy(p) \/ StartRewrite(p) \/ StartCreate(p)
           \/ \E job \in Upgrades, all \in BOOLEAN : StartUpgrade(p, job, all)
           \/ StartFactoryUpgrade(p) \/ StartArchitectureUpgrade(p) \/ StartExport(p)
    PROVE  Progress(new)'
<1>1. CASE StartDeploy(p) \/ StartExport(p)
  <2>1. UNCHANGED Chain /\ UNCHANGED Disk /\ ~Relies(new)
    <3>1. CASE StartDeploy(p)
      BY <3>1, StartDeployDoes DEF Relies, Recorders, Upgrades
    <3>2. CASE StartExport(p)
      BY <3>2, StartExportDoes DEF Relies, Recorders, Upgrades
    <3> QED
      BY <1>1, <3>1, <3>2
  <2> QED
    BY <2>1, FileAgreesLasts DEF Progress, Chain, Disk, Relies
<1>2. CASE ~StartDeploy(p) /\ ~StartExport(p)
  <2>1. /\ Readable(file) /\ UNCHANGED <<factories, tokens>>
        /\ new.copy = file /\ new.step \in {"tx", "write"} /\ Relies(new)
    <3>1. CASE StartRewrite(p)
      BY <3>1, StartRewriteDoes DEF Chain, Relies, Recorders
    <3>2. CASE StartCreate(p)
      BY <3>2, StartCreateDoes DEF Chain, Relies, Recorders
    <3>3. ASSUME NEW job \in Upgrades, NEW all \in BOOLEAN, StartUpgrade(p, job, all)
          PROVE  /\ Readable(file) /\ UNCHANGED <<factories, tokens>>
                 /\ new.copy = file /\ new.step \in {"tx", "write"} /\ Relies(new)
      <4>1. /\ Readable(file) /\ UNCHANGED <<factories, tokens>>
            /\ new.copy = file /\ new.step = "tx" /\ new.job = job
        BY <3>3, StartUpgradeDoes
      <4> QED
        BY <4>1 DEF Relies, Recorders
    <3>4. CASE StartFactoryUpgrade(p)
      BY <3>4, StartFactoryUpgradeDoes DEF Relies, Recorders
    <3>5. CASE StartArchitectureUpgrade(p)
      BY <3>5, StartArchitectureUpgradeDoes DEF Relies, Recorders
    <3> QED
      BY <1>2, <3>1, <3>2, <3>3, <3>4, <3>5
  <2>2. InProgress(new)'
    BY <2>1, RecordBegun
  <2> QED
    BY <2>1, <2>2 DEF Progress, Relies
<1> QED
  BY <1>1, <1>2

(***************************************************************************)
(* A new factory has no launches, and lacks its hook.                      *)
(***************************************************************************)
LEMMA DeployFactoryProgress ==
    ASSUME IInv, IInv', NEW p \in Commands, NEW old, old = proc[p], Undisturbed(old),
           NEW new, new = proc'[p], DeployFactory(p)
    PROVE  Progress(new)'
<1>1. PICK n : n = Len(factories) + 1
  OBVIOUS
<1>2. /\ Same(old, new) /\ old.job = "deploy" /\ new.step = "default"
      /\ new.copy.factory = n /\ new.copy.createdTokens = <<>>
      /\ UNCHANGED tokens
  BY <1>1, DeployFactoryDoes
<1>3. /\ new.impl = code + 1 /\ new.copy.impl = code + 3
      /\ new.copy.default = [k \in Kinds |-> IF k = "hook" THEN code + 1 ELSE code + 2]
  BY DeployFactoryDoes
<1>4. /\ factories'[n].impl = code + 3
      /\ factories'[n].default = [k \in Kinds |-> IF k = "hook" THEN None ELSE code + 2]
  BY <1>1, DeployFactoryDoes
<1>5. new.job = "deploy" /\ Unfinished(new) /\ ~Announces(new) /\ Relies(new)
  BY <1>2 DEF Same, Unfinished, Announces, Relies
<1>6. DefaultsFollow(new)'
  BY <1>2, <1>3, <1>4, <1>5 DEF DefaultsFollow, Unfinished, DefaultAgrees, Kinds
<1>7. FactoryFollows(new)'
  BY <1>2, <1>3, <1>4 DEF FactoryFollows
<1>8. LaunchesListed(new)'
  <2>1. n \notin DOMAIN factories
    BY <1>1 DEF IInv, ChainOK
  <2>2. \A t \in DOMAIN tokens : tokens[t].factory # n
    BY <2>1 DEF IInv, ChainOK
  <2> QED
    BY <1>2, <2>2 DEF LaunchesListed, Launched
<1>9. AnnouncedAgrees(new)' /\ EntriesFollow(new)'
  BY <1>2, <1>5 DEF AnnouncedAgrees, Announces, EntriesFollow
<1> QED
  BY <1>5, <1>6, <1>7, <1>8, <1>9 DEF Progress, InProgress, Relies

LEMMA SetFirstDefaultProgress ==
    ASSUME IInv, IInv', NEW p \in Commands, NEW old, old = proc[p], Undisturbed(old),
           Progress(old), NEW new, new = proc'[p], SetFirstDefault(p)
    PROVE  Progress(new)'
<1>1. /\ Same(old, new) /\ old.job = "deploy" /\ old.step = "default" /\ new.step = "write"
      /\ new.copy = old.copy /\ new.impl = old.impl
      /\ old.copy.factory \in DOMAIN factories
      /\ UNCHANGED tokens
  BY SetFirstDefaultDoes
<1>2. \A g \in DOMAIN factories :
         /\ factories'[g].impl = factories[g].impl
         /\ \A k \in Kinds : factories'[g].default[k] =
               IF g = old.copy.factory /\ k = "hook" THEN old.impl
               ELSE factories[g].default[k]
  BY SetFirstDefaultDoes
<1>3. /\ new.job = "deploy" /\ ~Unfinished(new) /\ Unfinished(old) /\ ~old.all /\ ~new.all
      /\ ~Announces(new) /\ ~Announces(old) /\ Relies(new) /\ Relies(old)
  BY <1>1 DEF Same, Unfinished, Undisturbed, InStep, Upgrades, Announces, Relies
<1>4. InProgress(old)
  BY <1>3 DEF Progress
<1>5. DefaultsFollow(new)'
  <2>1. ASSUME NEW k \in Kinds
        PROVE  new.copy.default[k] \in {None, factories'[new.copy.factory].default[k]}
    BY <1>1, <1>2, <1>3, <1>4 DEF InProgress, DefaultsFollow, DefaultAgrees
  <2> QED
    BY <1>3, <2>1 DEF DefaultsFollow, Unfinished, DefaultAgrees
<1>6. FactoryFollows(new)'
  BY <1>1, <1>2, <1>4 DEF InProgress, FactoryFollows
<1>7. LaunchesListed(new)'
  BY <1>1, <1>3, <1>4 DEF InProgress, LaunchesListed, Launched, Recorded
<1>8. AnnouncedAgrees(new)'
  BY <1>3 DEF AnnouncedAgrees, Announces
<1>9. EntriesFollow(new)'
  BY <1>1, <1>3, <1>4 DEF InProgress, EntriesFollow, UpgradingAll, EntryAgrees
<1> QED
  BY <1>3, <1>5, <1>6, <1>7, <1>8, <1>9 DEF Progress, InProgress, Relies

(***************************************************************************)
(* The launch that create-token has just created is the one that its copy  *)
(* does not list yet.                                                      *)
(***************************************************************************)
LEMMA CreateTokenProgress ==
    ASSUME IInv, IInv', NEW p \in Commands, NEW old, old = proc[p], Undisturbed(old),
           Progress(old), NEW new, new = proc'[p], NEW mined \in BOOLEAN,
           CreateToken(p, mined)
    PROVE  Progress(new)'
<1>1. /\ Same(old, new) /\ old.job = "create-token" /\ old.step = "tx"
      /\ new.step = "router" /\ new.copy = old.copy /\ new.token.impl = old.token.impl
      /\ old.copy.factory \in DOMAIN factories
      /\ factories' = factories
  BY CreateTokenDoes
<1>2. PICK n : n = Len(tokens) + 1
  OBVIOUS
<1>3. TokenCreated(p, n, old.copy.factory)
  BY <1>2, CreateTokenLaunches
<1>4. PICK r : r = old.copy
  OBVIOUS
<1>5. /\ new.token.token = n /\ n \notin DOMAIN tokens
      /\ DOMAIN tokens' = DOMAIN tokens \cup {n}
      /\ \A t \in DOMAIN tokens : tokens'[t] = tokens[t]
      /\ tokens'[n].factory = r.factory
      /\ tokens'[n].impl = factories[r.factory].default
  BY <1>3, <1>4 DEF TokenCreated
<1>6. /\ new.job = "create-token" /\ ~Unfinished(new) /\ ~Unfinished(old)
      /\ ~old.all /\ ~new.all /\ Announces(new) /\ ~Announces(old)
      /\ Relies(new) /\ Relies(old) /\ old.token = NoEntry
  BY <1>1 DEF Same, Unfinished, Undisturbed, InStep, Upgrades, Announces, Relies, Recorders
<1>7. InProgress(old) /\ new.copy = r
  BY <1>1, <1>4, <1>6 DEF Progress
<1>8. Recorded(r) \subseteq DOMAIN tokens
  BY <1>1, <1>4, RunOf DEF Sound, Copied, Recorders, Fine, HasCode
<1>9. DefaultsFollow(new)'
  BY <1>1, <1>6, <1>7 DEF InProgress, DefaultsFollow, Unfinished, DefaultAgrees
<1>10. FactoryFollows(new)'
  BY <1>1, <1>7 DEF InProgress, FactoryFollows
<1>11. LaunchesListed(new)'
  <2>1. ASSUME NEW t \in DOMAIN tokens', tokens'[t].factory = r.factory
        PROVE  t \in Recorded(r) \/ t = n
    BY <1>4, <1>5, <1>6, <1>7, <2>1 DEF InProgress, LaunchesListed, Launched
  <2> QED
    BY <1>5, <1>6, <1>7, <2>1 DEF LaunchesListed, Launched, Recorded, Announces
<1>12. AnnouncedAgrees(new)'
  <2>1. \A k \in Kinds : new.token.impl[k] = None
    BY <1>1, <1>6 DEF NoEntry
  <2> QED
    BY <1>1, <1>5, <1>7, <2>1 DEF AnnouncedAgrees
<1>13. EntriesFollow(new)'
  <2>1. ASSUME NEW i \in DOMAIN r.createdTokens, NEW k \in Kinds
        PROVE  r.createdTokens[i].impl[k] \in {None, tokens'[r.createdTokens[i].token].impl[k]}
    <3>1. r.createdTokens[i].impl[k] \in {None, tokens[r.createdTokens[i].token].impl[k]}
      BY <1>4, <1>6, <1>7 DEF InProgress, EntriesFollow, UpgradingAll, EntryAgrees
    <3>2. r.createdTokens[i].token \in DOMAIN tokens
      BY <1>8 DEF Recorded
    <3> QED
      BY <1>5, <3>1, <3>2
  <2> QED
    BY <1>7, <2>1 DEF EntriesFollow, EntryAgrees
<1> QED
  BY <1>6, <1>9, <1>10, <1>11, <1>12, <1>13 DEF Progress, InProgress, Relies

LEMMA ReadRouterProgress ==
    ASSUME IInv, IInv', NEW p \in Commands, NEW old, old = proc[p], Undisturbed(old),
           Progress(old), NEW new, new = proc'[p], NEW found \in BOOLEAN,
           readOptionalFactoryRouterImplementation(p, found)
    PROVE  Progress(new)'
<1>1. /\ Same(old, new) /\ old.job = "create-token" /\ old.step = "router"
      /\ new.step = "hook" /\ new.copy = old.copy /\ new.token.token = old.token.token
      /\ new.token.impl["router"] \in {None, factories[old.copy.factory].default["router"]}
      /\ new.token.impl["hook"] = old.token.impl["hook"]
  BY ReadRouterDoes
<1>2. factories' = factories /\ tokens' = tokens
  BY ReadRouterDoes DEF Chain
<1>3. /\ new.job = "create-token" /\ ~Unfinished(new) /\ ~Unfinished(old)
      /\ ~old.all /\ ~new.all /\ Announces(new) /\ Announces(old)
      /\ Relies(new) /\ Relies(old)
  BY <1>1 DEF Same, Unfinished, Undisturbed, InStep, Upgrades, Announces, Relies, Recorders
<1>4. InProgress(old)
  BY <1>3 DEF Progress
<1>5. DefaultsFollow(new)' /\ FactoryFollows(new)'
  BY <1>1, <1>2, <1>3, <1>4
     DEF InProgress, DefaultsFollow, Unfinished, DefaultAgrees, FactoryFollows
<1>6. LaunchesListed(new)'
  BY <1>1, <1>2, <1>3, <1>4 DEF InProgress, LaunchesListed, Launched, Recorded, Announces
<1>7. AnnouncedAgrees(new)'
  <2>1. /\ tokens[old.token.token].impl = factories[old.copy.factory].default
        /\ \A k \in Kinds :
              old.token.impl[k] \in {None, tokens[old.token.token].impl[k]}
    BY <1>3, <1>4 DEF InProgress, AnnouncedAgrees
  <2>2. ASSUME NEW k \in Kinds
        PROVE  new.token.impl[k] \in {None, tokens[old.token.token].impl[k]}
    BY <1>1, <2>1 DEF Kinds
  <2> QED
    BY <1>1, <1>2, <2>1, <2>2 DEF AnnouncedAgrees
<1>8. EntriesFollow(new)'
  BY <1>1, <1>2, <1>3, <1>4 DEF InProgress, EntriesFollow, UpgradingAll, EntryAgrees
<1> QED
  BY <1>3, <1>5, <1>6, <1>7, <1>8 DEF Progress, InProgress, Relies

LEMMA ReadHookProgress ==
    ASSUME IInv, IInv', NEW p \in Commands, NEW old, old = proc[p], Undisturbed(old),
           Progress(old), NEW new, new = proc'[p], NEW found \in BOOLEAN,
           readOptionalFactoryHookImplementation(p, found)
    PROVE  Progress(new)'
<1>1. /\ Same(old, new) /\ old.job = "create-token" /\ old.step = "hook"
      /\ new.step = "write" /\ new.token.token = old.token.token
      /\ new.token.impl["hook"] \in {None, factories[old.copy.factory].default["hook"]}
      /\ new.token.impl["router"] = old.token.impl["router"]
      /\ new.copy.factory = old.copy.factory /\ new.copy.impl = old.copy.impl
      /\ new.copy.default = old.copy.default
      /\ Recorded(new.copy) = Recorded(old.copy) \cup {new.token.token}
  BY ReadHookDoes
<1>2. \A i \in DOMAIN new.copy.createdTokens :
         \/ i \in DOMAIN old.copy.createdTokens
            /\ new.copy.createdTokens[i] = old.copy.createdTokens[i]
         \/ new.copy.createdTokens[i] = new.token
  BY ReadHookDoes
<1>3. factories' = factories /\ tokens' = tokens
  BY ReadHookDoes DEF Chain
<1>4. /\ new.job = "create-token" /\ ~Unfinished(new) /\ ~Unfinished(old)
      /\ ~old.all /\ ~new.all /\ ~Announces(new) /\ Announces(old)
      /\ Relies(new) /\ Relies(old)
  BY <1>1 DEF Same, Unfinished, Undisturbed, InStep, Upgrades, Announces, Relies, Recorders
<1>5. InProgress(old)
  BY <1>4 DEF Progress
<1>6. DefaultsFollow(new)' /\ FactoryFollows(new)'
  BY <1>1, <1>3, <1>4, <1>5
     DEF InProgress, DefaultsFollow, Unfinished, DefaultAgrees, FactoryFollows
<1>7. LaunchesListed(new)'
  BY <1>1, <1>3, <1>5 DEF InProgress, LaunchesListed, Launched, Recorded
<1>8. AnnouncedAgrees(new)'
  BY <1>4 DEF AnnouncedAgrees, Announces
<1>9. EntriesFollow(new)'
  <2>1. /\ tokens[old.token.token].impl = factories[old.copy.factory].default
        /\ \A k \in Kinds :
              old.token.impl[k] \in {None, tokens[old.token.token].impl[k]}
    BY <1>4, <1>5 DEF InProgress, AnnouncedAgrees
  <2>2. ASSUME NEW k \in Kinds
        PROVE  new.token.impl[k] \in {None, tokens[new.token.token].impl[k]}
    BY <1>1, <2>1 DEF Kinds
  <2>3. ASSUME NEW i \in DOMAIN new.copy.createdTokens, NEW k \in Kinds
        PROVE  EntryAgrees(new.copy, i, k)
    BY <1>2, <1>4, <1>5, <2>2 DEF InProgress, EntriesFollow, UpgradingAll, EntryAgrees
  <2> QED
    BY <1>3, <2>3 DEF EntriesFollow, EntryAgrees
<1> QED
  BY <1>4, <1>6, <1>7, <1>8, <1>9 DEF Progress, InProgress, Relies

(***************************************************************************)
(* Under --all the entries lag behind; without it, the entry of the launch *)
(* follows at once.                                                        *)
(***************************************************************************)
LEMMA UpgradeProxyProgress ==
    ASSUME IInv, IInv', NEW p \in Commands, NEW old, old = proc[p], Undisturbed(old),
           Progress(old), NEW new, new = proc'[p], NEW job \in Upgrades,
           UpgradeProxy(p, job)
    PROVE  Progress(new)'
<1>1. PICK kind : kind = KindOf(job)
  OBVIOUS
<1>2. PICK one : one = old.todo[1]
  OBVIOUS
<1>3. ProxyUpgraded(job, kind, one, old, new)
  BY <1>1, <1>2, UpgradeProxyDoes
<1>4. Same(old, new) /\ factories' = factories
  BY UpgradeProxyDoes
<1>5. /\ old.job = job /\ old.step = "tx" /\ new.impl = old.impl
      /\ new.step = IF Len(old.todo) > 1 THEN "tx" ELSE AfterUpgrades(old.all)
      /\ new.copy = IF old.all THEN old.copy
                    ELSE ApplyMetadata(old.copy, kind, {one}, FALSE, old.impl)
      /\ old.copy \in Deployments /\ old.impl \in Nat /\ old.all \in BOOLEAN
      /\ kind \in Kinds
  BY <1>3 DEF ProxyUpgraded
<1>6. /\ DOMAIN tokens' = DOMAIN tokens
      /\ \A t \in DOMAIN tokens :
            /\ tokens'[t].factory = tokens[t].factory
            /\ \A k \in Kinds : tokens'[t].impl[k] =
                  IF t = one /\ k = kind THEN old.impl ELSE tokens[t].impl[k]
  BY <1>3 DEF ProxyUpgraded
<1>7. /\ new.job = job /\ new.all = old.all /\ new.step \in {"tx", "default", "write"}
      /\ new.step = "write" => ~old.all
  BY <1>4, <1>5 DEF Same, AfterUpgrades
<1>8. /\ ~Unfinished(new) /\ ~Unfinished(old) /\ ~Announces(new) /\ ~Announces(old)
      /\ Relies(new) /\ Relies(old)
  BY <1>5, <1>7 DEF Unfinished, Announces, Relies, Recorders, Upgrades
<1>9. InProgress(old)
  BY <1>8 DEF Progress
<1>10. PICK r \in Deployments : r = old.copy
  BY <1>5
<1>11. PICK after : after = new.copy
  OBVIOUS
<1>12. /\ after.factory = r.factory /\ after.impl = r.impl
       /\ \A k \in Kinds : after.default[k] = r.default[k]
       /\ DOMAIN after.createdTokens = DOMAIN r.createdTokens
       /\ \A i \in DOMAIN r.createdTokens :
             /\ after.createdTokens[i].token = r.createdTokens[i].token
             /\ \A k \in Kinds : after.createdTokens[i].impl[k] =
                   IF ~old.all /\ k = kind /\ r.createdTokens[i].token = one THEN old.impl
                   ELSE r.createdTokens[i].impl[k]
       /\ Recorded(after) = Recorded(r)
  <2>1. CASE old.all
    BY <1>5, <1>10, <1>11, <2>1
  <2>2. CASE ~old.all
    <3>1. after = ApplyMetadata(r, kind, {one}, FALSE, old.impl)
      BY <1>5, <1>10, <1>11, <2>2
    <3>2. MetadataApplied(r, kind, {one}, FALSE, old.impl, after)
      BY <1>5, <3>1, MetadataDoes
    <3> QED
      BY <2>2, <3>2 DEF MetadataApplied
  <2> QED
    BY <1>5, <2>1, <2>2
<1>13. DefaultsFollow(new)'
  <2>1. \A k \in Kinds : r.default[k] \in {None, factories[r.factory].default[k]}
    BY <1>8, <1>9, <1>10 DEF InProgress, DefaultsFollow, DefaultAgrees
  <2> QED
    BY <1>4, <1>8, <1>11, <1>12, <2>1 DEF DefaultsFollow, DefaultAgrees, Unfinished
<1>14. FactoryFollows(new)'
  BY <1>4, <1>5, <1>7, <1>9, <1>10, <1>11, <1>12 DEF InProgress, FactoryFollows
<1>15. LaunchesListed(new)'
  <2>1. \A t \in DOMAIN tokens : tokens[t].factory = r.factory => t \in Recorded(r)
    BY <1>8, <1>9, <1>10 DEF InProgress, LaunchesListed, Launched
  <2> QED
    BY <1>6, <1>11, <1>12, <2>1 DEF LaunchesListed, Launched, Recorded
<1>16. AnnouncedAgrees(new)'
  BY <1>8 DEF AnnouncedAgrees, Announces
<1>17. EntriesFollow(new)'
  <2>1. Recorded(r) \subseteq DOMAIN tokens
    BY <1>5, <1>10, RunOf DEF Sound, Copied, Recorders, Fine, HasCode
  <2>2. ASSUME NEW i \in DOMAIN after.createdTokens, NEW k \in Kinds, ~UpgradingAll(new, k)
        PROVE  after.createdTokens[i].impl[k]
                  \in {None, tokens'[after.createdTokens[i].token].impl[k]}
    <3>1. PICK t : t = r.createdTokens[i].token
      OBVIOUS
    <3>2. i \in DOMAIN r.createdTokens /\ t \in DOMAIN tokens
      BY <1>12, <2>1, <3>1 DEF Recorded
    <3>3. ~UpgradingAll(old, k)
      BY <1>1, <1>5, <1>7, <2>2 DEF UpgradingAll, Ending
    <3>4. r.createdTokens[i].impl[k] \in {None, tokens[t].impl[k]}
      BY <1>9, <1>10, <3>1, <3>2, <3>3 DEF InProgress, EntriesFollow, EntryAgrees
    <3>5. ~(old.all /\ k = kind)
      BY <1>1, <1>5, <3>3 DEF UpgradingAll, Ending
    <3>6. after.createdTokens[i].token = t
      BY <1>12, <3>1, <3>2
    <3>7. after.createdTokens[i].impl[k] =
             IF ~old.all /\ k = kind /\ t = one THEN old.impl ELSE r.createdTokens[i].impl[k]
      BY <1>12, <3>1, <3>2
    <3>8. tokens'[t].impl[k] = IF t = one /\ k = kind THEN old.impl ELSE tokens[t].impl[k]
      BY <1>6, <3>2
    <3> QED
      BY <3>4, <3>5, <3>6, <3>7, <3>8
  <2> QED
    BY <1>11, <2>2 DEF EntriesFollow, EntryAgrees, UpgradingAll
<1> QED
  BY <1>8, <1>13, <1>14, <1>15, <1>16, <1>17 DEF Progress, InProgress, Relies

(***************************************************************************)
(* The end of an upgrade --all: the entries catch up.                      *)
(***************************************************************************)
LEMMA SetDefaultProgress ==
    ASSUME IInv, IInv', NEW p \in Commands, NEW old, old = proc[p], Undisturbed(old),
           Progress(old), NEW new, new = proc'[p], NEW job \in Upgrades,
           SetDefault(p, job)
    PROVE  Progress(new)'
<1>1. PICK kind : kind = KindOf(job)
  OBVIOUS
<1>2. DefaultChanged(job, kind, old, new)
  BY <1>1, SetDefaultDoes
<1>3. Same(old, new) /\ tokens' = tokens
  BY SetDefaultDoes
<1>4. /\ old.job = job /\ old.step = "default" /\ new.step = "write"
      /\ new.impl = old.impl
      /\ new.copy = ApplyMetadata(old.copy, kind, {}, TRUE, old.impl)
      /\ old.copy \in Deployments /\ old.impl \in Nat /\ kind \in Kinds
      /\ old.copy.factory \in DOMAIN factories
  BY <1>2 DEF DefaultChanged
<1>5. \A g \in DOMAIN factories :
         /\ factories'[g].impl = factories[g].impl
         /\ \A k \in Kinds : factories'[g].default[k] =
               IF g = old.copy.factory /\ k = kind THEN old.impl
               ELSE factories[g].default[k]
  BY <1>2 DEF DefaultChanged
<1>6. new.job = job /\ old.all /\ new.all
  BY <1>3, <1>4 DEF Same, Undisturbed, InStep
<1>7. /\ ~Unfinished(new) /\ ~Unfinished(old) /\ ~Announces(new) /\ ~Announces(old)
      /\ Relies(new) /\ Relies(old)
  BY <1>4, <1>6 DEF Unfinished, Announces, Relies, Recorders, Upgrades
<1>8. InProgress(old)
  BY <1>7 DEF Progress
<1>9. PICK r \in Deployments : r = old.copy
  BY <1>4
<1>10. PICK after : after = new.copy
  OBVIOUS
<1>11. /\ after.factory = r.factory /\ after.impl = r.impl
       /\ \A k \in Kinds : after.default[k] = IF k = kind THEN old.impl ELSE r.default[k]
       /\ DOMAIN after.createdTokens = DOMAIN r.createdTokens
       /\ \A i \in DOMAIN r.createdTokens :
             /\ after.createdTokens[i].token = r.createdTokens[i].token
             /\ \A k \in Kinds : after.createdTokens[i].impl[k] =
                   IF k = kind THEN old.impl ELSE r.createdTokens[i].impl[k]
       /\ Recorded(after) = Recorded(r)
  <2>1. after = ApplyMetadata(r, kind, {}, TRUE, old.impl)
    BY <1>4, <1>9, <1>10
  <2>2. MetadataApplied(r, kind, {}, TRUE, old.impl, after)
    BY <1>4, <2>1, MetadataDoes
  <2> QED
    BY <2>2 DEF MetadataApplied
<1>12. DefaultsFollow(new)'
  <2>1. \A k \in Kinds : r.default[k] \in {None, factories[r.factory].default[k]}
    BY <1>7, <1>8, <1>9 DEF InProgress, DefaultsFollow, DefaultAgrees
  <2>2. ASSUME NEW k \in Kinds
        PROVE  after.default[k] \in {None, factories'[after.factory].default[k]}
    BY <1>4, <1>5, <1>9, <1>11, <2>1
  <2> QED
    BY <1>7, <1>10, <2>2 DEF DefaultsFollow, DefaultAgrees, Unfinished
<1>13. FactoryFollows(new)'
  <2>1. factories[r.factory].impl = r.impl
    BY <1>4, <1>8, <1>9 DEF InProgress, FactoryFollows
  <2>2. factories'[after.factory].impl = after.impl
    BY <1>4, <1>5, <1>9, <1>11, <2>1
  <2> QED
    BY <1>4, <1>10, <2>2 DEF FactoryFollows
<1>14. LaunchesListed(new)'
  <2>1. \A t \in DOMAIN tokens : tokens[t].factory = r.factory => t \in Recorded(r)
    BY <1>7, <1>8, <1>9 DEF InProgress, LaunchesListed, Launched
  <2> QED
    BY <1>3, <1>10, <1>11, <2>1 DEF LaunchesListed, Launched, Recorded
<1>15. AnnouncedAgrees(new)'
  BY <1>7 DEF AnnouncedAgrees, Announces
<1>16. EntriesFollow(new)'
  <2>1. \A t \in Recorded(r) : tokens[t].impl[kind] = old.impl
    BY <1>1, <1>4, <1>6, <1>9 DEF Undisturbed, Converging, UpgradedTo
  <2>2. ASSUME NEW i \in DOMAIN after.createdTokens, NEW k \in Kinds
        PROVE  after.createdTokens[i].impl[k]
                  \in {None, tokens[after.createdTokens[i].token].impl[k]}
    <3>1. PICK t : t = r.createdTokens[i].token
      OBVIOUS
    <3>2. i \in DOMAIN r.createdTokens /\ t \in Recorded(r)
      BY <1>11, <3>1 DEF Recorded
    <3>3. k # kind => r.createdTokens[i].impl[k] \in {None, tokens[t].impl[k]}
      BY <1>1, <1>4, <1>8, <1>9, <3>1, <3>2
         DEF InProgress, EntriesFollow, EntryAgrees, UpgradingAll
    <3>4. /\ after.createdTokens[i].token = t
          /\ after.createdTokens[i].impl[k] =
                IF k = kind THEN old.impl ELSE r.createdTokens[i].impl[k]
      BY <1>11, <3>1, <3>2
    <3> QED
      BY <2>1, <3>2, <3>3, <3>4
  <2> QED
    BY <1>3, <1>10, <2>2 DEF EntriesFollow, EntryAgrees
<1> QED
  BY <1>7, <1>12, <1>13, <1>14, <1>15, <1>16 DEF Progress, InProgress, Relies

(***************************************************************************)
(* The factory's own implementation: at once, or, when the architecture is *)
(* upgraded, together with the hook.                                       *)
(***************************************************************************)
LEMMA FactoryStepsProgress ==
    ASSUME IInv, IInv', NEW p \in Commands, NEW old, old = proc[p], Undisturbed(old),
           Progress(old), NEW new, new = proc'[p],
           UpgradeFactory(p) \/ UpgradeFactoryFirst(p) \/ SetArchitectureDefault(p)
    PROVE  Progress(new)'
<1>1. /\ Same(old, new) /\ tokens' = tokens
      /\ old.job \in {"upgrade-factory", "upgrade-hook-architecture"}
      /\ new.step \in {"tx2", "write"}
      /\ new.copy.factory = old.copy.factory
      /\ new.copy.createdTokens = old.copy.createdTokens
  <2>1. CASE UpgradeFactory(p)
    BY <2>1, UpgradeFactoryDoes
  <2>2. CASE UpgradeFactoryFirst(p)
    BY <2>2, UpgradeFactoryFirstDoes
  <2>3. CASE SetArchitectureDefault(p)
    BY <2>3, SetArchitectureDefaultDoes
  <2> QED
    BY <2>1, <2>2, <2>3
<1>2. /\ new.job = old.job /\ ~Unfinished(new) /\ ~Unfinished(old) /\ ~old.all /\ ~new.all
      /\ ~Announces(new) /\ ~Announces(old) /\ Relies(new) /\ Relies(old)
  BY <1>1 DEF Same, Unfinished, Undisturbed, InStep, Upgrades, Announces, Relies, Recorders
<1>3. InProgress(old)
  BY <1>2 DEF Progress
<1>4. PICK r : r = old.copy
  OBVIOUS
<1>5. PICK after : after = new.copy
  OBVIOUS
<1>6. /\ \A k \in Kinds : r.default[k] \in {None, factories[r.factory].default[k]}
      /\ factories[r.factory].impl = IF old.step = "tx2" THEN old.impl ELSE r.impl
      /\ r.factory \in DOMAIN factories
  <2>1. r.factory \in DOMAIN factories
    BY <1>1, <1>4, RunOf DEF Sound, Copied, Recorders, Fine, HasCode
  <2> QED
    BY <1>2, <1>3, <1>4, <2>1 DEF InProgress, DefaultsFollow, DefaultAgrees, FactoryFollows
<1>7. /\ \A k \in Kinds : after.default[k] \in {None, factories'[after.factory].default[k]}
      /\ factories'[after.factory].impl = IF new.step = "tx2" THEN new.impl ELSE after.impl
  <2>1. CASE UpgradeFactory(p)
    <3>1. /\ new.step = "write" /\ after.factory = r.factory /\ after.impl = old.impl
          /\ after.default = r.default
          /\ \A g \in DOMAIN factories :
                /\ factories'[g].default = factories[g].default
                /\ factories'[g].impl = IF g = old.copy.factory THEN old.impl
                                        ELSE factories[g].impl
      BY <1>4, <1>5, <2>1, UpgradeFactoryDoes
    <3> QED
      BY <1>4, <1>6, <3>1
  <2>2. CASE UpgradeFactoryFirst(p)
    <3>1. /\ new.step = "tx2" /\ after = r /\ new.impl = old.impl
          /\ \A g \in DOMAIN factories :
                /\ factories'[g].default = factories[g].default
                /\ factories'[g].impl = IF g = old.copy.factory THEN old.impl
                                        ELSE factories[g].impl
      BY <1>4, <1>5, <2>2, UpgradeFactoryFirstDoes
    <3> QED
      BY <1>4, <1>6, <3>1
  <2>3. CASE SetArchitectureDefault(p)
    <3>1. /\ old.step = "tx2" /\ new.step = "write" /\ after.factory = r.factory
          /\ after.impl = old.impl
          /\ after.default["hook"] = old.impl + 1
          /\ after.default["router"] = r.default["router"]
      BY <1>4, <1>5, <2>3, SetArchitectureDefaultDoes
    <3>2. \A g \in DOMAIN factories :
             /\ factories'[g].impl = factories[g].impl
             /\ \A k \in Kinds : factories'[g].default[k] =
                   IF g = old.copy.factory /\ k = "hook" THEN old.impl + 1
                   ELSE factories[g].default[k]
      BY <2>3, SetArchitectureDefaultDoes
    <3>3. ASSUME NEW k \in Kinds
          PROVE  after.default[k] \in {None, factories'[after.factory].default[k]}
      BY <1>4, <1>6, <3>1, <3>2 DEF Kinds
    <3> QED
      BY <1>6, <3>1, <3>2, <3>3
  <2> QED
    BY <2>1, <2>2, <2>3
<1>8. DefaultsFollow(new)' /\ FactoryFollows(new)'
  BY <1>2, <1>5, <1>7 DEF DefaultsFollow, DefaultAgrees, Unfinished, FactoryFollows
<1>9. LaunchesListed(new)'
  BY <1>1, <1>2, <1>3 DEF InProgress, LaunchesListed, Launched, Recorded
<1>10. AnnouncedAgrees(new)'
  BY <1>2 DEF AnnouncedAgrees, Announces
<1>11. EntriesFollow(new)'
  BY <1>1, <1>2, <1>3 DEF InProgress, EntriesFollow, UpgradingAll, EntryAgrees
<1> QED
  BY <1>2, <1>8, <1>9, <1>10, <1>11 DEF Progress, InProgress, Relies

LEMMA ExportProgress ==
    ASSUME IInv, IInv', NEW p \in Commands, NEW old, old = proc[p], Progress(old),
           NEW new, new = proc'[p], Export(p)
    PROVE  Progress(new)'
<1>1. Exported(old.todo[1], old, new) /\ UNCHANGED Chain /\ UNCHANGED <<file, last>>
  <2>1. Exported(old.todo[1], old, new)
    BY ExportDoes
  <2> QED
    BY <2>1, ExportDoes
<1>2. ~Relies(old) /\ ~Relies(new)
  BY <1>1 DEF Exported, Same, Relies, Recorders, Upgrades, Idle
<1> QED
  BY <1>1, <1>2, FileAgreesLasts DEF Progress, Chain, Relies

LEMMA TruncateProgress ==
    ASSUME IInv, IInv', Exclusive, NEW p \in Commands, NEW old, old = proc[p],
           Undisturbed(old), Progress(old), NEW new, new = proc'[p], Truncate(p)
    PROVE  Progress(new)'
<1>1. /\ Goes(p) /\ Same(old, new) /\ old.step = "write" /\ new.step = "writing"
      /\ new.copy = old.copy /\ new.impl = old.impl /\ new.token = old.token
      /\ factories' = factories /\ tokens' = tokens
  BY TruncateDoes DEF Chain
<1>2. old.job # "idle" /\ old.job # "export" /\ old.job \in Jobs
  BY <1>1, RunOf DEF Goes, Undisturbed, InStep, Processes
<1>3. /\ new.job = old.job /\ ~Unfinished(new) /\ ~Unfinished(old)
      /\ ~Announces(new) /\ ~Announces(old) /\ Relies(new) /\ Relies(old)
  BY <1>1, <1>2 DEF Same, Unfinished, Announces, Relies, Jobs, Recorders, Upgrades
<1>4. InProgress(old)
  BY <1>3 DEF Progress
<1>5. DefaultsFollow(new)' /\ FactoryFollows(new)'
  BY <1>1, <1>3, <1>4
     DEF InProgress, DefaultsFollow, DefaultAgrees, Unfinished, FactoryFollows
<1>6. LaunchesListed(new)' /\ AnnouncedAgrees(new)'
  BY <1>1, <1>3, <1>4
     DEF InProgress, LaunchesListed, Launched, Recorded, AnnouncedAgrees, Announces
<1>7. EntriesFollow(new)'
  BY <1>1, <1>4 DEF InProgress, EntriesFollow, UpgradingAll, Ending, EntryAgrees
<1> QED
  BY <1>3, <1>5, <1>6, <1>7 DEF Progress, InProgress, Relies

(***************************************************************************)
(* What a command that is done has noted is all that it did.               *)
(***************************************************************************)
LEMMA WriteProgress ==
    ASSUME IInv, IInv', Exclusive, NEW p \in Commands, NEW old, old = proc[p],
           Undisturbed(old), Progress(old), NEW new, new = proc'[p], writeDeployment(p)
    PROVE  Progress(new)'
<1>1. /\ old.job # "idle" /\ old.step = "writing" /\ new = Idle
      /\ file' = old.copy /\ last' = old.copy
      /\ factories' = factories /\ tokens' = tokens
  BY WriteDoes DEF Chain
<1>2. old.job # "export" /\ old.job \in Jobs
  BY <1>1, RunOf DEF Undisturbed, InStep, Processes
<1>3. ~Unfinished(old) /\ ~Announces(old) /\ Relies(old) /\ ~Relies(new)
  BY <1>1, <1>2 DEF Unfinished, Announces, Relies, Jobs, Recorders, Upgrades, Idle
<1>4. InProgress(old)
  BY <1>3 DEF Progress
<1>5. PICK r : r = old.copy
  OBVIOUS
<1>6. Agrees(r)
  <2>1. \A k \in Kinds : DefaultAgrees(r, k)
    BY <1>3, <1>4, <1>5 DEF InProgress, DefaultsFollow
  <2>2. r.impl = factories[r.factory].impl
    BY <1>1, <1>4, <1>5 DEF InProgress, FactoryFollows
  <2>3. Launched(r.factory) \subseteq Recorded(r)
    BY <1>3, <1>4, <1>5 DEF InProgress, LaunchesListed
  <2>4. \A i \in DOMAIN r.createdTokens, k \in Kinds : EntryAgrees(r, i, k)
    BY <1>1, <1>4, <1>5 DEF InProgress, EntriesFollow, UpgradingAll, Ending
  <2> QED
    BY <2>1, <2>2, <2>3, <2>4 DEF Agrees
<1>7. FileAgrees'
  <2>1. /\ \A k \in Kinds : DefaultAgrees(r, k)'
        /\ (r.impl = factories[r.factory].impl)'
    BY <1>1, <1>6 DEF Agrees, DefaultAgrees
  <2>2. /\ (Launched(r.factory) \subseteq Recorded(r))'
        /\ \A i \in DOMAIN r.createdTokens, k \in Kinds : EntryAgrees(r, i, k)'
    BY <1>1, <1>6 DEF Agrees, Launched, Recorded, EntryAgrees
  <2>3. Agrees(r)'
    BY <2>1, <2>2 DEF Agrees
  <2>4. file' = r /\ last' = r
    BY <1>1, <1>5
  <2> QED
    BY <2>3, <2>4 DEF FileAgrees
<1> QED
  BY <1>3, <1>7 DEF Progress, Relies

-----------------------------------------------------------------------------
(* The third layer is inductive.                                           *)

LEMMA OrderlyActor ==
    ASSUME IInv, IInv', AInv, orderly, orderly', NEW p \in Commands, Command(p),
           NEW old, old = proc[p], Progress(old), Begins(p) => FileAgrees,
           NEW new, new = proc'[p]
    PROVE  Progress(new)'
<1>1. Exclusive
  BY DEF AInv
<1>2. Goes(p) => Undisturbed(old)
  BY DEF AInv, Exclusive, Goes
<1>3. CASE deploy(p)
  <2>1. CASE StartDeploy(p)
    <3>1. Begins(p)
      BY <2>1, StartDeployDoes
    <3> QED
      BY <2>1, <3>1, StartsProgress
  <2>2. CASE DeployFactory(p)
    <3>1. Goes(p)
      BY <2>2, DeployFactoryDoes
    <3> QED
      BY <1>2, <2>2, <3>1, DeployFactoryProgress
  <2>3. CASE SetFirstDefault(p)
    <3>1. Goes(p)
      BY <2>3, SetFirstDefaultDoes
    <3> QED
      BY <1>2, <2>3, <3>1, SetFirstDefaultProgress
  <2> QED
    BY <1>3, <2>1, <2>2, <2>3 DEF deploy
<1>4. CASE StartRewrite(p)
  <2>1. Begins(p)
    BY <1>4, StartRewriteDoes
  <2> QED
    BY <1>4, <2>1, StartsProgress
<1>5. CASE createToken(p)
  <2>1. CASE StartCreate(p)
    <3>1. Begins(p)
      BY <2>1, StartCreateDoes
    <3> QED
      BY <2>1, <3>1, StartsProgress
  <2>2. ASSUME NEW mined \in BOOLEAN, CreateToken(p, mined)
        PROVE  Progress(new)'
    <3>1. Goes(p)
      BY <2>2, CreateTokenDoes
    <3> QED
      BY <1>2, <2>2, <3>1, CreateTokenProgress
  <2>3. ASSUME NEW found \in BOOLEAN, readOptionalFactoryRouterImplementation(p, found)
        PROVE  Progress(new)'
    <3>1. Goes(p)
      BY <2>3, ReadRouterDoes
    <3> QED
      BY <1>2, <2>3, <3>1, ReadRouterProgress
  <2>4. ASSUME NEW found \in BOOLEAN, readOptionalFactoryHookImplementation(p, found)
        PROVE  Progress(new)'
    <3>1. Goes(p)
      BY <2>4, ReadHookDoes
    <3> QED
      BY <1>2, <2>4, <3>1, ReadHookProgress
  <2> QED
    BY <1>5, <2>1, <2>2, <2>3, <2>4 DEF createToken
<1>6. ASSUME NEW job \in Upgrades, Upgrade(p, job)
      PROVE  Progress(new)'
  <2>1. ASSUME NEW all \in BOOLEAN, StartUpgrade(p, job, all)
        PROVE  Progress(new)'
    <3>1. Begins(p)
      BY <2>1, StartUpgradeDoes
    <3> QED
      BY <2>1, <3>1, StartsProgress
  <2>2. CASE UpgradeProxy(p, job)
    <3>1. Goes(p)
      BY <2>2, UpgradeProxyDoes
    <3> QED
      BY <1>2, <2>2, <3>1, UpgradeProxyProgress
  <2>3. CASE SetDefault(p, job)
    <3>1. Goes(p)
      BY <2>3, SetDefaultDoes
    <3> QED
      BY <1>2, <2>3, <3>1, SetDefaultProgress
  <2> QED
    BY <1>6, <2>1, <2>2, <2>3 DEF Upgrade
<1>7. CASE upgradeHooks(p) \/ upgradeRouters(p)
  BY <1>6, <1>7 DEF upgradeHooks, upgradeRouters, Upgrades
<1>8. CASE StartFactoryUpgrade(p) \/ StartArchitectureUpgrade(p)
  <2>1. Begins(p)
    BY <1>8, StartFactoryUpgradeDoes, StartArchitectureUpgradeDoes
  <2> QED
    BY <1>8, <2>1, StartsProgress
<1>9. CASE UpgradeFactory(p) \/ UpgradeFactoryFirst(p) \/ SetArchitectureDefault(p)
  <2>1. Goes(p)
    BY <1>9, UpgradeFactoryDoes, UpgradeFactoryFirstDoes, SetArchitectureDefaultDoes
  <2> QED
    BY <1>2, <1>9, <2>1, FactoryStepsProgress
<1>10. CASE StartExport(p)
  <2>1. Begins(p)
    BY <1>10, StartExportDoes
  <2> QED
    BY <1>10, <2>1, StartsProgress
<1>11. CASE Export(p)
  BY <1>11, ExportProgress
<1>12. CASE Truncate(p)
  <2>1. Goes(p)
    BY <1>1, <1>12, TruncateDoes
  <2> QED
    BY <1>1, <1>2, <1>12, <2>1, TruncateProgress
<1>13. CASE writeDeployment(p)
  <2>1. Goes(p)
    BY <1>1, <1>13, WriteDoes
  <2> QED
    BY <1>1, <1>2, <1>13, <2>1, WriteProgress
<1>14. CASE Stop(p)
  BY <1>14, StopDoes
<1> QED
  BY <1>3, <1>4, <1>5, <1>7, <1>8, <1>9, <1>10, <1>11, <1>12, <1>13, <1>14
     DEF Command, upgradeFactory, upgradeHookArchitecture, exportAbis

LEMMA IdleRelies == ~Relies(Idle)
BY DEF Relies, Recorders, Upgrades, Idle

LEMMA CommandOrderly ==
    ASSUME IInv, IInv', AInv, OInv, NEW p \in Commands, Command(p)
    PROVE  OInv'
<1> SUFFICES ASSUME orderly'
             PROVE  /\ \A q \in Commands : Relies(proc'[q]) => InProgress(proc[q])'
                    /\ (\A q \in Commands : ~Relies(proc'[q])) => FileAgrees'
  BY DEF OInv, Relies
<1>1. Exclusive /\ (Begins(p) \/ Goes(p))
  BY CommandActs DEF AInv
<1>2. PICK old : old = proc[p]
  OBVIOUS
<1>3. PICK new : new = proc'[p]
  OBVIOUS
<1>4. orderly
  BY <1>1 DEF Begins, Begin, Goes
<1>5. \A q \in Commands : q # p => proc[q] = Idle
  <2>1. CASE Begins(p)
    BY <1>1, <2>1 DEF Begins, Begin, Quiet, Exclusive
  <2>2. CASE Goes(p)
    BY <1>1, <1>4, <2>2 DEF Goes, Exclusive
  <2> QED
    BY <1>1, <2>1, <2>2
<1>6. Progress(old)
  BY <1>2, <1>4, <1>5, IdleRelies DEF OInv, Progress
<1>7. ASSUME Begins(p)
      PROVE  FileAgrees
  <2>1. old = Idle
    BY <1>1, <1>2, <1>7 DEF Begins, Begin, Exclusive
  <2> QED
    BY <1>6, <2>1, IdleRelies DEF Progress
<1>8. Progress(new)'
  BY <1>2, <1>3, <1>4, <1>6, <1>7, OrderlyActor
<1>9. /\ Exclusive'
      /\ \A q \in Commands : q # p /\ proc'[q].alone => proc'[q].job = "idle"
  BY <1>1, BeginsExclusive, GoesExclusive
<1>10. \A q \in Commands : q # p => proc'[q] = Idle
  BY <1>9 DEF Exclusive
<1>11. ASSUME NEW q \in Commands, Relies(proc'[q])
       PROVE  InProgress(proc[q])'
  <2>1. q = p
    BY <1>10, <1>11, IdleRelies
  <2>2. InProgress(new)'
    BY <1>3, <1>8, <1>11, <2>1 DEF Progress, Relies
  <2> QED
    BY <1>3, <2>1, <2>2
<1>12. ASSUME \A q \in Commands : ~Relies(proc'[q])
       PROVE  FileAgrees'
  <2>1. ~Relies(new)
    BY <1>3, <1>12
  <2> QED
    BY <1>8, <2>1 DEF Progress, Relies
<1> QED
  BY <1>11, <1>12

LEMMA NextOrderly == IInv /\ IInv' /\ AInv /\ OInv /\ [Next]_vars => OInv'
<1> SUFFICES ASSUME IInv, IInv', AInv, OInv, [Next]_vars
             PROVE  OInv'
  OBVIOUS
<1>1. CASE Next
  BY <1>1, CommandOrderly DEF Next
<1>2. CASE UNCHANGED vars
  <2>1. /\ proc' = proc /\ tokens' = tokens /\ factories' = factories
        /\ file' = file /\ last' = last /\ orderly' = orderly
    BY <1>2 DEF vars
  <2>2. ASSUME NEW run, InProgress(run)
        PROVE  InProgress(run)'
    <3>1. DefaultsFollow(run)' /\ FactoryFollows(run)' /\ EntriesFollow(run)'
      BY <2>1, <2>2 DEF InProgress, DefaultsFollow, DefaultAgrees, Unfinished,
         FactoryFollows, EntriesFollow, UpgradingAll, EntryAgrees
    <3>2. LaunchesListed(run)' /\ AnnouncedAgrees(run)'
      BY <2>1, <2>2 DEF InProgress, LaunchesListed, Launched, Recorded,
         AnnouncedAgrees, Announces
    <3> QED
      BY <3>1, <3>2 DEF InProgress
  <2>3. ASSUME orderly, NEW q \in Commands, Relies(proc[q])
        PROVE  InProgress(proc[q])'
    <3>1. PICK run : run = proc[q]
      OBVIOUS
    <3>2. InProgress(run)'
      BY <2>2, <2>3, <3>1 DEF OInv
    <3> QED
      BY <2>1, <3>1, <3>2
  <2>4. FileAgrees => FileAgrees'
    BY <2>1, FileAgreesLasts
  <2> QED
    BY <2>1, <2>3, <2>4 DEF OInv, Relies
<1> QED
  BY <1>1, <1>2

LEMMA InitOrderly == Init => OInv
<1> SUFFICES ASSUME Init
             PROVE  OInv
  OBVIOUS
<1>1. \A p \in Commands : proc[p] = Idle
  BY DEF Init
<1>2. file = last /\ tokens = <<>>
  BY DEF Init
<1>3. ASSUME last # NoRecord
      PROVE  Agrees(last)
  <2>1. last = LegacyRecord /\ factories = <<LegacyFactory>>
    BY <1>3 DEF Init
  <2>2. factories[1] = LegacyFactory
    BY <2>1
  <2>3. \A f : Launched(f) = {}
    BY <1>2 DEF Launched
  <2> QED
    BY <2>1, <2>2, <2>3 DEF Agrees, DefaultAgrees, LegacyRecord, LegacyFactory
<1> QED
  BY <1>1, <1>2, <1>3, IdleRelies DEF OInv, FileAgrees

(***************************************************************************)
(* OInv is invariant: a record lags behind the chain only by what a        *)
(* command in progress has done.                                           *)
(***************************************************************************)
THEOREM OrderlyHolds == Spec => []OInv
<1>1. IInv /\ IInv' /\ AInv /\ OInv /\ [Next]_vars => OInv'
  BY NextOrderly
<1> QED
  BY <1>1, InitOrderly, InvariantHolds, UndisturbedHolds, PTL DEF Spec

(***************************************************************************)
(* As long as commands run one after the other and none stops half-way,    *)
(* the record and the chain agree between two commands: the doctor passes, *)
(* no launch of the factory is missing, and every recorded implementation  *)
(* is the one the proxy runs.                                              *)
(***************************************************************************)
THEOREM SequenceKeepsRecord == Spec => []SequentialCommandsKeepRecord
<1>1. ASSUME IInv, AInv, OInv, orderly, Quiet, last # NoRecord
      PROVE  Readable(file) /\ InSync(file)
  <2>1. \A p \in Commands : ~Relies(proc[p])
    BY <1>1, IdleRelies DEF Quiet, AInv, Exclusive
  <2>2. PICK r : r = file
    OBVIOUS
  <2>3. r # NoRecord /\ r = last /\ Agrees(r)
    BY <1>1, <2>1, <2>2 DEF OInv, FileAgrees
  <2>4. /\ HasCode(r) /\ Recorded(r) \subseteq Launched(r.factory)
        /\ r.factory \in DOMAIN factories /\ Recorded(r) \subseteq DOMAIN tokens
    BY <1>1, <2>2, <2>3 DEF IInv, DiskOK, Real, HasCode
  <2>5. Recorded(r) = Launched(r.factory)
    BY <2>3, <2>4 DEF Agrees
  <2>6. requireAddress(r)
    <3>1. None \notin DOMAIN factories /\ None \notin DOMAIN tokens
      BY <1>1 DEF IInv, ChainOK, None
    <3> QED
      BY <2>4, <3>1 DEF requireAddress
  <2>7. checkFactoryConfig(r)
    BY <2>3 DEF checkFactoryConfig, Agrees, DefaultAgrees
  <2>8. \A i \in DOMAIN r.createdTokens, k \in Kinds :
           r.createdTokens[i].impl[k]
              \in {None, readProxyImplementation(r.createdTokens[i].token, k)}
    BY <2>3 DEF Agrees, EntryAgrees, readProxyImplementation
  <2>9. InSync(r)
    BY <2>3, <2>4, <2>5, <2>6, <2>7, <2>8 DEF InSync, doctorDeployment, Agrees
  <2> QED
    BY <2>2, <2>3, <2>9 DEF Readable
<1>2. IInv /\ AInv /\ OInv => SequentialCommandsKeepRecord
  BY <1>1 DEF SequentialCommandsKeepRecord
<1> QED
  BY <1>2, InvariantHolds, UndisturbedHolds, OrderlyHolds, PTL

=============================================================================
