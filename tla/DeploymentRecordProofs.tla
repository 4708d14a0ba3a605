----------------------- MODULE DeploymentRecordProofs -----------------------
(***************************************************************************)
(* What a record says is there, for any number of commands, tokens and     *)
(* factories, however the commands overlap and wherever they stop.         *)
(***************************************************************************)
EXTENDS DeploymentRecord, FiniteSetTheorems, SequenceTheorems, TLAPS

-----------------------------------------------------------------------------
(* The inductive invariant.  A record is written by a command from a copy  *)
(* it has read much earlier, so what is true of the file must be true of   *)
(* every copy, at every moment: the chain only grows.                      *)

ChainOK ==
    /\ code \in Nat /\ factories \in Seq(Factories) /\ tokens \in Seq(Tokens)
    /\ \A f \in DOMAIN factories, k \in Kinds : factories[f].default[k] <= code
    /\ \A t \in DOMAIN tokens : tokens[t].factory \in DOMAIN factories

\* A record of a deployment, and nothing in it that is not there.
Fine(r) ==
    /\ HasCode(r)
    /\ Recorded(r) \subseteq Launched(r.factory)
    /\ \A i, j \in DOMAIN r.createdTokens :
          r.createdTokens[i].token = r.createdTokens[j].token => i = j

\* RecordedFactoryCanCreate, of any record.
CanCreate(r) ==
    Readable(r) /\ r.default["hook"] # None =>
        factories[r.factory].default["hook"] # None

Upgrades == {"upgrade-hooks", "upgrade-routers"}

\* The jobs that work on a record.
Recorders == Upgrades \cup {"rewrite", "create-token", "upgrade-factory",
                            "upgrade-hook-architecture"}

(***************************************************************************)
(* What a command may rely on at each of its steps.  Only a deployment     *)
(* between its last two transactions has a copy that promises too much.    *)
(***************************************************************************)
Copied(run) ==
    /\ run.copy # NoRecord => Fine(run.copy)
    /\ run.job \in Recorders => run.copy # NoRecord
    /\ run.job = "deploy" /\ run.step = "default" => run.copy # NoRecord /\ run.impl # None
    /\ ~(run.job = "deploy" /\ run.step = "default") => CanCreate(run.copy)

Creating(run) ==
    run.job = "create-token" =>
        /\ \A k \in Kinds : run.token.impl[k] <= code
        /\ run.step \in {"router", "hook"} =>
              run.token.token \in Launched(run.copy.factory) \ Recorded(run.copy)

Upgrading(run) ==
    /\ run.impl <= code
    /\ run.job \in Upgrades =>
          /\ run.impl # None
          /\ run.step = "tx" => run.todo # <<>>
          /\ \A i \in DOMAIN run.todo : run.todo[i] \in Recorded(run.copy)
    /\ run.job = "upgrade-hook-architecture" => run.impl + 1 <= code
    /\ run.job = "export" => run.todo # <<>>

Sound(run) == run \in Processes /\ Copied(run) /\ Creating(run) /\ Upgrading(run)

DiskOK ==
    /\ file \in Deployments /\ last \in Deployments /\ bundle \in [1..Bundles -> Directories]
    /\ Real(file) /\ CanCreate(file) /\ Real(last)

LogOK == starts \in Nat /\ solo \in BOOLEAN /\ orderly \in BOOLEAN

ProcOK == proc \in [Commands -> Processes] /\ \A p \in Commands : Sound(proc[p])

IInv == ChainOK /\ DiskOK /\ LogOK /\ ProcOK

-----------------------------------------------------------------------------
(* The chain only grows.                                                   *)

Grows ==
    /\ code <= code'
    /\ Len(factories) <= Len(factories')
    /\ \A f \in DOMAIN factories :
          factories[f].default["hook"] # None => factories'[f].default["hook"] # None
    /\ Len(tokens) <= Len(tokens')
    /\ \A t \in DOMAIN tokens : tokens'[t].factory = tokens[t].factory

LEMMA FineLasts ==
    ASSUME NEW r \in Deployments, ChainOK, ChainOK', Grows, Fine(r)
    PROVE  Fine(r)'
<1>1. /\ DOMAIN factories \subseteq DOMAIN factories' /\ DOMAIN tokens \subseteq DOMAIN tokens'
      /\ code \in Nat /\ code' \in Nat /\ code <= code'
  BY DEF ChainOK, Grows
<1>2. Launched(r.factory) \subseteq Launched(r.factory)'
  BY <1>1 DEF Launched, Grows
<1>3. Recorded(r) = Recorded(r)'
  BY DEF Recorded
<1>4. HasCode(r)'
  <2>1. /\ r.factory \in DOMAIN factories /\ r.impl <= code /\ Recorded(r) \subseteq DOMAIN tokens
    BY DEF Fine, HasCode
  <2>2. r.impl \in Nat
    BY DEF Deployments
  <2>3. r.factory \in DOMAIN factories' /\ r.impl <= code' /\ Recorded(r)' \subseteq DOMAIN tokens'
    BY <1>1, <1>3, <2>1, <2>2
  <2>4. ASSUME NEW k \in Kinds
        PROVE  r.default[k] <= code'
    <3>1. r.default[k] \in Nat /\ r.default[k] <= code
      BY DEF Deployments, Fine, HasCode
    <3> QED
      BY <1>1, <3>1
  <2>5. ASSUME NEW k \in Kinds, NEW i \in DOMAIN r.createdTokens
        PROVE  r.createdTokens[i].impl[k] <= code'
    <3>1. r.createdTokens[i] \in Entries
      BY DEF Deployments
    <3>2. r.createdTokens[i].impl[k] \in Nat /\ r.createdTokens[i].impl[k] <= code
      BY <3>1 DEF Entries, Fine, HasCode
    <3> QED
      BY <1>1, <3>2
  <2> QED
    BY <2>3, <2>4, <2>5 DEF HasCode
<1> QED
  BY <1>2, <1>3, <1>4 DEF Fine

LEMMA CanCreateLasts ==
    ASSUME NEW r \in Deployments, Grows, CanCreate(r), r # NoRecord => Fine(r)
    PROVE  CanCreate(r)'
<1> SUFFICES ASSUME Readable(r), r.default["hook"] # None
             PROVE  factories'[r.factory].default["hook"] # None
  BY DEF CanCreate, Readable
<1>1. r.factory \in DOMAIN factories
  BY DEF Readable, Fine, HasCode
<1>2. factories[r.factory].default["hook"] # None
  BY DEF CanCreate
<1> QED
  BY <1>1, <1>2 DEF Grows

LEMMA SoundLasts ==
    ASSUME NEW run, ChainOK, ChainOK', Grows, Sound(run)
    PROVE  Sound(run)'
<1>0. run \in Processes /\ run.copy \in Deployments /\ run.impl \in Nat /\ run.token \in Entries
  BY DEF Sound, Processes
<1>1. code \in Nat /\ code' \in Nat /\ code <= code'
  BY DEF ChainOK, Grows
<1>2. Copied(run)'
  <2>1. run.copy # NoRecord => Fine(run.copy)'
    BY <1>0, FineLasts DEF Sound, Copied
  <2>2. ~(run.job = "deploy" /\ run.step = "default") => CanCreate(run.copy)'
    BY <1>0, CanCreateLasts DEF Sound, Copied
  <2> QED
    BY <2>1, <2>2 DEF Sound, Copied
<1>3. Creating(run)'
  <2> SUFFICES ASSUME run.job = "create-token"
               PROVE  /\ \A k \in Kinds : run.token.impl[k] <= code'
                      /\ run.step \in {"router", "hook"} =>
                            run.token.token \in Launched(run.copy.factory)' \ Recorded(run.copy)
    BY DEF Creating, Recorded
  <2>1. /\ \A k \in Kinds : run.token.impl[k] <= code
        /\ run.step \in {"router", "hook"} =>
              run.token.token \in Launched(run.copy.factory) \ Recorded(run.copy)
    BY DEF Sound, Creating
  <2>2. Launched(run.copy.factory) \subseteq Launched(run.copy.factory)'
    BY DEF ChainOK, Grows, Launched
  <2>3. \A k \in Kinds : run.token.impl[k] \in Nat
    BY <1>0 DEF Entries
  <2> QED
    BY <1>1, <2>1, <2>2, <2>3
<1>4. Upgrading(run)'
  BY <1>0, <1>1 DEF Sound, Upgrading, Recorded
<1> QED
  BY <1>0, <1>2, <1>3, <1>4 DEF Sound

-----------------------------------------------------------------------------
(* Steps of one process.                                                   *)

LEMMA ChainSame ==
    ASSUME ChainOK, UNCHANGED Chain
    PROVE  ChainOK' /\ Grows
BY DEF ChainOK, Grows, Chain

LEMMA DiskLasts ==
    ASSUME ChainOK, ChainOK', Grows, DiskOK, UNCHANGED Disk
    PROVE  DiskOK'
<1>1. /\ file' = file /\ last' = last /\ bundle' = bundle
      /\ file \in Deployments
  BY DEF Disk, DiskOK
<1>2. PICK r : r = file
  OBVIOUS
<1>3. Real(r) /\ CanCreate(r) /\ r \in Deployments
  BY <1>1, <1>2 DEF DiskOK
<1>4. r # NoRecord => Fine(r) /\ Fine(r)'
  BY <1>3, FineLasts DEF Real, Fine
<1>5. Real(r)'
  BY <1>4 DEF Real, Fine
<1>6. CanCreate(r)'
  BY <1>3, <1>4, CanCreateLasts
<1>7. Real(file)'
  BY <1>1, <1>2, <1>5
<1>8. CanCreate(file)'
  BY <1>1, <1>2, <1>6
<1>9. Real(last)'
  <2>1. PICK l : l = last
    OBVIOUS
  <2>2. Real(l) /\ l \in Deployments
    BY <2>1 DEF DiskOK
  <2>3. Real(l)'
    BY <2>2, FineLasts DEF Real, Fine
  <2> QED
    BY <1>1, <2>1, <2>3
<1>10. last' \in Deployments
  BY <1>1 DEF DiskOK
<1> QED
  BY <1>1, <1>7, <1>8, <1>9, <1>10 DEF DiskOK

(***************************************************************************)
(* Whether a command is alone is nothing it relies on.                     *)
(***************************************************************************)
LEMMA SoundAlone ==
    ASSUME NEW run \in Processes, NEW b \in BOOLEAN, Sound(run)'
    PROVE  Sound([run EXCEPT !.alone = b])'
<1>1. PICK other : other = [run EXCEPT !.alone = b]
  OBVIOUS
<1>2. /\ other \in Processes
      /\ other.job = run.job /\ other.step = run.step /\ other.copy = run.copy
      /\ other.todo = run.todo /\ other.impl = run.impl /\ other.token = run.token
  BY <1>1 DEF Processes
<1>3. Copied(other)'
  BY <1>2 DEF Sound, Copied
<1>4. Creating(other)'
  BY <1>2 DEF Sound, Creating
<1>5. Upgrading(other)'
  BY <1>2 DEF Sound, Upgrading
<1>6. Sound(other)'
  BY <1>2, <1>3, <1>4, <1>5 DEF Sound
<1> QED
  BY <1>1, <1>6

LEMMA NoRecordType == NoRecord \in Deployments
BY DEF NoRecord, Deployments, None, Kinds

LEMMA IdleType == Idle \in Processes
BY NoRecordType DEF Idle, Processes, Jobs, NoEntry, Entries, None, Kinds

LEMMA IdleSound ==
    ASSUME ChainOK'
    PROVE  Sound(Idle)'
<1>1. /\ Idle.job = "idle" /\ Idle.copy = NoRecord /\ Idle.impl = 0
  BY DEF Idle, None
<1>2. code' \in Nat
  BY DEF ChainOK
<1>3. Copied(Idle)'
  BY <1>1 DEF Copied, Recorders, Upgrades, CanCreate, Readable
<1>4. Creating(Idle)'
  BY <1>1 DEF Creating
<1>5. Upgrading(Idle)'
  BY <1>1, <1>2 DEF Upgrading, Upgrades
<1> QED
  BY <1>3, <1>4, <1>5, IdleType DEF Sound

LEMMA Continued ==
    ASSUME IInv, NEW p \in Commands, NEW run, proc' = [proc EXCEPT ![p] = run],
           ChainOK', Grows, DiskOK', LogOK', Sound(run)'
    PROVE  IInv'
<1>1. run \in Processes
  BY DEF Sound
<1>2. proc' \in [Commands -> Processes]
  BY <1>1 DEF IInv, ProcOK
<1>3. ASSUME NEW q \in Commands
      PROVE  Sound(proc[q])'
  <2>1. CASE q = p
    <3>1. proc'[q] = run
      BY <2>1 DEF IInv, ProcOK
    <3> QED
      BY <3>1
  <2>2. CASE q # p
    <3>1. PICK other : other = proc[q]
      OBVIOUS
    <3>2. Sound(other)
      BY <3>1 DEF IInv, ProcOK
    <3>3. Sound(other)'
      BY <3>2, SoundLasts DEF IInv
    <3>4. proc'[q] = other
      BY <2>2, <3>1 DEF IInv, ProcOK
    <3> QED
      BY <3>3, <3>4
  <2> QED
    BY <2>1, <2>2
<1> QED
  BY <1>2, <1>3 DEF IInv, ProcOK

LEMMA Begun ==
    ASSUME IInv, NEW p \in Commands, NEW started, Begin(p, started),
           ChainOK', Grows, UNCHANGED Disk, Sound(started)'
    PROVE  IInv'
<1>1. started \in Processes
  BY DEF Sound
<1>2. Quiet \in BOOLEAN
  BY DEF Quiet
<1>3. DiskOK'
  BY DiskLasts DEF IInv
<1>4. LogOK'
  <2>1. starts' \in Nat
    BY DEF Begin, IInv, LogOK
  <2>2. solo' \in BOOLEAN /\ orderly' \in BOOLEAN
    BY DEF Begin
  <2> QED
    BY <2>1, <2>2 DEF LogOK
<1>5. ASSUME NEW q \in Commands
      PROVE  proc'[q] \in Processes /\ Sound(proc[q])'
  <2>1. CASE q = p
    <3>1. PICK alone : alone = Quiet
      OBVIOUS
    <3>2. proc'[q] = [started EXCEPT !.alone = alone]
      BY <2>1, <3>1 DEF Begin
    <3>3. Sound([started EXCEPT !.alone = alone])'
      BY <1>1, <1>2, <3>1, SoundAlone
    <3>4. Sound(proc[q])'
      BY <3>2, <3>3
    <3> QED
      BY <3>4 DEF Sound
  <2>2. CASE q # p /\ proc[q].job = "idle"
    <3>1. proc'[q] = Idle
      BY <2>2 DEF Begin
    <3> QED
      BY <3>1, IdleSound, IdleType
  <2>3. CASE q # p /\ proc[q].job # "idle"
    <3>1. PICK other : other = proc[q]
      OBVIOUS
    <3>2. Sound(other) /\ other \in Processes
      BY <3>1 DEF IInv, ProcOK
    <3>3. Sound(other)'
      BY <3>2, SoundLasts DEF IInv
    <3>4. Sound([other EXCEPT !.alone = FALSE])'
      BY <3>2, <3>3, SoundAlone
    <3>5. proc'[q] = [other EXCEPT !.alone = FALSE]
      BY <2>3, <3>1 DEF Begin
    <3>6. Sound(proc[q])'
      BY <3>4, <3>5
    <3> QED
      BY <3>6 DEF Sound
  <2> QED
    BY <2>1, <2>2, <2>3
<1>6. proc' \in [Commands -> Processes]
  BY <1>5 DEF Begin
<1> QED
  BY <1>3, <1>4, <1>5, <1>6 DEF IInv, ProcOK

-----------------------------------------------------------------------------
(* The chain after each kind of transaction.                               *)

(***************************************************************************)
(* A default of a factory is set to an implementation that is there.       *)
(***************************************************************************)
LEMMA DefaultSetGrows ==
    ASSUME ChainOK, NEW f \in DOMAIN factories, NEW kind \in Kinds,
           NEW impl \in Nat, impl # None, impl <= code,
           factories' = DefaultSet(f, kind, impl), UNCHANGED <<code, tokens>>
    PROVE  /\ ChainOK' /\ Grows
           /\ factories'[f].default[kind] = impl
           /\ DOMAIN factories' = DOMAIN factories
           /\ \A g \in DOMAIN factories :
                 /\ factories'[g].impl = factories[g].impl
                 /\ \A k \in Kinds : factories'[g].default[k] =
                       IF g = f /\ k = kind THEN impl ELSE factories[g].default[k]
<1>1. factories[f] \in Factories
  BY DEF ChainOK
<1>2. PICK old : old = factories[f]
  OBVIOUS
<1>3. PICK new : new = [old EXCEPT !.default[kind] = impl]
  OBVIOUS
<1>4. /\ new \in Factories
      /\ new.impl = old.impl
      /\ new.default[kind] = impl
      /\ \A k \in Kinds : new.default[k] = IF k = kind THEN impl ELSE old.default[k]
  BY <1>1, <1>2, <1>3 DEF Factories
<1>5. factories' = [factories EXCEPT ![f] = new]
  BY <1>2, <1>3 DEF DefaultSet
<1>6. factories \in Seq(Factories) /\ f \in 1..Len(factories)
  BY DEF ChainOK
<1>7. /\ factories' \in Seq(Factories)
      /\ Len(factories') = Len(factories)
      /\ \A g \in 1..Len(factories) : factories'[g] = IF g = f THEN new ELSE factories[g]
  BY <1>4, <1>5, <1>6, ExceptSeq
<1>8. /\ DOMAIN factories = 1..Len(factories) /\ DOMAIN factories' = 1..Len(factories)
  BY <1>6, <1>7
<1>9. ASSUME NEW g \in DOMAIN factories, NEW k \in Kinds
      PROVE  factories'[g].default[k] <= code'
  BY <1>2, <1>4, <1>7, <1>8 DEF ChainOK
<1>10. ChainOK'
  BY <1>7, <1>8, <1>9 DEF ChainOK
<1>11. ASSUME NEW g \in DOMAIN factories, factories[g].default["hook"] # None
       PROVE  factories'[g].default["hook"] # None
  BY <1>2, <1>4, <1>7, <1>8, <1>11 DEF Kinds
<1>12. Grows
  BY <1>7, <1>11 DEF Grows, ChainOK
<1>13. ASSUME NEW g \in DOMAIN factories, NEW k \in Kinds
       PROVE  /\ factories'[g].impl = factories[g].impl
              /\ factories'[g].default[k] =
                    IF g = f /\ k = kind THEN impl ELSE factories[g].default[k]
  BY <1>2, <1>4, <1>7, <1>8
<1>14. factories'[f].default[kind] = impl
  BY <1>4, <1>6, <1>7
<1> QED
  BY <1>8, <1>10, <1>12, <1>13, <1>14 DEF Kinds

(***************************************************************************)
(* A new implementation of a factory leaves its defaults alone.            *)
(***************************************************************************)
LEMMA FactoryUpgradeGrows ==
    ASSUME ChainOK, NEW f \in DOMAIN factories, NEW impl \in Nat,
           factories' = [factories EXCEPT ![f].impl = impl], UNCHANGED <<code, tokens>>
    PROVE  /\ ChainOK' /\ Grows
           /\ DOMAIN factories' = DOMAIN factories
           /\ \A g \in DOMAIN factories :
                 /\ factories'[g].default = factories[g].default
                 /\ factories'[g].impl = IF g = f THEN impl ELSE factories[g].impl
<1>1. factories[f] \in Factories
  BY DEF ChainOK
<1>2. PICK new : new = [factories[f] EXCEPT !.impl = impl]
  OBVIOUS
<1>3. new \in Factories /\ new.default = factories[f].default /\ new.impl = impl
  BY <1>1, <1>2 DEF Factories
<1>4. factories' = [factories EXCEPT ![f] = new]
  BY <1>2
<1>5. factories \in Seq(Factories) /\ f \in 1..Len(factories)
  BY DEF ChainOK
<1>6. /\ factories' \in Seq(Factories)
      /\ Len(factories') = Len(factories)
      /\ \A g \in 1..Len(factories) : factories'[g] = IF g = f THEN new ELSE factories[g]
  BY <1>3, <1>4, <1>5, ExceptSeq
<1>7. DOMAIN factories = 1..Len(factories) /\ DOMAIN factories' = 1..Len(factories)
  BY <1>5, <1>6
<1>8. \A g \in DOMAIN factories : factories'[g].default = factories[g].default
  BY <1>3, <1>6, <1>7
<1>9. \A g \in DOMAIN factories :
         factories'[g].impl = IF g = f THEN impl ELSE factories[g].impl
  BY <1>3, <1>6, <1>7
<1>10. ChainOK' /\ Grows
  BY <1>6, <1>7, <1>8 DEF ChainOK, Grows
<1> QED
  BY <1>6, <1>7, <1>8, <1>9, <1>10

LEMMA CodeGrows ==
    ASSUME ChainOK, NEW n \in Nat, code' = code + n, UNCHANGED <<factories, tokens>>
    PROVE  ChainOK' /\ Grows
<1>1. code \in Nat /\ code' \in Nat /\ code <= code'
  BY DEF ChainOK
<1>2. ASSUME NEW f \in DOMAIN factories, NEW k \in Kinds
      PROVE  factories'[f].default[k] <= code'
  <2>1. factories[f] \in Factories
    BY DEF ChainOK
  <2>2. factories[f].default[k] \in Nat
    BY <2>1 DEF Factories
  <2>3. factories[f].default[k] <= code
    BY DEF ChainOK
  <2> QED
    BY <1>1, <2>2, <2>3
<1> QED
  BY <1>1, <1>2 DEF ChainOK, Grows

-----------------------------------------------------------------------------
(* Commands that start.                                                    *)

(***************************************************************************)
(* The file is as good as what a process may copy from it.                 *)
(***************************************************************************)
LEMMA FileIsFine ==
    ASSUME DiskOK, Readable(file)
    PROVE  file \in Deployments /\ file # NoRecord /\ Fine(file) /\ CanCreate(file)
BY DEF DiskOK, Readable, Real, Fine

LEMMA StartDeployKeeps ==
    ASSUME IInv, NEW p \in Commands, StartDeploy(p)
    PROVE  IInv'
<1>1. ChainOK' /\ Grows
  BY ChainSame DEF StartDeploy, IInv
<1>2. PICK run : run = [Idle EXCEPT !.job = "deploy", !.step = "tx"]
  OBVIOUS
<1>3. /\ run \in Processes
      /\ run.job = "deploy" /\ run.step = "tx" /\ run.copy = NoRecord /\ run.impl = 0
  BY <1>2, IdleType DEF Processes, Jobs, Idle, None
<1>4. Copied(run)'
  BY <1>3 DEF Copied, Recorders, Upgrades, CanCreate, Readable
<1>5. Creating(run)' /\ Upgrading(run)'
  BY <1>1, <1>3 DEF Creating, Upgrading, Upgrades, ChainOK
<1>6. Sound(run)'
  BY <1>3, <1>4, <1>5 DEF Sound
<1> QED
  BY <1>1, <1>2, <1>6, Begun DEF StartDeploy

(***************************************************************************)
(* A command that starts from the record copies it.                        *)
(***************************************************************************)
LEMMA CopySound ==
    ASSUME ChainOK, ChainOK', Grows, DiskOK, Readable(file),
           NEW run \in Processes, run.copy = file, run.job # "deploy"
    PROVE  Copied(run)'
<1>1. PICK r : r = file
  OBVIOUS
<1>2. r \in Deployments /\ r # NoRecord /\ Fine(r) /\ CanCreate(r)
  BY <1>1, FileIsFine
<1>3. Fine(r)'
  BY <1>2, FineLasts
<1>4. CanCreate(r)'
  BY <1>2, CanCreateLasts
<1> QED
  BY <1>1, <1>2, <1>3, <1>4 DEF Copied

LEMMA StartRewriteKeeps ==
    ASSUME IInv, NEW p \in Commands, StartRewrite(p)
    PROVE  IInv'
<1>1. ChainOK' /\ Grows
  BY ChainSame DEF StartRewrite, IInv
<1>2. PICK run : run = [Idle EXCEPT !.job = "rewrite", !.step = "write", !.copy = file]
  OBVIOUS
<1>3. /\ run \in Processes
      /\ run.job = "rewrite" /\ run.copy = file /\ run.impl = 0
  BY <1>2, IdleType DEF Processes, Jobs, Idle, None, IInv, DiskOK
<1>4. Copied(run)'
  BY <1>1, <1>3, CopySound DEF StartRewrite, IInv
<1>5. Creating(run)' /\ Upgrading(run)'
  BY <1>1, <1>3 DEF Creating, Upgrading, Upgrades, ChainOK
<1>6. Sound(run)'
  BY <1>3, <1>4, <1>5 DEF Sound
<1> QED
  BY <1>1, <1>2, <1>6, Begun DEF StartRewrite

LEMMA StartCreateKeeps ==
    ASSUME IInv, NEW p \in Commands, StartCreate(p)
    PROVE  IInv'
<1>1. ChainOK' /\ Grows
  BY ChainSame DEF StartCreate, IInv
<1>2. PICK run : run = [Idle EXCEPT !.job = "create-token", !.step = "tx", !.copy = file]
  OBVIOUS
<1>3. /\ run \in Processes
      /\ run.job = "create-token" /\ run.step = "tx" /\ run.copy = file /\ run.impl = 0
      /\ \A k \in Kinds : run.token.impl[k] = 0
  BY <1>2, IdleType DEF Processes, Jobs, Idle, None, NoEntry, IInv, DiskOK
<1>4. Copied(run)'
  BY <1>1, <1>3, CopySound DEF StartCreate, IInv
<1>5. Creating(run)' /\ Upgrading(run)'
  BY <1>1, <1>3 DEF Creating, Upgrading, Upgrades, ChainOK
<1>6. Sound(run)'
  BY <1>3, <1>4, <1>5 DEF Sound
<1> QED
  BY <1>1, <1>2, <1>6, Begun DEF StartCreate

(***************************************************************************)
(* Upgrades deploy the new implementation before anything else.            *)
(***************************************************************************)
LEMMA StartUpgradeKeeps ==
    ASSUME IInv, NEW p \in Commands, NEW job \in Upgrades, NEW all \in BOOLEAN,
           StartUpgrade(p, job, all)
    PROVE  IInv'
<1>1. ChainOK' /\ Grows
  BY CodeGrows DEF StartUpgrade, IInv
<1>2. PICK todo \in Targets(file, all) :
         Begin(p, [Idle EXCEPT !.job = job, !.copy = file, !.todo = todo, !.all = all,
                               !.step = FirstStep(all), !.impl = code + 1])
  BY DEF StartUpgrade
<1>3. PICK run : run = [Idle EXCEPT !.job = job, !.copy = file, !.todo = todo, !.all = all,
                                    !.step = FirstStep(all), !.impl = code + 1]
  OBVIOUS
<1>4. file.createdTokens \in Seq(Entries) /\ file.createdTokens # <<>>
  BY DEF StartUpgrade, IInv, DiskOK, Deployments
<1>5. /\ todo \in Seq(Nat) /\ todo # <<>>
      /\ \A i \in DOMAIN todo : todo[i] \in Recorded(file)
  <2>1. \A i \in DOMAIN file.createdTokens : file.createdTokens[i].token \in Nat
    <3>1. \A i \in DOMAIN file.createdTokens : file.createdTokens[i] \in Entries
      BY <1>4
    <3> QED
      BY <3>1 DEF Entries
  <2>2. CASE all
    <3>1. todo = [i \in DOMAIN file.createdTokens |-> file.createdTokens[i].token]
      BY <1>2, <2>2 DEF Targets
    <3> DEFINE n == Len(file.createdTokens)
    <3>2. n \in Nat /\ n # 0 /\ DOMAIN file.createdTokens = 1..n
      BY <1>4
    <3>3. todo \in [1..n -> Nat]
      BY <2>1, <3>1, <3>2
    <3>4. todo \in Seq(Nat) /\ Len(todo) = n
      BY <3>2, <3>3
    <3> QED
      BY <3>1, <3>2, <3>4 DEF Recorded
  <2>3. CASE ~all
    <3>1. PICK i \in DOMAIN file.createdTokens : todo = <<file.createdTokens[i].token>>
      BY <1>2, <2>3 DEF Targets
    <3> QED
      BY <2>1, <3>1 DEF Recorded
  <2> QED
    BY <2>2, <2>3
<1>6. code \in Nat /\ code' = code + 1
  BY DEF StartUpgrade, IInv, ChainOK
<1>7. /\ run \in Processes
      /\ run.job = job /\ run.step = "tx" /\ run.copy = file /\ run.impl = code + 1
      /\ run.todo = todo
  <2>1. file \in Deployments /\ code + 1 \in Nat /\ job \in Jobs
    BY <1>6 DEF IInv, DiskOK, Jobs, Upgrades
  <2> QED
    BY <1>3, <1>5, <2>1, IdleType DEF Processes, Idle, FirstStep
<1>8. Copied(run)'
  BY <1>1, <1>7, CopySound DEF StartUpgrade, IInv, Upgrades
<1>9. Creating(run)'
  BY <1>7 DEF Creating, Upgrades
<1>10. Upgrading(run)'
  BY <1>5, <1>6, <1>7 DEF Upgrading, Upgrades, None, Recorded
<1>11. Sound(run)'
  BY <1>7, <1>8, <1>9, <1>10 DEF Sound
<1> QED
  BY <1>1, <1>2, <1>3, <1>11, Begun DEF StartUpgrade

LEMMA StartFactoryUpgradeKeeps ==
    ASSUME IInv, NEW p \in Commands, StartFactoryUpgrade(p)
    PROVE  IInv'
<1>1. ChainOK' /\ Grows
  BY CodeGrows DEF StartFactoryUpgrade, IInv
<1>2. PICK run : run = [Idle EXCEPT !.job = "upgrade-factory", !.copy = file,
                                    !.step = "tx", !.impl = code + 1]
  OBVIOUS
<1>3. code \in Nat /\ code' = code + 1
  BY DEF StartFactoryUpgrade, IInv, ChainOK
<1>4. /\ run \in Processes
      /\ run.job = "upgrade-factory" /\ run.copy = file /\ run.impl = code + 1
  <2>1. file \in Deployments /\ code + 1 \in Nat /\ "upgrade-factory" \in Jobs
    BY <1>3 DEF IInv, DiskOK, Jobs
  <2> QED
    BY <1>2, <2>1, IdleType DEF Processes, Idle
<1>5. Copied(run)'
  BY <1>1, <1>4, CopySound DEF StartFactoryUpgrade, IInv
<1>6. Creating(run)' /\ Upgrading(run)'
  BY <1>3, <1>4 DEF Creating, Upgrading, Upgrades
<1>7. Sound(run)'
  BY <1>4, <1>5, <1>6 DEF Sound
<1> QED
  BY <1>1, <1>2, <1>7, Begun DEF StartFactoryUpgrade

LEMMA StartArchitectureUpgradeKeeps ==
    ASSUME IInv, NEW p \in Commands, StartArchitectureUpgrade(p)
    PROVE  IInv'
<1>1. ChainOK' /\ Grows
  BY CodeGrows DEF StartArchitectureUpgrade, IInv
<1>2. PICK run : run = [Idle EXCEPT !.job = "upgrade-hook-architecture", !.copy = file,
                                    !.step = "tx", !.impl = code + 1]
  OBVIOUS
<1>3. code \in Nat /\ code' = code + 2
  BY DEF StartArchitectureUpgrade, IInv, ChainOK
<1>4. /\ run \in Processes
      /\ run.job = "upgrade-hook-architecture" /\ run.copy = file /\ run.impl = code + 1
  <2>1. file \in Deployments /\ code + 1 \in Nat /\ "upgrade-hook-architecture" \in Jobs
    BY <1>3 DEF IInv, DiskOK, Jobs
  <2> QED
    BY <1>2, <2>1, IdleType DEF Processes, Idle
<1>5. Copied(run)'
  BY <1>1, <1>4, CopySound DEF StartArchitectureUpgrade, IInv
<1>6. Creating(run)' /\ Upgrading(run)'
  BY <1>3, <1>4 DEF Creating, Upgrading, Upgrades
<1>7. Sound(run)'
  BY <1>4, <1>5, <1>6 DEF Sound
<1> QED
  BY <1>1, <1>2, <1>7, Begun DEF StartArchitectureUpgrade

(***************************************************************************)
(* An export copies the record, if it can be read, and has files to write. *)
(***************************************************************************)
LEMMA StartExportKeeps ==
    ASSUME IInv, NEW p \in Commands, StartExport(p)
    PROVE  IInv'
<1>1. ChainOK' /\ Grows
  BY ChainSame DEF StartExport, IInv
<1>2. PICK run : run = [Idle EXCEPT !.job = "export", !.step = "tx",
                                    !.todo = Writes(outputDirs),
                                    !.copy = collectAddresses(file)]
  OBVIOUS
<1>3. Writes(outputDirs) \in Seq(Nat) /\ Writes(outputDirs) # <<>>
  <2>1. Bundles \in Nat \ {0}
    BY BoundsAssumption
  <2>2. Cardinality(outputDirs) = Bundles
    BY <2>1, FS_Interval DEF outputDirs
  <2>3. PICK n : n = 3 * Bundles
    OBVIOUS
  <2>4. n \in Nat /\ n # 0
    BY <2>1, <2>3
  <2>5. Writes(outputDirs) = [i \in 1..n |-> i]
    BY <2>2, <2>3 DEF Writes
  <2>6. Writes(outputDirs) \in [1..n -> Nat]
    BY <2>4, <2>5
  <2> QED
    BY <2>4, <2>6
<1>4. collectAddresses(file) \in Deployments
  BY NoRecordType DEF collectAddresses, IInv, DiskOK
<1>5. /\ run \in Processes
      /\ run.job = "export" /\ run.step = "tx" /\ run.copy = collectAddresses(file)
      /\ run.impl = 0 /\ run.todo # <<>>
  BY <1>2, <1>3, <1>4, IdleType DEF Processes, Jobs, Idle, None
<1>6. Copied(run)'
  <2>1. CASE Readable(file)
    BY <1>1, <1>5, <2>1, CopySound DEF collectAddresses, IInv
  <2>2. CASE ~Readable(file)
    <3>1. run.copy = NoRecord
      BY <1>5, <2>2 DEF collectAddresses
    <3> QED
      BY <1>5, <3>1 DEF Copied, Recorders, Upgrades, CanCreate, Readable
  <2> QED
    BY <2>1, <2>2
<1>7. Creating(run)' /\ Upgrading(run)'
  BY <1>1, <1>5 DEF Creating, Upgrading, Upgrades, ChainOK
<1>8. Sound(run)'
  BY <1>5, <1>6, <1>7 DEF Sound
<1> QED
  BY <1>1, <1>2, <1>8, Begun DEF StartExport

-----------------------------------------------------------------------------
(* A deployment.                                                           *)

LEMMA DeployFactoryKeeps ==
    ASSUME IInv, NEW p \in Commands, DeployFactory(p)
    PROVE  IInv'
<1> DEFINE default == [k \in Kinds |-> IF k = "hook" THEN None ELSE code + 2]
           new     == [impl |-> code + 3, default |-> default]
           record  == [factory |-> Len(factories) + 1, impl |-> code + 3,
                       default |-> [k \in Kinds |-> IF k = "hook" THEN code + 1 ELSE code + 2],
                       createdTokens |-> FirstLaunches]
<1>0. /\ code \in Nat /\ Len(factories) \in Nat /\ code' = code + 3
      /\ factories \in Seq(Factories) /\ factories' = Append(factories, new)
      /\ UNCHANGED tokens /\ UNCHANGED Disk
  BY DEF DeployFactory, IInv, ChainOK
<1>1. /\ new \in Factories
      /\ \A k \in Kinds : new.default[k] <= code'
  BY <1>0 DEF Factories, None
<1>2. /\ factories' \in Seq(Factories)
      /\ Len(factories') = Len(factories) + 1
      /\ \A f \in 1..Len(factories) : factories'[f] = factories[f]
      /\ factories'[Len(factories) + 1] = new
  <2> HIDE DEF new
  <2> QED
    BY <1>0, <1>1, AppendProperties
<1>3. /\ DOMAIN factories = 1..Len(factories)
      /\ DOMAIN factories' = 1..(Len(factories) + 1)
  BY <1>0, <1>2
<1>4. ASSUME NEW f \in DOMAIN factories', NEW k \in Kinds
      PROVE  factories'[f].default[k] <= code'
  <2>1. CASE f = Len(factories) + 1
    <3> HIDE DEF new
    <3> QED
      BY <1>1, <1>2, <2>1
  <2>2. CASE f # Len(factories) + 1
    <3>1. f \in DOMAIN factories /\ factories'[f] = factories[f]
      BY <1>0, <1>2, <1>3, <2>2
    <3>2. factories[f] \in Factories
      BY <1>0, <3>1
    <3>3. factories[f].default[k] \in Nat
      BY <3>2 DEF Factories
    <3>4. factories[f].default[k] <= code
      BY <3>1 DEF IInv, ChainOK
    <3> QED
      BY <1>0, <3>1, <3>3, <3>4
  <2> QED
    BY <2>1, <2>2
<1>5. ChainOK'
  BY <1>0, <1>2, <1>4 DEF IInv, ChainOK
<1>6. Grows
  BY <1>0, <1>2, <1>3 DEF Grows, IInv, ChainOK
<1>7. DiskOK' /\ LogOK'
  BY <1>0, <1>5, <1>6, DiskLasts DEF DeployFactory, Continue, Log, IInv, LogOK
<1>8. PICK r : r = record
  OBVIOUS
<1>9. /\ r \in Deployments
      /\ r.factory = Len(factories) + 1 /\ r.impl = code + 3 /\ r.createdTokens = <<>>
      /\ \A k \in Kinds : r.default[k] \in {code + 1, code + 2}
  BY <1>0, <1>8 DEF Deployments, FirstLaunches
<1>10. Recorded(r) = {}
  BY <1>9 DEF Recorded
<1>11. Fine(r)'
  <2>1. r.factory \in DOMAIN factories' /\ r.impl <= code'
    BY <1>0, <1>3, <1>9
  <2>2. \A k \in Kinds : r.default[k] <= code'
    BY <1>0, <1>9
  <2>3. Recorded(r)' = {}
    BY <1>10 DEF Recorded
  <2>4. DOMAIN r.createdTokens = {}
    BY <1>9
  <2>5. HasCode(r)'
    BY <2>1, <2>2, <2>3, <2>4 DEF HasCode
  <2> QED
    BY <2>3, <2>4, <2>5 DEF Fine
<1>12. PICK old : old = proc[p]
  OBVIOUS
<1>13. old \in Processes /\ old.job = "deploy"
  BY <1>12 DEF DeployFactory, At, IInv, ProcOK
<1>14. PICK n : n = code + 1
  OBVIOUS
<1>15. PICK run : run = [old EXCEPT !.step = "default", !.copy = r, !.impl = n]
  OBVIOUS
<1>16. /\ run \in Processes /\ run.job = "deploy" /\ run.step = "default"
       /\ run.copy = r /\ run.impl = n
  <2>1. r \in Deployments /\ n \in Nat
    BY <1>0, <1>9, <1>14
  <2> QED
    BY <1>13, <1>15, <2>1 DEF Processes
<1>17. n # None /\ n <= code' /\ n \in Nat
  BY <1>0, <1>14 DEF None
<1>18. r # NoRecord
  BY <1>0, <1>9 DEF NoRecord, None
<1>19. Copied(run)'
  BY <1>11, <1>16, <1>17, <1>18 DEF Copied
<1>20. Creating(run)' /\ Upgrading(run)'
  BY <1>16, <1>17 DEF Creating, Upgrading, Upgrades
<1>21. Sound(run)'
  BY <1>16, <1>19, <1>20 DEF Sound
<1>22. proc' = [proc EXCEPT ![p] = run]
  BY <1>8, <1>12, <1>14, <1>15 DEF DeployFactory, Continue
<1> QED
  BY <1>5, <1>6, <1>7, <1>21, <1>22, Continued

(***************************************************************************)
(* What an action of one process has in common.                            *)
(***************************************************************************)
LEMMA RunOf ==
    ASSUME IInv, NEW p \in Commands
    PROVE  proc[p] \in Processes /\ Sound(proc[p])
BY DEF IInv, ProcOK

LEMMA LogSame ==
    ASSUME LogOK, UNCHANGED Log
    PROVE  LogOK'
BY DEF LogOK, Log

(***************************************************************************)
(* Once its factory has the hook implementation, the record of a           *)
(* deployment promises no more than there is.                              *)
(***************************************************************************)
LEMMA SetFirstDefaultKeeps ==
    ASSUME IInv, NEW p \in Commands, SetFirstDefault(p)
    PROVE  IInv'
<1>1. PICK old : old = proc[p]
  OBVIOUS
<1>2. /\ old \in Processes /\ Sound(old)
      /\ old.job = "deploy" /\ old.step = "default"
  BY <1>1, RunOf DEF SetFirstDefault, At
<1>3. /\ old.copy \in Deployments /\ old.copy # NoRecord /\ Fine(old.copy)
      /\ old.impl \in Nat /\ old.impl # None /\ old.impl <= code
  BY <1>2 DEF Processes, Sound, Copied, Upgrading
<1>4. old.copy.factory \in DOMAIN factories
  BY <1>3 DEF Fine, HasCode
<1>5. /\ factories' = DefaultSet(old.copy.factory, "hook", old.impl)
      /\ UNCHANGED <<code, tokens>> /\ UNCHANGED Disk /\ UNCHANGED Log
      /\ proc' = [proc EXCEPT ![p] = [old EXCEPT !.step = "write"]]
  BY <1>1 DEF SetFirstDefault, Continue
<1>6. ChainOK' /\ Grows /\ factories'[old.copy.factory].default["hook"] = old.impl
  <2>1. "hook" \in Kinds
    BY DEF Kinds
  <2> QED
    BY <1>3, <1>4, <1>5, <2>1, DefaultSetGrows DEF IInv
<1>7. DiskOK' /\ LogOK'
  BY <1>5, <1>6, DiskLasts, LogSame DEF IInv
<1>8. Sound(old)'
  BY <1>2, <1>6, SoundLasts DEF IInv
<1>9. PICK run : run = [old EXCEPT !.step = "write"]
  OBVIOUS
<1>10. /\ run \in Processes /\ run.job = "deploy" /\ run.step = "write"
       /\ run.copy = old.copy /\ run.impl = old.impl
  BY <1>2, <1>9 DEF Processes
<1>11. CanCreate(run.copy)'
  BY <1>3, <1>6, <1>10 DEF CanCreate
<1>12. Copied(run)'
  BY <1>3, <1>8, <1>10, <1>11 DEF Copied, Sound
<1>13. Creating(run)' /\ Upgrading(run)'
  BY <1>8, <1>10 DEF Creating, Upgrading, Upgrades, Sound
<1>14. Sound(run)'
  BY <1>10, <1>12, <1>13 DEF Sound
<1> QED
  BY <1>5, <1>6, <1>7, <1>9, <1>14, Continued

-----------------------------------------------------------------------------
(* A launch.                                                               *)

LEMMA CreateTokenKeeps ==
    ASSUME IInv, NEW p \in Commands, NEW mined \in BOOLEAN, CreateToken(p, mined)
    PROVE  IInv'
<1>1. PICK old : old = proc[p]
  OBVIOUS
<1>2. /\ old \in Processes /\ Sound(old)
      /\ old.job = "create-token" /\ old.step = "tx"
  BY <1>1, RunOf DEF CreateToken, At
<1>3. PICK n : n = Len(tokens) + 1
  OBVIOUS
<1>4. PICK r : r = old.copy
  OBVIOUS
<1>5. /\ r \in Deployments /\ r # NoRecord /\ Fine(r)
      /\ old.token \in Entries
  BY <1>2, <1>4 DEF Processes, Sound, Copied, Recorders
<1>6. PICK new : new = [factory |-> r.factory, impl |-> factories[r.factory].default]
  OBVIOUS
<1>7. PICK run : run = [old EXCEPT !.step = "router", !.token.token = n]
  OBVIOUS
<1>8. /\ tokens' = Append(tokens, new)
      /\ UNCHANGED <<code, factories>> /\ UNCHANGED Disk /\ UNCHANGED Log
      /\ proc' = [proc EXCEPT ![p] = run]
  <2>1. mined
    BY DEF CreateToken, waitForSuccessfulTransactionReceipt
  <2> QED
    BY <1>1, <1>3, <1>4, <1>6, <1>7, <2>1
       DEF CreateToken, Continue, extractCreatedTokenFromLogs
<1>9. new \in Tokens /\ new.factory = r.factory
  <2>1. factories[r.factory] \in Factories
    BY <1>5 DEF Fine, HasCode, IInv, ChainOK
  <2>2. r.factory \in Nat
    BY <1>5 DEF Deployments
  <2> QED
    BY <1>6, <2>1, <2>2 DEF Factories, Tokens
<1>10. /\ tokens \in Seq(Tokens)
       /\ tokens' \in Seq(Tokens)
       /\ Len(tokens') = n
       /\ \A t \in 1..Len(tokens) : tokens'[t] = tokens[t]
       /\ tokens'[n] = new
  BY <1>3, <1>8, <1>9, AppendProperties DEF IInv, ChainOK
<1>11. /\ DOMAIN tokens = 1..Len(tokens) /\ DOMAIN tokens' = 1..n
       /\ n \in Nat /\ n \in DOMAIN tokens' /\ n \notin DOMAIN tokens
       /\ Len(tokens) <= n
  BY <1>3, <1>10
<1>12. ChainOK'
  <2>1. r.factory \in DOMAIN factories
    BY <1>5 DEF Fine, HasCode
  <2>2. \A t \in DOMAIN tokens' : tokens'[t].factory \in DOMAIN factories'
    BY <1>8, <1>9, <1>10, <1>11, <2>1 DEF IInv, ChainOK
  <2> QED
    BY <1>8, <1>10, <2>2 DEF IInv, ChainOK
<1>13. Grows
  BY <1>8, <1>10, <1>11 DEF Grows, IInv, ChainOK
<1>14. DiskOK' /\ LogOK'
  BY <1>8, <1>12, <1>13, DiskLasts, LogSame DEF IInv
<1>15. Sound(old)'
  BY <1>2, <1>12, <1>13, SoundLasts DEF IInv
<1>16. /\ run \in Processes /\ run.job = "create-token" /\ run.copy = r
       /\ run.impl = old.impl /\ run.token.token = n /\ run.token.impl = old.token.impl
  <2>1. [old.token EXCEPT !.token = n] \in Entries
    BY <1>5, <1>11 DEF Entries
  <2>2. run = [old EXCEPT !.step = "router", !.token = [old.token EXCEPT !.token = n]]
    BY <1>2, <1>7 DEF Processes
  <2>3. /\ [old.token EXCEPT !.token = n].token = n
        /\ [old.token EXCEPT !.token = n].impl = old.token.impl
    BY <1>5 DEF Entries
  <2> QED
    BY <1>2, <1>4, <2>1, <2>2, <2>3 DEF Processes
<1>17. n \in Launched(r.factory)' \ Recorded(r)
  <2>1. n \in Launched(r.factory)'
    BY <1>9, <1>10, <1>11 DEF Launched
  <2>2. n \notin Recorded(r)
    BY <1>5, <1>11 DEF Fine, HasCode
  <2> QED
    BY <2>1, <2>2
<1>18. Creating(run)'
  <2>1. \A k \in Kinds : run.token.impl[k] <= code'
    BY <1>2, <1>15, <1>16 DEF Sound, Creating
  <2> QED
    BY <1>16, <1>17, <2>1 DEF Creating, Recorded
<1>19. Copied(run)'
  BY <1>2, <1>4, <1>15, <1>16 DEF Sound, Copied
<1>20. Upgrading(run)'
  BY <1>15, <1>16 DEF Sound, Upgrading, Upgrades
<1>21. Sound(run)'
  BY <1>16, <1>18, <1>19, <1>20 DEF Sound
<1> QED
  BY <1>8, <1>12, <1>13, <1>14, <1>21, Continued

(***************************************************************************)
(* What is read from the factory has code.                                 *)
(***************************************************************************)
LEMMA DefaultHasCode ==
    ASSUME ChainOK, NEW r, Fine(r), NEW kind \in Kinds, NEW found \in BOOLEAN
    PROVE  LET impl == IF found THEN factories[r.factory].default[kind] ELSE None
           IN  impl \in Nat /\ impl <= code
<1>1. factories[r.factory] \in Factories
  BY DEF ChainOK, Fine, HasCode
<1>2. factories[r.factory].default[kind] \in Nat
  BY <1>1 DEF Factories
<1>3. factories[r.factory].default[kind] <= code
  BY DEF ChainOK, Fine, HasCode
<1>4. code \in Nat /\ None \in Nat /\ None <= code
  BY DEF ChainOK, None
<1> QED
  BY <1>2, <1>3, <1>4

LEMMA ReadRouterKeeps ==
    ASSUME IInv, NEW p \in Commands, NEW found \in BOOLEAN,
           readOptionalFactoryRouterImplementation(p, found)
    PROVE  IInv'
<1>1. PICK old : old = proc[p]
  OBVIOUS
<1>2. /\ old \in Processes /\ Sound(old)
      /\ old.job = "create-token" /\ old.step = "router"
  BY <1>1, RunOf DEF readOptionalFactoryRouterImplementation, At
<1>3. /\ old.copy # NoRecord /\ Fine(old.copy) /\ old.token \in Entries
  BY <1>2 DEF Processes, Sound, Copied, Recorders
<1>4. PICK impl : impl = IF found THEN factories[old.copy.factory].default["router"] ELSE None
  OBVIOUS
<1>5. impl \in Nat /\ impl <= code
  <2>1. "router" \in Kinds
    BY DEF Kinds
  <2> QED
    BY <1>3, <1>4, <2>1, DefaultHasCode DEF IInv
<1>6. PICK run : run = [old EXCEPT !.step = "hook", !.token.impl["router"] = impl]
  OBVIOUS
<1>7. /\ UNCHANGED Chain /\ UNCHANGED Disk /\ UNCHANGED Log
      /\ proc' = [proc EXCEPT ![p] = run]
  BY <1>1, <1>4, <1>6 DEF readOptionalFactoryRouterImplementation, Continue
<1>8. ChainOK' /\ Grows
  BY <1>7, ChainSame DEF IInv
<1>9. DiskOK' /\ LogOK'
  BY <1>7, <1>8, DiskLasts, LogSame DEF IInv
<1>10. Sound(old)'
  BY <1>2, <1>8, SoundLasts DEF IInv
<1>11. PICK entry : entry = [old.token EXCEPT !.impl["router"] = impl]
  OBVIOUS
<1>12. /\ entry \in Entries /\ entry.token = old.token.token
       /\ \A k \in Kinds : entry.impl[k] \in {impl, old.token.impl[k]}
  BY <1>3, <1>5, <1>11 DEF Entries
<1>13. /\ run \in Processes /\ run.job = "create-token" /\ run.copy = old.copy
       /\ run.impl = old.impl /\ run.token = entry /\ run.step = "hook"
  <2>1. run = [old EXCEPT !.step = "hook", !.token = entry]
    BY <1>2, <1>6, <1>11 DEF Processes
  <2> QED
    BY <1>2, <1>12, <2>1 DEF Processes
<1>14. Creating(run)'
  <2>1. code' = code
    BY <1>7 DEF Chain
  <2>2. \A k \in Kinds : old.token.impl[k] <= code
    BY <1>2 DEF Sound, Creating
  <2>3. \A k \in Kinds : run.token.impl[k] <= code'
    BY <1>5, <1>12, <1>13, <2>1, <2>2
  <2>4. old.token.token \in Launched(old.copy.factory)' \ Recorded(old.copy)
    BY <1>2, <1>10 DEF Sound, Creating, Recorded
  <2> QED
    BY <1>12, <1>13, <2>3, <2>4 DEF Creating, Recorded
<1>15. Copied(run)'
  BY <1>2, <1>10, <1>13 DEF Sound, Copied
<1>16. Upgrading(run)'
  BY <1>10, <1>13 DEF Sound, Upgrading, Upgrades
<1>17. Sound(run)'
  BY <1>13, <1>14, <1>15, <1>16 DEF Sound
<1> QED
  BY <1>7, <1>8, <1>9, <1>17, Continued

(***************************************************************************)
(* A record to which a new launch of its factory is added.                 *)
(***************************************************************************)
LEMMA PushFine ==
    ASSUME NEW r \in Deployments, Fine(r), code \in Nat, tokens \in Seq(Tokens),
           NEW entry \in Entries, entry.token \in Launched(r.factory) \ Recorded(r),
           \A k \in Kinds : entry.impl[k] <= code,
           NEW new, new = [r EXCEPT !.createdTokens = push(@, entry)]
    PROVE  /\ new \in Deployments /\ Fine(new)
           /\ new.factory = r.factory /\ new.default = r.default
<1>1. PICK before : before = r.createdTokens
  OBVIOUS
<1>2. PICK after : after = Append(before, entry)
  OBVIOUS
<1>3. PICK n : n = Len(before)
  OBVIOUS
<1>4. before \in Seq(Entries)
  BY <1>1 DEF Deployments
<1>5. /\ after \in Seq(Entries) /\ Len(after) = n + 1 /\ after[n + 1] = entry
      /\ \A i \in 1..n : after[i] = before[i]
  BY <1>2, <1>3, <1>4, AppendProperties
<1>6. DOMAIN before = 1..n /\ DOMAIN after = 1..(n + 1) /\ n \in Nat
  BY <1>3, <1>4, <1>5
<1>7. /\ new \in Deployments /\ new.createdTokens = after
      /\ new.factory = r.factory /\ new.default = r.default /\ new.impl = r.impl
  BY <1>1, <1>2, <1>5 DEF Deployments, push
<1>8. ASSUME NEW i \in DOMAIN after
      PROVE  \/ i \in DOMAIN before /\ after[i] = before[i]
             \/ i = n + 1 /\ after[i] = entry
  BY <1>5, <1>6
<1>9. \A i \in DOMAIN before : before[i].token \in Recorded(r)
  BY <1>1 DEF Recorded
<1>10. Recorded(new) \subseteq Recorded(r) \cup {entry.token}
  BY <1>7, <1>8, <1>9 DEF Recorded
<1>11. Recorded(new) \subseteq Launched(new.factory)
  BY <1>7, <1>10 DEF Fine
<1>12. Recorded(new) \subseteq DOMAIN tokens
  BY <1>11 DEF Launched
<1>13. ASSUME NEW k \in Kinds, NEW i \in DOMAIN new.createdTokens
       PROVE  new.createdTokens[i].impl[k] <= code
  <2>1. \A j \in DOMAIN before : before[j].impl[k] <= code
    BY <1>1 DEF Fine, HasCode
  <2> QED
    BY <1>7, <1>8, <2>1
<1>14. HasCode(new)
  BY <1>7, <1>12, <1>13 DEF Fine, HasCode
<1>15. ASSUME NEW i \in DOMAIN new.createdTokens, NEW j \in DOMAIN new.createdTokens,
              new.createdTokens[i].token = new.createdTokens[j].token
       PROVE  i = j
  <2>1. ASSUME NEW a \in DOMAIN before, NEW b \in DOMAIN before,
               before[a].token = before[b].token
        PROVE  a = b
    BY <1>1, <2>1 DEF Fine
  <2>2. \A a \in DOMAIN before : before[a].token # entry.token
    BY <1>9
  <2> QED
    BY <1>7, <1>8, <1>15, <2>1, <2>2
<1>16. Fine(new)
  BY <1>11, <1>14, <1>15 DEF Fine
<1> QED
  BY <1>7, <1>16

LEMMA ReadHookKeeps ==
    ASSUME IInv, NEW p \in Commands, NEW found \in BOOLEAN,
           readOptionalFactoryHookImplementation(p, found)
    PROVE  IInv'
<1>1. PICK old : old = proc[p]
  OBVIOUS
<1>2. /\ old \in Processes /\ Sound(old)
      /\ old.job = "create-token" /\ old.step = "hook"
  BY <1>1, RunOf DEF readOptionalFactoryHookImplementation, At
<1>3. /\ old.copy \in Deployments /\ old.copy # NoRecord /\ Fine(old.copy)
      /\ old.token \in Entries /\ CanCreate(old.copy)
  BY <1>2 DEF Processes, Sound, Copied, Recorders
<1>4. PICK impl : impl = IF found THEN factories[old.copy.factory].default["hook"] ELSE None
  OBVIOUS
<1>5. impl \in Nat /\ impl <= code
  <2>1. "hook" \in Kinds
    BY DEF Kinds
  <2> QED
    BY <1>3, <1>4, <2>1, DefaultHasCode DEF IInv
<1>6. PICK entry : entry = [old.token EXCEPT !.impl["hook"] = impl]
  OBVIOUS
<1>7. PICK run : run = [old EXCEPT !.step = "write", !.token = entry,
                                   !.copy.createdTokens = push(@, entry)]
  OBVIOUS
<1>8. /\ UNCHANGED Chain /\ UNCHANGED Disk /\ UNCHANGED Log
      /\ proc' = [proc EXCEPT ![p] = run]
  BY <1>1, <1>4, <1>6, <1>7 DEF readOptionalFactoryHookImplementation, Continue
<1>9. ChainOK' /\ Grows
  BY <1>8, ChainSame DEF IInv
<1>10. DiskOK' /\ LogOK'
  BY <1>8, <1>9, DiskLasts, LogSame DEF IInv
<1>11. /\ entry \in Entries /\ entry.token = old.token.token
       /\ \A k \in Kinds : entry.impl[k] \in {impl, old.token.impl[k]}
  BY <1>3, <1>5, <1>6 DEF Entries
<1>12. \A k \in Kinds : entry.impl[k] <= code
  <2>1. \A k \in Kinds : old.token.impl[k] <= code
    BY <1>2 DEF Sound, Creating
  <2> QED
    BY <1>5, <1>11, <2>1
<1>13. entry.token \in Launched(old.copy.factory) \ Recorded(old.copy)
  BY <1>2, <1>11 DEF Sound, Creating
<1>14. PICK new : new = [old.copy EXCEPT !.createdTokens = push(@, entry)]
  OBVIOUS
<1>15. /\ new \in Deployments /\ Fine(new)
       /\ new.factory = old.copy.factory /\ new.default = old.copy.default
  <2>1. code \in Nat /\ tokens \in Seq(Tokens)
    BY DEF IInv, ChainOK
  <2> QED
    BY <1>3, <1>11, <1>12, <1>13, <1>14, <2>1, PushFine
<1>16. new # NoRecord
  <2>1. new.factory # 0
    BY <1>15 DEF Fine, HasCode, IInv, ChainOK
  <2> QED
    BY <2>1 DEF NoRecord, None
<1>17. CanCreate(new)
  BY <1>3, <1>15 DEF CanCreate, Readable
<1>18. Fine(new)' /\ CanCreate(new)'
  BY <1>9, <1>15, <1>17, FineLasts, CanCreateLasts DEF IInv
<1>19. /\ run \in Processes /\ run.job = "create-token" /\ run.copy = new
       /\ run.impl = old.impl /\ run.token = entry /\ run.step = "write"
  <2>1. run = [old EXCEPT !.step = "write", !.token = entry, !.copy = new]
    BY <1>2, <1>7, <1>14 DEF Processes
  <2> QED
    BY <1>2, <1>11, <1>15, <2>1 DEF Processes
<1>20. Copied(run)'
  BY <1>16, <1>18, <1>19 DEF Copied
<1>21. Creating(run)'
  BY <1>8, <1>12, <1>19 DEF Creating, Chain
<1>22. Upgrading(run)'
  BY <1>2, <1>8, <1>19 DEF Sound, Upgrading, Upgrades, Chain
<1>23. Sound(run)'
  BY <1>19, <1>20, <1>21, <1>22 DEF Sound
<1> QED
  BY <1>8, <1>9, <1>10, <1>23, Continued

-----------------------------------------------------------------------------
(* Upgrades of the launches.                                               *)

(***************************************************************************)
(* A record that tells of a new implementation tells of the same launches. *)
(***************************************************************************)
LEMMA MetadataFine ==
    ASSUME NEW r \in Deployments, Fine(r), NEW kind \in Kinds, NEW targets,
           NEW all \in BOOLEAN, NEW impl \in Nat, impl <= code,
           NEW new, new = ApplyMetadata(r, kind, targets, all, impl)
    PROVE  /\ new \in Deployments /\ Fine(new)
           /\ new.factory = r.factory /\ Recorded(new) = Recorded(r)
           /\ \A k \in Kinds :
                 new.default[k] = IF all /\ k = kind THEN impl ELSE r.default[k]
<1>1. PICK before : before = r.createdTokens
  OBVIOUS
<1>2. PICK n : n = Len(before)
  OBVIOUS
<1>3. before \in Seq(Entries) /\ DOMAIN before = 1..n /\ n \in Nat
  BY <1>1, <1>2 DEF Deployments
<1>4. PICK after : after = [i \in DOMAIN before |->
                               IF all \/ before[i].token \in targets
                               THEN [before[i] EXCEPT !.impl[kind] = impl]
                               ELSE before[i]]
  OBVIOUS
<1>5. PICK default : default = [r.default EXCEPT ![kind] = IF all THEN impl ELSE @]
  OBVIOUS
<1>6. new = [r EXCEPT !.default = default, !.createdTokens = after]
  BY <1>1, <1>4, <1>5 DEF ApplyMetadata, Deployments
<1>7. ASSUME NEW i \in DOMAIN before
      PROVE  /\ after[i] \in Entries /\ after[i].token = before[i].token
             /\ \A k \in Kinds : after[i].impl[k] \in {impl, before[i].impl[k]}
  <2>1. before[i] \in Entries
    BY <1>3
  <2>2. PICK entry : entry = [before[i] EXCEPT !.impl[kind] = impl]
    OBVIOUS
  <2>3. /\ entry \in Entries /\ entry.token = before[i].token
        /\ \A k \in Kinds : entry.impl[k] \in {impl, before[i].impl[k]}
    BY <2>1, <2>2 DEF Entries
  <2>4. after[i] = IF all \/ before[i].token \in targets THEN entry ELSE before[i]
    BY <1>4, <2>2
  <2> QED
    BY <2>1, <2>3, <2>4
<1>8. DOMAIN after = 1..n /\ after \in Seq(Entries)
  <2>1. DOMAIN after = 1..n
    BY <1>3, <1>4
  <2>2. after = [i \in 1..n |-> after[i]]
    BY <1>3, <1>4
  <2>3. after \in [1..n -> Entries]
    BY <1>3, <1>7, <2>2
  <2> QED
    BY <1>3, <2>1, <2>3
<1>9. /\ default \in [Kinds -> Nat]
      /\ \A k \in Kinds : default[k] = IF all /\ k = kind THEN impl ELSE r.default[k]
  BY <1>5 DEF Deployments
<1>10. /\ new \in Deployments /\ new.createdTokens = after /\ new.default = default
       /\ new.factory = r.factory /\ new.impl = r.impl
  BY <1>6, <1>8, <1>9 DEF Deployments
<1>11. Recorded(new) = Recorded(r)
  BY <1>1, <1>3, <1>7, <1>8, <1>10 DEF Recorded
<1>12. HasCode(new)
  <2>1. /\ new.factory \in DOMAIN factories /\ new.impl <= code
        /\ Recorded(new) \subseteq DOMAIN tokens
    BY <1>10, <1>11 DEF Fine, HasCode
  <2>2. ASSUME NEW k \in Kinds
        PROVE  new.default[k] <= code
    BY <1>9, <1>10 DEF Fine, HasCode
  <2>3. ASSUME NEW k \in Kinds, NEW i \in DOMAIN new.createdTokens
        PROVE  new.createdTokens[i].impl[k] <= code
    <3>1. i \in DOMAIN before
      BY <1>3, <1>8, <1>10
    <3>2. before[i].impl[k] <= code
      BY <1>1, <3>1 DEF Fine, HasCode
    <3> QED
      BY <1>7, <1>10, <3>1, <3>2
  <2> QED
    BY <2>1, <2>2, <2>3 DEF HasCode
<1>13. Recorded(new) \subseteq Launched(new.factory)
  BY <1>10, <1>11 DEF Fine
<1>14. \A i, j \in DOMAIN new.createdTokens :
          new.createdTokens[i].token = new.createdTokens[j].token => i = j
  BY <1>1, <1>3, <1>7, <1>8, <1>10 DEF Fine
<1>15. Fine(new)
  BY <1>12, <1>13, <1>14 DEF Fine
<1> QED
  BY <1>9, <1>10, <1>11, <1>15

(***************************************************************************)
(* A proxy that is upgraded belongs to its factory as before.              *)
(***************************************************************************)
LEMMA ProxyUpgradeGrows ==
    ASSUME ChainOK, NEW t \in DOMAIN tokens, NEW kind \in Kinds, NEW impl \in Nat,
           tokens' = [tokens EXCEPT ![t].impl[kind] = impl], UNCHANGED <<code, factories>>
    PROVE  ChainOK' /\ Grows
<1>1. tokens[t] \in Tokens
  BY DEF ChainOK
<1>2. PICK new : new = [tokens[t] EXCEPT !.impl[kind] = impl]
  OBVIOUS
<1>3. new \in Tokens /\ new.factory = tokens[t].factory
  <2>1. PICK old : old = tokens[t]
    OBVIOUS
  <2>2. new = [old EXCEPT !.impl[kind] = impl] /\ old \in Tokens
    BY <1>1, <1>2, <2>1
  <2>3. new \in Tokens /\ new.factory = old.factory
    BY <2>2 DEF Tokens
  <2> QED
    BY <2>1, <2>3
<1>4. tokens' = [tokens EXCEPT ![t] = new]
  BY <1>2
<1>5. tokens \in Seq(Tokens) /\ t \in 1..Len(tokens)
  BY DEF ChainOK
<1>6. /\ tokens' \in Seq(Tokens)
      /\ Len(tokens') = Len(tokens)
      /\ \A u \in 1..Len(tokens) : tokens'[u] = IF u = t THEN new ELSE tokens[u]
  <2>1. new \in Tokens
    BY <1>3
  <2> QED
    BY <1>4, <1>5, <2>1, ExceptSeq
<1>7. DOMAIN tokens = 1..Len(tokens)
  BY <1>5
<1> QED
  BY <1>3, <1>6, <1>7 DEF ChainOK, Grows

LEMMA UpgradeProxyKeeps ==
    ASSUME IInv, NEW p \in Commands, NEW job \in Upgrades, UpgradeProxy(p, job)
    PROVE  IInv'
<1>1. PICK old : old = proc[p]
  OBVIOUS
<1>2. /\ old \in Processes /\ Sound(old) /\ old.job = job /\ old.step = "tx"
  BY <1>1, RunOf DEF UpgradeProxy, At
<1>3. /\ old.copy \in Deployments /\ old.copy # NoRecord /\ Fine(old.copy)
      /\ CanCreate(old.copy)
      /\ old.todo \in Seq(Nat) /\ old.todo # <<>>
      /\ \A i \in DOMAIN old.todo : old.todo[i] \in Recorded(old.copy)
      /\ old.impl \in Nat /\ old.impl <= code
      /\ old.all \in BOOLEAN
  BY <1>2 DEF Processes, Sound, Copied, Upgrading, Recorders
<1>4. PICK kind : kind = KindOf(job)
  OBVIOUS
<1>5. kind \in Kinds
  BY <1>4 DEF KindOf, Kinds
<1>6. PICK one : one = old.todo[1]
  OBVIOUS
<1>7. one \in DOMAIN tokens
  <2>1. 1 \in DOMAIN old.todo
    BY <1>3
  <2> QED
    BY <1>3, <1>6, <2>1 DEF Fine, HasCode
<1>8. PICK copy : copy = IF old.all THEN old.copy
                         ELSE ApplyMetadata(old.copy, kind, {one}, FALSE, old.impl)
  OBVIOUS
<1>9. PICK step : step = IF Len(old.todo) > 1 THEN "tx" ELSE AfterUpgrades(old.all)
  OBVIOUS
<1>10. PICK run : run = [old EXCEPT !.todo = Tail(@), !.step = step, !.copy = copy]
  OBVIOUS
<1>11. /\ tokens' = [tokens EXCEPT ![one].impl[kind] = old.impl]
       /\ UNCHANGED <<code, factories>> /\ UNCHANGED Disk /\ UNCHANGED Log
       /\ proc' = [proc EXCEPT ![p] = run]
  <2>1. run = [old EXCEPT
                 !.todo = Tail(@),
                 !.step = IF Len(old.todo) > 1 THEN @ ELSE AfterUpgrades(old.all),
                 !.copy = IF old.all THEN @
                          ELSE ApplyMetadata(@, kind, {one}, FALSE, old.impl)]
    BY <1>2, <1>8, <1>9, <1>10 DEF Processes
  <2> QED
    BY <1>1, <1>4, <1>6, <2>1 DEF UpgradeProxy, Continue
<1>12. ChainOK' /\ Grows
  BY <1>3, <1>5, <1>7, <1>11, ProxyUpgradeGrows DEF IInv
<1>13. DiskOK' /\ LogOK'
  BY <1>11, <1>12, DiskLasts, LogSame DEF IInv
<1>14. /\ copy \in Deployments /\ Fine(copy)
       /\ copy.factory = old.copy.factory /\ Recorded(copy) = Recorded(old.copy)
       /\ copy.default["hook"] = old.copy.default["hook"]
  <2>1. CASE old.all
    BY <1>3, <1>8, <2>1
  <2>2. CASE ~old.all
    <3>1. copy = ApplyMetadata(old.copy, kind, {one}, old.all, old.impl)
      <4>1. old.all = FALSE
        BY <1>3, <2>2
      <4> QED
        BY <1>8, <4>1
    <3>2. old.copy \in Deployments /\ Fine(old.copy)
      BY <1>3
    <3>3. old.impl \in Nat /\ old.impl <= code
      BY <1>3
    <3>4. /\ copy \in Deployments /\ Fine(copy)
          /\ copy.factory = old.copy.factory /\ Recorded(copy) = Recorded(old.copy)
          /\ \A k \in Kinds : copy.default[k] =
                IF old.all /\ k = kind THEN old.impl ELSE old.copy.default[k]
      <4>1. old.all \in BOOLEAN
        BY <1>3
      <4> QED
        BY <1>5, <3>1, <3>2, <3>3, <4>1, MetadataFine
    <3> QED
      BY <2>2, <3>4 DEF Kinds
  <2> QED
    BY <1>3, <2>1, <2>2
<1>15. copy # NoRecord
  <2>1. copy.factory # 0
    BY <1>14 DEF Fine, HasCode, IInv, ChainOK
  <2> QED
    BY <2>1 DEF NoRecord, None
<1>16. CanCreate(copy)
  BY <1>3, <1>14 DEF CanCreate, Readable
<1>17. Fine(copy)' /\ CanCreate(copy)'
  BY <1>12, <1>14, <1>16, FineLasts, CanCreateLasts DEF IInv
<1>18. /\ Tail(old.todo) \in Seq(Nat)
       /\ Len(Tail(old.todo)) = Len(old.todo) - 1
       /\ \A i \in 1..Len(Tail(old.todo)) : Tail(old.todo)[i] = old.todo[i + 1]
  BY <1>3, HeadTailProperties
<1>19. step \in {"tx", "default", "write"} /\ (step = "tx" => Len(old.todo) > 1)
  BY <1>9 DEF AfterUpgrades
<1>20. /\ run \in Processes /\ run.job = job /\ run.copy = copy /\ run.step = step
       /\ run.impl = old.impl /\ run.todo = Tail(old.todo)
  BY <1>2, <1>10, <1>14, <1>18, <1>19 DEF Processes
<1>21. Copied(run)'
  BY <1>15, <1>17, <1>20 DEF Copied, Upgrades
<1>22. Creating(run)'
  BY <1>20 DEF Creating, Upgrades
<1>23. Upgrading(run)'
  <2>1. ASSUME run.step = "tx"
        PROVE  run.todo # <<>>
    <3>1. old.todo \in Seq(Nat)
      BY <1>3
    <3>2. Len(old.todo) > 1 /\ Len(old.todo) \in Nat
      BY <1>19, <1>20, <2>1, <3>1
    <3>3. PICK tail : tail = Tail(old.todo)
      OBVIOUS
    <3>4. Len(tail) = Len(old.todo) - 1
      BY <1>18, <3>3
    <3>5. tail # <<>>
      BY <3>2, <3>4
    <3> QED
      BY <1>20, <3>3, <3>5
  <2>2. ASSUME NEW i \in DOMAIN run.todo
        PROVE  run.todo[i] \in Recorded(run.copy)
    <3>1. i \in 1..Len(Tail(old.todo)) /\ i + 1 \in DOMAIN old.todo
      BY <1>3, <1>18, <1>20, <2>2
    <3> QED
      BY <1>3, <1>14, <1>18, <1>20, <3>1
  <2>3. run.impl # None /\ run.impl <= code'
    BY <1>2, <1>11, <1>20 DEF Sound, Upgrading
  <2> QED
    BY <1>20, <2>1, <2>2, <2>3 DEF Upgrading, Upgrades, Recorded
<1>24. Sound(run)'
  BY <1>20, <1>21, <1>22, <1>23 DEF Sound
<1> QED
  BY <1>11, <1>12, <1>13, <1>24, Continued

(***************************************************************************)
(* The factory is given the implementation its launches have, and the copy *)
(* says so of all of them.                                                 *)
(***************************************************************************)
LEMMA SetDefaultKeeps ==
    ASSUME IInv, NEW p \in Commands, NEW job \in Upgrades, SetDefault(p, job)
    PROVE  IInv'
<1>1. PICK old : old = proc[p]
  OBVIOUS
<1>2. /\ old \in Processes /\ Sound(old) /\ old.job = job /\ old.step = "default"
  BY <1>1, RunOf DEF SetDefault, At
<1>3. /\ old.copy \in Deployments /\ old.copy # NoRecord /\ Fine(old.copy)
      /\ CanCreate(old.copy)
      /\ \A i \in DOMAIN old.todo : old.todo[i] \in Recorded(old.copy)
      /\ old.impl \in Nat /\ old.impl <= code /\ old.impl # None
  BY <1>2 DEF Processes, Sound, Copied, Upgrading, Recorders, Upgrades
<1>4. PICK kind : kind = KindOf(job)
  OBVIOUS
<1>5. kind \in Kinds
  BY <1>4 DEF KindOf, Kinds
<1>allTrue. PICK all \in BOOLEAN : all = TRUE
  OBVIOUS
<1>noTargets. PICK targets : targets = {}
  OBVIOUS
<1>6. PICK copy : copy = ApplyMetadata(old.copy, kind, targets, all, old.impl)
  OBVIOUS
<1>7. PICK run : run = [old EXCEPT !.step = "write", !.copy = copy]
  OBVIOUS
<1>8. /\ factories' = DefaultSet(old.copy.factory, kind, old.impl)
      /\ UNCHANGED <<code, tokens>> /\ UNCHANGED Disk /\ UNCHANGED Log
      /\ proc' = [proc EXCEPT ![p] = run]
  <2>1. run = [old EXCEPT !.step = "write",
                          !.copy = ApplyMetadata(@, kind, {}, TRUE, old.impl)]
    BY <1>2, <1>6, <1>7, <1>allTrue, <1>noTargets DEF Processes
  <2> QED
    BY <1>1, <1>4, <2>1 DEF SetDefault, Continue
<1>9. /\ ChainOK' /\ Grows
      /\ factories'[old.copy.factory].default[kind] = old.impl
  <2>1. old.copy.factory \in DOMAIN factories
    BY <1>3 DEF Fine, HasCode
  <2> QED
    BY <1>3, <1>5, <1>8, <2>1, DefaultSetGrows DEF IInv
<1>10. DiskOK' /\ LogOK'
  BY <1>8, <1>9, DiskLasts, LogSame DEF IInv
<1>11. /\ copy \in Deployments /\ Fine(copy)
       /\ copy.factory = old.copy.factory /\ Recorded(copy) = Recorded(old.copy)
       /\ \A k \in Kinds :
             copy.default[k] = IF all /\ k = kind THEN old.impl ELSE old.copy.default[k]
  <2>1. old.copy \in Deployments /\ Fine(old.copy)
    BY <1>3
  <2>2. old.impl \in Nat /\ old.impl <= code
    BY <1>3
  <2>3. all \in BOOLEAN
    BY <1>allTrue
  <2> QED
    BY <1>5, <1>6, <2>1, <2>2, <2>3, MetadataFine
<1>12. copy # NoRecord
  <2>1. copy.factory # 0
    BY <1>11 DEF Fine, HasCode, IInv, ChainOK
  <2> QED
    BY <2>1 DEF NoRecord, None
<1>13. Fine(copy)'
  BY <1>9, <1>11, FineLasts DEF IInv
<1>14. CanCreate(copy)'
  <2>1. CASE kind = "hook"
    BY <1>3, <1>9, <1>11, <2>1 DEF CanCreate
  <2>2. CASE kind # "hook"
    <3>1. copy.default["hook"] = old.copy.default["hook"]
      BY <1>11, <2>2 DEF Kinds
    <3>2. CanCreate(copy)
      BY <1>3, <1>11, <3>1 DEF CanCreate, Readable
    <3> QED
      BY <1>9, <1>11, <3>2, CanCreateLasts
  <2> QED
    BY <2>1, <2>2
<1>15. /\ run \in Processes /\ run.job = job /\ run.copy = copy /\ run.step = "write"
       /\ run.impl = old.impl /\ run.todo = old.todo
  BY <1>2, <1>7, <1>11 DEF Processes
<1>16. Copied(run)'
  BY <1>12, <1>13, <1>14, <1>15 DEF Copied, Upgrades
<1>17. Creating(run)'
  BY <1>15 DEF Creating, Upgrades
<1>18. Upgrading(run)'
  <2>1. \A i \in DOMAIN run.todo : run.todo[i] \in Recorded(run.copy)
    BY <1>3, <1>11, <1>15
  <2> QED
    BY <1>3, <1>8, <1>15, <2>1 DEF Upgrading, Upgrades, Recorded
<1>19. Sound(run)'
  BY <1>15, <1>16, <1>17, <1>18 DEF Sound
<1> QED
  BY <1>8, <1>9, <1>10, <1>19, Continued

-----------------------------------------------------------------------------
(* Upgrades of the factory.                                                *)

(***************************************************************************)
(* The copy of an upgrade says which implementation the factory has now.   *)
(***************************************************************************)
LEMMA ImplementationFine ==
    ASSUME NEW r \in Deployments, Fine(r), NEW impl \in Nat, impl <= code,
           NEW new, new = [r EXCEPT !.impl = impl]
    PROVE  /\ new \in Deployments /\ Fine(new)
           /\ new.factory = r.factory /\ new.default = r.default
<1>1. /\ new \in Deployments /\ new.createdTokens = r.createdTokens /\ new.impl = impl
      /\ new.factory = r.factory /\ new.default = r.default
  BY DEF Deployments
<1>2. Recorded(new) = Recorded(r)
  BY <1>1 DEF Recorded
<1> QED
  BY <1>1, <1>2 DEF Fine, HasCode

LEMMA UpgradeFactoryKeeps ==
    ASSUME IInv, NEW p \in Commands, UpgradeFactory(p)
    PROVE  IInv'
<1>1. PICK old : old = proc[p]
  OBVIOUS
<1>2. /\ old \in Processes /\ Sound(old) /\ old.job = "upgrade-factory"
  BY <1>1, RunOf DEF UpgradeFactory, At
<1>3. /\ old.copy \in Deployments /\ old.copy # NoRecord /\ Fine(old.copy)
      /\ CanCreate(old.copy)
      /\ old.impl \in Nat /\ old.impl <= code
  BY <1>2 DEF Processes, Sound, Copied, Upgrading, Recorders
<1>4. PICK copy : copy = [old.copy EXCEPT !.impl = old.impl]
  OBVIOUS
<1>5. PICK run : run = [old EXCEPT !.step = "write", !.copy = copy]
  OBVIOUS
<1>6. /\ factories' = [factories EXCEPT ![old.copy.factory].impl = old.impl]
      /\ UNCHANGED <<code, tokens>> /\ UNCHANGED Disk /\ UNCHANGED Log
      /\ proc' = [proc EXCEPT ![p] = run]
  <2>1. run = [old EXCEPT !.step = "write", !.copy.impl = old.impl]
    BY <1>2, <1>4, <1>5 DEF Processes
  <2> QED
    BY <1>1, <2>1 DEF UpgradeFactory, Continue
<1>7. ChainOK' /\ Grows
  <2>1. old.copy.factory \in DOMAIN factories
    BY <1>3 DEF Fine, HasCode
  <2> QED
    BY <1>3, <1>6, <2>1, FactoryUpgradeGrows DEF IInv
<1>8. DiskOK' /\ LogOK'
  BY <1>6, <1>7, DiskLasts, LogSame DEF IInv
<1>9. /\ copy \in Deployments /\ Fine(copy)
      /\ copy.factory = old.copy.factory /\ copy.default = old.copy.default
  BY <1>3, <1>4, ImplementationFine
<1>10. copy # NoRecord
  <2>1. copy.factory # 0
    BY <1>9 DEF Fine, HasCode, IInv, ChainOK
  <2> QED
    BY <2>1 DEF NoRecord, None
<1>11. CanCreate(copy)
  BY <1>3, <1>9 DEF CanCreate, Readable
<1>12. Fine(copy)' /\ CanCreate(copy)'
  BY <1>7, <1>9, <1>11, FineLasts, CanCreateLasts DEF IInv
<1>13. /\ run \in Processes /\ run.job = "upgrade-factory" /\ run.copy = copy
       /\ run.impl = old.impl
  BY <1>2, <1>5, <1>9 DEF Processes
<1>14. Copied(run)'
  BY <1>10, <1>12, <1>13 DEF Copied
<1>15. Creating(run)' /\ Upgrading(run)'
  BY <1>3, <1>6, <1>13 DEF Creating, Upgrading, Upgrades
<1>16. Sound(run)'
  BY <1>13, <1>14, <1>15 DEF Sound
<1> QED
  BY <1>6, <1>7, <1>8, <1>16, Continued

(***************************************************************************)
(* The factory has a new implementation, and not yet a hook: the copy does *)
(* not speak of either.                                                    *)
(***************************************************************************)
LEMMA UpgradeFactoryFirstKeeps ==
    ASSUME IInv, NEW p \in Commands, UpgradeFactoryFirst(p)
    PROVE  IInv'
<1>1. PICK old : old = proc[p]
  OBVIOUS
<1>2. /\ old \in Processes /\ Sound(old) /\ old.job = "upgrade-hook-architecture"
  BY <1>1, RunOf DEF UpgradeFactoryFirst, At
<1>3. /\ old.copy \in Deployments /\ old.copy # NoRecord /\ Fine(old.copy)
      /\ old.impl \in Nat
  BY <1>2 DEF Processes, Sound, Copied, Recorders
<1>4. PICK run : run = [old EXCEPT !.step = "tx2"]
  OBVIOUS
<1>5. /\ factories' = [factories EXCEPT ![old.copy.factory].impl = old.impl]
      /\ UNCHANGED <<code, tokens>> /\ UNCHANGED Disk /\ UNCHANGED Log
      /\ proc' = [proc EXCEPT ![p] = run]
  BY <1>1, <1>4 DEF UpgradeFactoryFirst, Continue
<1>6. ChainOK' /\ Grows
  <2>1. old.copy.factory \in DOMAIN factories
    BY <1>3 DEF Fine, HasCode
  <2> QED
    BY <1>3, <1>5, <2>1, FactoryUpgradeGrows DEF IInv
<1>7. DiskOK' /\ LogOK'
  BY <1>5, <1>6, DiskLasts, LogSame DEF IInv
<1>8. Sound(old)'
  BY <1>2, <1>6, SoundLasts DEF IInv
<1>9. /\ run \in Processes /\ run.job = old.job /\ run.copy = old.copy
      /\ run.impl = old.impl /\ run.step = "tx2"
  BY <1>2, <1>4 DEF Processes
<1>10. Copied(run)'
  BY <1>2, <1>8, <1>9 DEF Sound, Copied
<1>11. Creating(run)' /\ Upgrading(run)'
  BY <1>2, <1>8, <1>9 DEF Sound, Creating, Upgrading, Upgrades
<1>12. Sound(run)'
  BY <1>9, <1>10, <1>11 DEF Sound
<1> QED
  BY <1>5, <1>6, <1>7, <1>12, Continued

LEMMA SetArchitectureDefaultKeeps ==
    ASSUME IInv, NEW p \in Commands, SetArchitectureDefault(p)
    PROVE  IInv'
<1>1. PICK old : old = proc[p]
  OBVIOUS
<1>2. /\ old \in Processes /\ Sound(old) /\ old.job = "upgrade-hook-architecture"
  BY <1>1, RunOf DEF SetArchitectureDefault, At
<1>3. PICK hook : hook = old.impl + 1
  OBVIOUS
<1>4. /\ old.copy \in Deployments /\ old.copy # NoRecord /\ Fine(old.copy)
      /\ old.impl \in Nat /\ old.impl <= code /\ old.impl + 1 <= code
  BY <1>2 DEF Processes, Sound, Copied, Upgrading, Recorders
<1>5. hook \in Nat /\ hook # None /\ hook <= code /\ "hook" \in Kinds
  BY <1>3, <1>4 DEF None, Kinds
<1>6. PICK between : between = [old.copy EXCEPT !.impl = old.impl]
  OBVIOUS
<1>7. /\ between \in Deployments /\ Fine(between)
      /\ between.factory = old.copy.factory /\ between.default = old.copy.default
  BY <1>4, <1>6, ImplementationFine
<1>8. PICK copy : copy = [between EXCEPT !.default["hook"] = hook]
  OBVIOUS
<1>9. /\ copy \in Deployments /\ copy.factory = old.copy.factory
      /\ copy.impl = between.impl /\ copy.createdTokens = between.createdTokens
      /\ \A k \in Kinds : copy.default[k] \in {hook, between.default[k]}
  BY <1>5, <1>7, <1>8 DEF Deployments
<1>10. Fine(copy)
  <2>1. Recorded(copy) = Recorded(between)
    BY <1>9 DEF Recorded
  <2>2. \A k \in Kinds : copy.default[k] <= code
    <3>1. \A k \in Kinds : between.default[k] <= code
      BY <1>7 DEF Fine, HasCode
    <3> QED
      BY <1>5, <1>9, <3>1
  <2>3. HasCode(copy)
    BY <1>7, <1>9, <2>1, <2>2 DEF Fine, HasCode
  <2> QED
    BY <1>7, <1>9, <2>1, <2>3 DEF Fine
<1>11. copy # NoRecord
  <2>1. copy.factory # 0
    BY <1>10 DEF Fine, HasCode, IInv, ChainOK
  <2> QED
    BY <2>1 DEF NoRecord, None
<1>12. PICK run : run = [old EXCEPT !.step = "write", !.copy = copy]
  OBVIOUS
<1>13. /\ factories' = DefaultSet(old.copy.factory, "hook", hook)
       /\ UNCHANGED <<code, tokens>> /\ UNCHANGED Disk /\ UNCHANGED Log
  BY <1>1, <1>3 DEF SetArchitectureDefault, Continue
<1>14. proc' = [proc EXCEPT ![p] = run]
  <2>1. copy = [old.copy EXCEPT !.impl = old.impl, !.default["hook"] = hook]
    BY <1>4, <1>6, <1>8 DEF Deployments
  <2>2. run = [old EXCEPT !.step = "write", !.copy.impl = old.impl,
                          !.copy.default["hook"] = hook]
    BY <1>2, <1>12, <2>1 DEF Processes
  <2> QED
    BY <1>1, <1>3, <2>2 DEF SetArchitectureDefault, Continue
<1>15. /\ ChainOK' /\ Grows
       /\ factories'[old.copy.factory].default["hook"] = hook
  <2>1. old.copy.factory \in DOMAIN factories
    BY <1>4 DEF Fine, HasCode
  <2> QED
    BY <1>5, <1>13, <2>1, DefaultSetGrows DEF IInv
<1>16. DiskOK' /\ LogOK'
  BY <1>13, <1>15, DiskLasts, LogSame DEF IInv
<1>17. Fine(copy)'
  BY <1>9, <1>10, <1>15, FineLasts DEF IInv
<1>18. CanCreate(copy)'
  BY <1>5, <1>9, <1>15 DEF CanCreate
<1>19. /\ run \in Processes /\ run.job = "upgrade-hook-architecture"
       /\ run.copy = copy /\ run.impl = old.impl
  BY <1>2, <1>9, <1>12 DEF Processes
<1>20. Copied(run)'
  BY <1>11, <1>17, <1>18, <1>19 DEF Copied
<1>21. Creating(run)' /\ Upgrading(run)'
  BY <1>4, <1>13, <1>19 DEF Creating, Upgrading, Upgrades
<1>22. Sound(run)'
  BY <1>19, <1>20, <1>21 DEF Sound
<1> QED
  BY <1>13, <1>14, <1>15, <1>16, <1>22, Continued

-----------------------------------------------------------------------------
(* The disk.                                                               *)

LEMMA ExportKeeps ==
    ASSUME IInv, NEW p \in Commands, Export(p)
    PROVE  IInv'
<1>1. PICK old : old = proc[p]
  OBVIOUS
<1>2. /\ old \in Processes /\ Sound(old) /\ old.job = "export"
  BY <1>1, RunOf DEF Export, At
<1>3. /\ old.copy \in Deployments
      /\ old.todo \in Seq(Nat) /\ old.todo # <<>> /\ old.todo[1] \in Nat
  BY <1>2 DEF Processes, Sound, Upgrading
<1>4. PICK n : n = old.todo[1]
  OBVIOUS
<1>5. PICK run : run = IF Len(old.todo) = 1 THEN Idle ELSE [old EXCEPT !.todo = Tail(@)]
  OBVIOUS
<1>6. /\ bundle' = [bundle EXCEPT ![Directory(n)] = WriteFile(@, n, old.copy)]
      /\ UNCHANGED Chain /\ UNCHANGED <<file, last>> /\ UNCHANGED Log
      /\ proc' = [proc EXCEPT ![p] = run]
  BY <1>1, <1>4, <1>5 DEF Export, Continue
<1>7. ChainOK' /\ Grows
  BY <1>6, ChainSame DEF IInv
<1>8. LogOK'
  BY <1>6, LogSame DEF IInv
<1>9. ASSUME NEW dir \in Directories
      PROVE  WriteFile(dir, n, old.copy) \in Directories
  <2>1. Snapshot(old.copy) \in NetworkDeployment /\ old.copy.factory \in Nat
    BY <1>3 DEF Deployments, Snapshot, NetworkDeployment
  <2>2. n % 3 = 0 \/ n % 3 = 1 \/ n % 3 = 2
    BY <1>3, <1>4
  <2> QED
    BY <2>1, <2>2 DEF WriteFile, Directories, renderAddressesTs, renderReadme
<1>10. bundle' \in [1..Bundles -> Directories]
  <2>1. bundle \in [1..Bundles -> Directories]
    BY DEF IInv, DiskOK
  <2>2. PICK d : d = Directory(n)
    OBVIOUS
  <2>3. bundle' = [bundle EXCEPT ![d] = WriteFile(bundle[d], n, old.copy)]
    BY <1>6, <2>2
  <2>4. d \in 1..Bundles => WriteFile(bundle[d], n, old.copy) \in Directories
    BY <1>9, <2>1
  <2> QED
    BY <2>1, <2>3, <2>4
<1>11. DiskOK'
  <2>1. PICK r : r = file
    OBVIOUS
  <2>2. r \in Deployments /\ Real(r) /\ CanCreate(r) /\ file' = r /\ last' \in Deployments
    BY <1>6, <2>1 DEF IInv, DiskOK
  <2>3. r # NoRecord => Fine(r) /\ Fine(r)'
    BY <1>7, <2>2, FineLasts DEF Real, Fine, IInv
  <2>4. Real(r)'
    BY <2>3 DEF Real, Fine
  <2>5. CanCreate(r)'
    BY <1>7, <2>2, <2>3, CanCreateLasts
  <2>6. Real(last)'
    BY <1>6 DEF IInv, DiskOK, Real, HasCode, Launched, Recorded, Chain
  <2> QED
    BY <1>10, <2>2, <2>4, <2>5, <2>6 DEF DiskOK
<1>12. Sound(run)'
  <2>1. CASE Len(old.todo) = 1
    BY <1>5, <1>7, <2>1, IdleSound
  <2>2. CASE Len(old.todo) # 1
    <3>1. PICK tail : tail = Tail(old.todo)
      OBVIOUS
    <3>2. tail \in Seq(Nat) /\ Len(tail) = Len(old.todo) - 1 /\ Len(old.todo) \in Nat
      BY <1>3, <3>1, HeadTailProperties
    <3>3. tail # <<>>
      <4>1. PICK len : len = Len(old.todo)
        OBVIOUS
      <4>2. len \in Nat /\ len # 1 /\ Len(tail) = len - 1
        BY <2>2, <3>2, <4>1
      <4>3. Len(tail) # 0
        BY <4>2
      <4> QED
        BY <4>3
    <3>4. run = [old EXCEPT !.todo = tail]
      BY <1>2, <1>5, <2>2, <3>1 DEF Processes
    <3>5. /\ run \in Processes /\ run.job = old.job /\ run.copy = old.copy
          /\ run.impl = old.impl /\ run.step = old.step /\ run.todo = tail
      BY <1>2, <3>2, <3>4 DEF Processes
    <3>6. Sound(old)'
      BY <1>2, <1>7, SoundLasts DEF IInv
    <3>7. Copied(run)'
      BY <3>5, <3>6 DEF Sound, Copied
    <3>8. Creating(run)' /\ Upgrading(run)'
      BY <1>2, <3>3, <3>5, <3>6 DEF Sound, Creating, Upgrading, Upgrades
    <3> QED
      BY <3>5, <3>7, <3>8 DEF Sound
  <2> QED
    BY <2>1, <2>2
<1> QED
  BY <1>6, <1>7, <1>8, <1>11, <1>12, Continued

LEMMA TruncateKeeps ==
    ASSUME IInv, NEW p \in Commands, Truncate(p)
    PROVE  IInv'
<1>1. PICK old : old = proc[p]
  OBVIOUS
<1>2. old \in Processes /\ Sound(old) /\ old.step = "write"
  BY <1>1, RunOf DEF Truncate
<1>3. PICK run : run = [old EXCEPT !.step = "writing"]
  OBVIOUS
<1>4. /\ file' = NoRecord /\ UNCHANGED Chain /\ UNCHANGED <<bundle, last>> /\ UNCHANGED Log
      /\ proc' = [proc EXCEPT ![p] = run]
  BY <1>1, <1>3 DEF Truncate, Continue
<1>5. ChainOK' /\ Grows
  BY <1>4, ChainSame DEF IInv
<1>6. LogOK'
  BY <1>4, LogSame DEF IInv
<1>7. Real(NoRecord)' /\ CanCreate(NoRecord)'
  BY DEF Real, CanCreate, Readable
<1>8. DiskOK'
  <2>1. Real(last)'
    BY <1>4 DEF IInv, DiskOK, Real, HasCode, Launched, Recorded, Chain
  <2> QED
    BY <1>4, <1>7, <2>1, NoRecordType DEF IInv, DiskOK
<1>9. Sound(old)'
  BY <1>2, <1>5, SoundLasts DEF IInv
<1>10. /\ run \in Processes /\ run.job = old.job /\ run.copy = old.copy
       /\ run.impl = old.impl /\ run.step = "writing" /\ run.todo = old.todo
       /\ run.token = old.token
  BY <1>2, <1>3 DEF Processes
<1>11. Copied(run)'
  BY <1>2, <1>9, <1>10 DEF Sound, Copied
<1>12. Creating(run)'
  BY <1>9, <1>10 DEF Sound, Creating
<1>13. Upgrading(run)'
  BY <1>9, <1>10 DEF Sound, Upgrading
<1>14. Sound(run)'
  BY <1>10, <1>11, <1>12, <1>13 DEF Sound
<1> QED
  BY <1>4, <1>5, <1>6, <1>8, <1>14, Continued

(***************************************************************************)
(* What a command writes is its copy, at a moment at which the copy        *)
(* promises no more than there is.                                         *)
(***************************************************************************)
LEMMA WriteKeeps ==
    ASSUME IInv, NEW p \in Commands, writeDeployment(p)
    PROVE  IInv'
<1>1. PICK old : old = proc[p]
  OBVIOUS
<1>2. old \in Processes /\ Sound(old) /\ old.step = "writing"
  BY <1>1, RunOf DEF writeDeployment
<1>3. PICK r : r = old.copy
  OBVIOUS
<1>4. /\ file' = r /\ last' = r /\ UNCHANGED Chain /\ UNCHANGED bundle /\ UNCHANGED Log
      /\ proc' = [proc EXCEPT ![p] = Idle]
  BY <1>1, <1>3 DEF writeDeployment, Written, Continue
<1>5. ChainOK' /\ Grows
  BY <1>4, ChainSame DEF IInv
<1>6. LogOK'
  BY <1>4, LogSame DEF IInv
<1>7. r \in Deployments
  BY <1>2, <1>3 DEF Processes
<1>8. Sound(old)'
  BY <1>2, <1>5, SoundLasts DEF IInv
<1>9. Real(r)'
  BY <1>3, <1>8 DEF Sound, Copied, Real, Fine
<1>10. CanCreate(r)'
  BY <1>2, <1>3, <1>8 DEF Sound, Copied
<1>11. DiskOK'
  BY <1>4, <1>7, <1>9, <1>10 DEF IInv, DiskOK
<1> QED
  BY <1>4, <1>5, <1>6, <1>11, IdleSound, Continued

LEMMA StopKeeps ==
    ASSUME IInv, NEW p \in Commands, Stop(p)
    PROVE  IInv'
<1>1. /\ proc' = [proc EXCEPT ![p] = Idle] /\ orderly' = FALSE
      /\ UNCHANGED Chain /\ UNCHANGED Disk /\ UNCHANGED <<starts, solo>>
  BY DEF Stop
<1>2. ChainOK' /\ Grows
  BY <1>1, ChainSame DEF IInv
<1>3. DiskOK'
  BY <1>1, <1>2, DiskLasts DEF IInv
<1>4. LogOK'
  BY <1>1 DEF IInv, LogOK
<1> QED
  BY <1>1, <1>2, <1>3, <1>4, IdleSound, Continued

LEMMA StutterKeeps ==
    ASSUME IInv, UNCHANGED vars
    PROVE  IInv'
<1>1. UNCHANGED Chain /\ UNCHANGED Disk /\ UNCHANGED Log /\ UNCHANGED proc
  BY DEF vars, Chain, Disk, Log
<1>2. ChainOK' /\ Grows
  BY <1>1, ChainSame DEF IInv
<1>3. DiskOK' /\ LogOK'
  BY <1>1, <1>2, DiskLasts, LogSame DEF IInv
<1>4. ASSUME NEW q \in Commands
      PROVE  Sound(proc[q])'
  <2>1. PICK run : run = proc[q]
    OBVIOUS
  <2>2. Sound(run)'
    BY <1>2, <2>1, RunOf, SoundLasts DEF IInv
  <2> QED
    BY <1>1, <2>1, <2>2
<1> QED
  BY <1>1, <1>2, <1>3, <1>4 DEF IInv, ProcOK

-----------------------------------------------------------------------------
(* The theorems.                                                           *)

LEMMA InitHolds == Init => IInv
<1> SUFFICES ASSUME Init
             PROVE  IInv
  OBVIOUS
<1>1. ChainOK
  <2>1. CASE code = 0 /\ factories = <<>>
    BY <2>1 DEF Init, ChainOK
  <2>2. CASE code = 2 /\ factories = <<LegacyFactory>>
    <3>1. LegacyFactory \in Factories /\ \A k \in Kinds : LegacyFactory.default[k] <= 2
      BY DEF LegacyFactory, Factories, None
    <3>2. factories \in Seq(Factories) /\ DOMAIN factories = {1}
      BY <2>2, <3>1
    <3>3. \A f \in DOMAIN factories : factories[f] = LegacyFactory
      BY <2>2, <3>2
    <3>4. tokens \in Seq(Tokens) /\ DOMAIN tokens = {}
      BY DEF Init
    <3> QED
      BY <2>2, <3>1, <3>2, <3>3, <3>4 DEF ChainOK
  <2> QED
    BY <2>1, <2>2 DEF Init
<1>2. Real(NoRecord) /\ CanCreate(NoRecord)
  BY DEF Real, CanCreate, Readable
<1>3. file \in Deployments /\ Real(file) /\ CanCreate(file)
  <2>1. CASE file = NoRecord
    BY <1>2, <2>1, NoRecordType
  <2>2. CASE code = 2 /\ factories = <<LegacyFactory>> /\ file = LegacyRecord
    <3>1. /\ LegacyRecord \in Deployments /\ LegacyRecord.factory = 1 /\ LegacyRecord.impl = 1
          /\ LegacyRecord.createdTokens = <<>>
          /\ LegacyRecord.default["hook"] = None
          /\ \A k \in Kinds : LegacyRecord.default[k] <= 2
      BY DEF LegacyRecord, LegacyFactory, Deployments, Kinds, None
    <3>2. PICK r : r = LegacyRecord
      OBVIOUS
    <3>3. DOMAIN r.createdTokens = {} /\ Recorded(r) = {}
      BY <3>1, <3>2 DEF Recorded
    <3>4. 1 \in DOMAIN factories
      BY <2>2
    <3>5. HasCode(r)
      BY <2>2, <3>1, <3>2, <3>3, <3>4 DEF HasCode
    <3>6. Real(r)
      BY <3>3, <3>5 DEF Real
    <3>7. CanCreate(r)
      BY <3>1, <3>2 DEF CanCreate
    <3> QED
      BY <2>2, <3>1, <3>2, <3>6, <3>7
  <2> QED
    BY <2>1, <2>2 DEF Init
<1>4. bundle \in [1..Bundles -> Directories]
  <2>1. Rendered(NoRecord) \in Directories
    BY NoRecordType DEF Rendered, Directories, NetworkDeployment, Snapshot,
                        renderAddressesTs, renderReadme, Deployments
  <2> QED
    BY <2>1 DEF Init
<1>5. DiskOK
  <2>1. last = file
    BY DEF Init
  <2> QED
    BY <1>3, <1>4, <2>1 DEF DiskOK
<1>6. LogOK
  BY DEF Init, LogOK
<1>7. ProcOK
  <2>1. code \in Nat
    BY <1>1 DEF ChainOK
  <2>2. Copied(Idle)
    BY DEF Copied, Recorders, Upgrades, CanCreate, Readable, Idle
  <2>3. Creating(Idle) /\ Upgrading(Idle)
    BY <2>1 DEF Creating, Upgrading, Upgrades, Idle, None
  <2>4. Sound(Idle)
    BY <2>2, <2>3, IdleType DEF Sound
  <2>5. \A p \in Commands : proc[p] = Idle
    BY DEF Init
  <2>6. proc \in [Commands -> Processes]
    BY IdleType DEF Init
  <2> QED
    BY <2>4, <2>5, <2>6 DEF ProcOK
<1> QED
  BY <1>1, <1>5, <1>6, <1>7 DEF IInv

LEMMA UpgradeKeeps ==
    ASSUME IInv, NEW p \in Commands, NEW job \in Upgrades, Upgrade(p, job)
    PROVE  IInv'
BY StartUpgradeKeeps, UpgradeProxyKeeps, SetDefaultKeeps DEF Upgrade

LEMMA NextHolds == IInv /\ [Next]_vars => IInv'
<1> SUFFICES ASSUME IInv, [Next]_vars
             PROVE  IInv'
  OBVIOUS
<1>1. CASE UNCHANGED vars
  BY <1>1, StutterKeeps
<1>2. ASSUME NEW p \in Commands, Command(p)
      PROVE  IInv'
  <2>1. CASE deploy(p)
    BY <2>1, StartDeployKeeps, DeployFactoryKeeps, SetFirstDefaultKeeps DEF deploy
  <2>2. CASE StartRewrite(p)
    BY <2>2, StartRewriteKeeps
  <2>3. CASE createToken(p)
    BY <2>3, StartCreateKeeps, CreateTokenKeeps, ReadRouterKeeps, ReadHookKeeps
       DEF createToken
  <2>4. CASE upgradeHooks(p)
    BY <2>4, UpgradeKeeps DEF upgradeHooks, Upgrades
  <2>5. CASE upgradeRouters(p)
    BY <2>5, UpgradeKeeps DEF upgradeRouters, Upgrades
  <2>6. CASE upgradeFactory(p)
    BY <2>6, StartFactoryUpgradeKeeps, UpgradeFactoryKeeps DEF upgradeFactory
  <2>7. CASE upgradeHookArchitecture(p)
    BY <2>7, StartArchitectureUpgradeKeeps, UpgradeFactoryFirstKeeps,
       SetArchitectureDefaultKeeps DEF upgradeHookArchitecture
  <2>8. CASE exportAbis(p)
    BY <2>8, StartExportKeeps, ExportKeeps DEF exportAbis
  <2>9. CASE Truncate(p) \/ writeDeployment(p) \/ Stop(p)
    BY <2>9, TruncateKeeps, WriteKeeps, StopKeeps
  <2> QED
    BY <1>2, <2>1, <2>2, <2>3, <2>4, <2>5, <2>6, <2>7, <2>8, <2>9 DEF Command
<1> QED
  BY <1>1, <1>2 DEF Next

(***************************************************************************)
(* IInv is invariant: what each process holds in its copy is at every      *)
(* moment as real as what is on disk.                                      *)
(***************************************************************************)
THEOREM InvariantHolds == Spec => []IInv
BY InitHolds, NextHolds, PTL DEF Spec

(***************************************************************************)
(* The variables keep their types.                                         *)
(***************************************************************************)
THEOREM TypeCorrect == Spec => []TypeOK
<1>1. IInv => TypeOK
  BY DEF IInv, ChainOK, DiskOK, LogOK, ProcOK, TypeOK
<1> QED
  BY <1>1, InvariantHolds, PTL

(***************************************************************************)
(* A record never tells of what does not exist, however many commands      *)
(* overlap, fail or stop.                                                  *)
(***************************************************************************)
THEOREM RecordIsReal == Spec => []RecordedIsReal
<1>1. IInv => RecordedIsReal
  BY DEF IInv, DiskOK, RecordedIsReal
<1> QED
  BY <1>1, InvariantHolds, PTL

(***************************************************************************)
(* A record that names a hook implementation belongs to a factory that can *)
(* create launches, wherever a deployment or an upgrade stopped.           *)
(***************************************************************************)
THEOREM FactoryCanCreate == Spec => []RecordedFactoryCanCreate
<1>1. IInv => RecordedFactoryCanCreate
  BY DEF IInv, DiskOK, CanCreate, RecordedFactoryCanCreate
<1> QED
  BY <1>1, InvariantHolds, PTL

=============================================================================
