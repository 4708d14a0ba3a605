------------------------ MODULE MigrationKeeperProofs ------------------------
(***************************************************************************)
(* The safety properties of MigrationKeeper, for every supply cap, tax,    *)
(* reserve, deadline and bound.                                            *)
(***************************************************************************)
EXTENDS MigrationKeeper, TLAPS

(***************************************************************************)
(* What a past reading s is still worth, as long as the launch has not     *)
(* migrated, when the hook has bal OKB, owes fees, and sup tokens exist:   *)
(* without a donation since, the balance has not grown; without a claim in *)
(* between, the fees were not more than they are now when they were read   *)
(* first.  Both together bound the reserve, whichever came first.          *)
(***************************************************************************)
BalanceBound(s, bal) == "balance" \in s.fields /\ ~s.donated => bal <= s.balance

FeesBound(s, fees) ==
    "claimable" \in s.fields /\ "balance" \notin s.fields /\ ~s.claimed =>
        s.claimable <= fees

ReserveBound(s, bal, fees) ==
    "claimable" \in s.fields /\ "balance" \in s.fields /\ ~s.donated /\ ~s.claimed =>
        bal - fees <= s.balance - s.claimable

SupplyBound(s, sup) == "supply" \in s.fields => s.supply <= sup + s.sold

Worth(s, bal, fees, sup) ==
    /\ BalanceBound(s, bal)
    /\ FeesBound(s, fees)
    /\ ReserveBound(s, bal, fees)
    /\ SupplyBound(s, sup)

\* A transaction says what its command had read, all of it.
Sent(tx) ==
    /\ tx.seen.fields = Fields
    /\ tx.data = MigrationDataOf(tx.seen)
    /\ tx.data.amount0Max # 0 /\ tx.data.amount1Max # 0

(***************************************************************************)
(* Until the migration there are tokens to migrate as long as somebody's   *)
(* transaction waits: the supply does not grow.                            *)
(***************************************************************************)
IInv ==
    /\ TypeOK
    /\ ~migrated => Worth(keeper.seen, balance, claimable, supply)
    /\ \A i \in DOMAIN pool :
          /\ Sent(pool[i])
          /\ ~migrated => /\ Worth(pool[i].seen, balance, claimable, supply)
                          /\ tokenAmount # 0
    /\ keeper.step = "ready" => keeper.seen.fields = Fields
    /\ SuccessMeansMigrated

-----------------------------------------------------------------------------
(* Readings.                                                               *)

(***************************************************************************)
(* Note: what a step of others makes of a reading.                         *)
(***************************************************************************)
LEMMA NoteFields ==
    ASSUME NEW s \in Seen, supply \in Nat, supply' \in Nat
    PROVE  /\ Note(s) \in Seen
           /\ Note(s).fields = s.fields
           /\ Note(s).claimable = s.claimable
           /\ Note(s).balance = s.balance
           /\ Note(s).supply = s.supply
           /\ s.claimed => Note(s).claimed
           /\ s.donated => Note(s).donated
           /\ claimable' < claimable /\ "claimable" \in s.fields /\ "balance" \notin s.fields
                  => Note(s).claimed
           /\ balance' - claimable' > balance - claimable /\ "balance" \in s.fields
                  => Note(s).donated
           /\ Note(s).sold = s.sold + IF supply' < supply /\ "supply" \in s.fields
                                      THEN supply - supply' ELSE 0
<1> DEFINE n == s.sold + IF supply' < supply /\ "supply" \in s.fields
                         THEN supply - supply' ELSE 0
           c == s.claimed \/ (claimable' < claimable /\ "claimable" \in s.fields
                                                     /\ "balance" \notin s.fields)
           d == s.donated \/ (balance' - claimable' > balance - claimable
                                 /\ "balance" \in s.fields)
<1>1. Note(s) = [s EXCEPT !.claimed = c, !.donated = d, !.sold = n]
  BY DEF Note
<1>2. n \in Nat
  BY DEF Seen
<1>3. c \in BOOLEAN /\ d \in BOOLEAN
  BY Zenon DEF Seen
<1> HIDE DEF n, c, d
<1>4. /\ Note(s) \in Seen
      /\ Note(s).fields = s.fields
      /\ Note(s).claimable = s.claimable
      /\ Note(s).balance = s.balance
      /\ Note(s).supply = s.supply
      /\ Note(s).claimed = c
      /\ Note(s).donated = d
      /\ Note(s).sold = n
  BY <1>1, <1>2, <1>3 DEF Seen
<1>5. /\ s.claimed => c
      /\ s.donated => d
      /\ claimable' < claimable /\ "claimable" \in s.fields /\ "balance" \notin s.fields => c
      /\ balance' - claimable' > balance - claimable /\ "balance" \in s.fields => d
  BY Zenon DEF c, d
<1> QED
  BY <1>4, <1>5 DEF n

(***************************************************************************)
(* A reading keeps its worth through a step that notes claims and gifts    *)
(* and lowers the supply: from balance b, fees f and supply u to bb, ff    *)
(* and uu.                                                                 *)
(***************************************************************************)
LEMMA WorthLasts ==
    ASSUME NEW s \in Seen, NEW t \in Seen,
           NEW b \in Nat, NEW f \in Nat, NEW u \in Nat,
           NEW bb \in Nat, NEW ff \in Nat, NEW uu \in Nat,
           Worth(s, b, f, u),
           t.fields = s.fields, t.claimable = s.claimable,
           t.balance = s.balance, t.supply = s.supply,
           s.claimed => t.claimed, s.donated => t.donated,
           ff < f /\ "claimable" \in s.fields /\ "balance" \notin s.fields => t.claimed,
           bb - ff > b - f /\ "balance" \in s.fields => t.donated,
           t.sold = s.sold + IF uu < u /\ "supply" \in s.fields THEN u - uu ELSE 0,
           uu <= u, bb <= b \/ bb - ff > b - f
    PROVE  Worth(t, bb, ff, uu)
<1>0. s.balance \in Nat /\ s.claimable \in Nat /\ s.supply \in Nat /\ s.sold \in Nat
  BY DEF Seen
<1>1. BalanceBound(t, bb)
  BY <1>0 DEF Worth, BalanceBound
<1>2. FeesBound(t, ff)
  BY <1>0 DEF Worth, FeesBound
<1>3. ReserveBound(t, bb, ff)
  BY <1>0 DEF Worth, ReserveBound
<1>4. SupplyBound(t, uu)
  BY <1>0 DEF Worth, SupplyBound
<1> QED
  BY <1>1, <1>2, <1>3, <1>4 DEF Worth

\* A new answer is worth what it says.
LEMMA WorthOfAnswer ==
    ASSUME NEW s \in Seen, NEW t \in Seen, NEW field \in Fields, field \notin s.fields,
           NEW b \in Nat, NEW f \in Nat, NEW u \in Nat,
           Worth(s, b, f, u),
           t.fields = s.fields \cup {field},
           t.claimable = IF field = "claimable" THEN f ELSE s.claimable,
           t.balance = IF field = "balance" THEN b ELSE s.balance,
           t.supply = IF field = "supply" THEN u ELSE s.supply,
           t.claimed = s.claimed, t.donated = s.donated, t.sold = s.sold
    PROVE  Worth(t, b, f, u)
<1>0. s.balance \in Nat /\ s.claimable \in Nat /\ s.supply \in Nat /\ s.sold \in Nat
  BY DEF Seen
<1>1. BalanceBound(t, b)
  BY <1>0 DEF Worth, BalanceBound
<1>2. FeesBound(t, f)
  BY <1>0 DEF Worth, FeesBound
<1>3. ReserveBound(t, b, f)
  <2>1. CASE field = "claimable"
    BY <1>0, <2>1 DEF Worth, BalanceBound, ReserveBound
  <2>2. CASE field = "balance"
    BY <1>0, <2>2 DEF Worth, FeesBound, ReserveBound
  <2>3. CASE field \notin {"claimable", "balance"}
    BY <1>0, <2>3 DEF Worth, ReserveBound
  <2> QED
    BY <2>1, <2>2, <2>3
<1>4. SupplyBound(t, u)
  BY <1>0 DEF Worth, SupplyBound
<1> QED
  BY <1>1, <1>2, <1>3, <1>4 DEF Worth

LEMMA NothingIsWorth ==
    /\ Nothing \in Seen
    /\ \A b, f, u : Worth(Nothing, b, f, u)
<1>1. Nothing \in Seen
  BY LaunchAssumption DEF Nothing, Seen, Fields
<1>2. ASSUME NEW b, NEW f, NEW u
      PROVE  Worth(Nothing, b, f, u)
  BY DEF Nothing, Worth, BalanceBound, FeesBound, ReserveBound, SupplyBound
<1> QED
  BY <1>1, <1>2

-----------------------------------------------------------------------------
(* Sequences.                                                              *)

LEMMA Mapped ==
    ASSUME NEW S, NEW s \in Seq(S), NEW t,
           DOMAIN t = DOMAIN s, t = [i \in DOMAIN t |-> t[i]],
           \A i \in DOMAIN s : t[i] \in S
    PROVE  t \in Seq(S) /\ Len(t) = Len(s)
<1>1. Len(s) \in Nat /\ DOMAIN s = 1..Len(s)
  OBVIOUS
<1>2. t \in [1..Len(s) -> S]
  BY <1>1
<1>3. t \in Seq(S)
  BY <1>1, <1>2
<1> QED
  BY <1>1, <1>2, <1>3

LEMMA Appended ==
    ASSUME NEW S, NEW s \in Seq(S), NEW e \in S
    PROVE  /\ Append(s, e) \in Seq(S)
           /\ Len(Append(s, e)) = Len(s) + 1
           /\ \A i \in DOMAIN Append(s, e) :
                 \/ i \in DOMAIN s /\ Append(s, e)[i] = s[i]
                 \/ Append(s, e)[i] = e
  OBVIOUS

LEMMA Shortened ==
    ASSUME NEW S, NEW s \in Seq(S), s # <<>>
    PROVE  /\ Tail(s) \in Seq(S)
           /\ Len(Tail(s)) <= Len(s)
           /\ 1 \in DOMAIN s
           /\ \A i \in DOMAIN Tail(s) : i + 1 \in DOMAIN s /\ Tail(s)[i] = s[i + 1]
  OBVIOUS

-----------------------------------------------------------------------------
(* The invariant at the start, and through steps of the command.           *)

Keepers == [step : Steps, seen : Seen]

LEMMA InitIsFine == Init => IInv
<1> SUFFICES ASSUME Init
             PROVE  IInv
  OBVIOUS
<1>1. /\ balance \in Nat /\ claimable = 0 /\ supply \in Nat /\ taxBurned \in Nat
      /\ migrated = FALSE
      /\ keeper = Idle /\ pool = <<>> /\ reported = "nothing" /\ moves = 0
  BY LaunchAssumption DEF Init
<1>2. Idle.step = "idle" /\ Idle.seen = Nothing
  BY DEF Idle
<1>3. keeper \in Keepers
  BY <1>1, NothingIsWorth DEF Keepers, Idle, Steps
<1>4. pool \in Seq(Transactions) /\ Len(pool) = 0 /\ DOMAIN pool = {}
  BY <1>1
<1> HIDE DEF Init
<1>5. /\ claimable \in 0..balance /\ migrated \in BOOLEAN
      /\ Len(pool) <= MaxPending /\ moves \in 0..MaxMoves
      /\ reported \in {"nothing", "migrated", "not migrated"}
  <2>1. claimable \in 0..balance
    <3>1. 0 \in 0..balance
      BY <1>1
    <3> QED
      BY <1>1, <3>1
  <2>2. Len(pool) <= MaxPending
    BY <1>4, BoundsAssumption
  <2>3. moves \in 0..MaxMoves
    <3>1. 0 \in 0..MaxMoves
      BY BoundsAssumption
    <3> QED
      BY <1>1, <3>1
  <2>4. migrated \in BOOLEAN /\ reported \in {"nothing", "migrated", "not migrated"}
    BY <1>1
  <2> QED
    BY <2>1, <2>2, <2>3, <2>4
<1>6. TypeOK
  BY <1>1, <1>3, <1>4, <1>5 DEF TypeOK, Keepers
<1>7. Worth(keeper.seen, balance, claimable, supply)
  BY <1>1, <1>2, NothingIsWorth
<1>8. SuccessMeansMigrated
  BY <1>1, <1>2 DEF SuccessMeansMigrated
<1>9. keeper.step # "ready"
  BY <1>1, <1>2
<1> QED
  BY <1>4, <1>6, <1>7, <1>8, <1>9 DEF IInv

(***************************************************************************)
(* A step that leaves launch and pool alone.                               *)
(***************************************************************************)
LEMMA CommandOnly ==
    ASSUME IInv, UNCHANGED <<launch, pool>>,
           keeper' \in Keepers,
           reported' \in {"nothing", "migrated"}, moves' \in 0..MaxMoves,
           ~migrated => Worth(keeper'.seen, balance, claimable, supply),
           keeper'.step = "ready" => keeper'.seen.fields = Fields,
           keeper'.step = "mined" => migrated
    PROVE  IInv'
<1>1. /\ balance' = balance /\ claimable' = claimable /\ supply' = supply
      /\ taxBurned' = taxBurned /\ migrated' = migrated /\ pool' = pool
  BY DEF launch
<1>2. TypeOK'
  BY <1>1 DEF IInv, TypeOK, Keepers
<1>3. \A j \in DOMAIN pool' :
        /\ Sent(pool[j])'
        /\ ~migrated' => /\ Worth(pool'[j].seen, balance', claimable', supply')
                         /\ tokenAmount' # 0
  BY <1>1 DEF IInv, Sent, tokenAmount
<1>4. SuccessMeansMigrated'
  BY <1>1 DEF SuccessMeansMigrated
<1>5. ~migrated' => Worth(keeper'.seen, balance', claimable', supply')
  BY <1>1
<1> QED
  BY <1>2, <1>3, <1>4, <1>5 DEF IInv

LEMMA ExitKeeps ==
    ASSUME IInv, UNCHANGED <<launch, pool, reported>>, keeper' = Idle,
           moves' \in 0..MaxMoves
    PROVE  IInv'
<1>1. keeper' \in Keepers /\ keeper'.step = "idle" /\ keeper'.seen = Nothing
  BY NothingIsWorth DEF Idle, Keepers, Steps
<1>2. reported' \in {"nothing", "migrated"}
  BY DEF IInv, TypeOK, SuccessMeansMigrated
<1> QED
  BY <1>1, <1>2, CommandOnly, NothingIsWorth

LEMMA StartKeeps == IInv /\ StartMigrate => IInv'
<1> SUFFICES ASSUME IInv, StartMigrate
             PROVE  IInv'
  OBVIOUS
<1>1. /\ keeper' = [keeper EXCEPT !.step = "read"]
      /\ UNCHANGED <<launch, pool, reported, moves>>
  BY DEF StartMigrate
<1>2. keeper \in Keepers
  BY DEF IInv, TypeOK, Keepers
<1>3. keeper' \in Keepers /\ keeper'.step = "read" /\ keeper'.seen = keeper.seen
  BY <1>1, <1>2 DEF Keepers, Steps
<1>4. reported' \in {"nothing", "migrated"} /\ moves' \in 0..MaxMoves
  BY <1>1 DEF IInv, TypeOK, SuccessMeansMigrated
<1>5. ~migrated => Worth(keeper'.seen, balance, claimable, supply)
  BY <1>3 DEF IInv
<1> QED
  BY <1>1, <1>3, <1>4, <1>5, CommandOnly

LEMMA ReadKeeps ==
    ASSUME NEW field \in Fields, IInv, Read(field)
    PROVE  IInv'
<1> DEFINE s == keeper.seen
           t == [s EXCEPT
                   !.fields    = s.fields \cup {field},
                   !.claimable = IF field = "claimable" THEN claimable ELSE @,
                   !.balance   = IF field = "balance" THEN balance ELSE @,
                   !.supply    = IF field = "supply" THEN supply ELSE @]
           st == IF s.fields \cup {field} = Fields THEN "ready" ELSE "read"
<1>1. /\ field \notin s.fields
      /\ keeper' = [step |-> st, seen |-> t]
      /\ UNCHANGED <<launch, pool, reported, moves>>
  <2>1. field \notin keeper.seen.fields /\ UNCHANGED <<launch, pool, reported, moves>>
    BY DEF Read
  <2>2. keeper' = [step |-> st, seen |-> t]
    BY Zenon DEF Read
  <2> QED
    BY <2>1, <2>2
<1> HIDE DEF t, st
<1>2. /\ s \in Seen /\ balance \in Nat /\ claimable \in Nat /\ supply \in Nat
  <2>1. TypeOK
    BY DEF IInv
  <2>2. keeper \in [step : Steps, seen : Seen] /\ claimable \in 0..balance
    BY <2>1 DEF TypeOK
  <2>3. keeper.seen \in Seen
    BY <2>2
  <2>4. balance \in Nat /\ supply \in Nat
    BY <2>1 DEF TypeOK
  <2> QED
    BY <2>2, <2>3, <2>4
<1>3. /\ t \in Seen
      /\ t.fields = s.fields \cup {field}
      /\ t.claimable = IF field = "claimable" THEN claimable ELSE s.claimable
      /\ t.balance = IF field = "balance" THEN balance ELSE s.balance
      /\ t.supply = IF field = "supply" THEN supply ELSE s.supply
      /\ t.claimed = s.claimed /\ t.donated = s.donated /\ t.sold = s.sold
  <2> HIDE DEF s
  <2> QED
    BY <1>2 DEF t, Seen
<1> HIDE DEF s
<1>4. ~migrated => Worth(t, balance, claimable, supply)
  <2> SUFFICES ASSUME ~migrated
               PROVE  Worth(t, balance, claimable, supply)
    OBVIOUS
  <2>1. Worth(s, balance, claimable, supply)
    BY DEF IInv, s
  <2> QED
    BY <1>1, <1>2, <1>3, <2>1, WorthOfAnswer
<1>5. /\ keeper' \in Keepers /\ keeper'.seen = t
      /\ keeper'.step = "ready" => t.fields = Fields
      /\ keeper'.step # "mined"
  BY <1>1, <1>3 DEF Keepers, Steps, st
<1>6. reported' \in {"nothing", "migrated"} /\ moves' \in 0..MaxMoves
  BY <1>1 DEF IInv, TypeOK, SuccessMeansMigrated
<1> QED
  BY <1>1, <1>4, <1>5, <1>6, CommandOnly

LEMMA PrintJsonKeeps == IInv /\ printJson => IInv'
<1> SUFFICES ASSUME IInv, printJson
             PROVE  IInv'
  OBVIOUS
<1>1. /\ keeper.step = "mined"
      /\ reported' = IF migrated THEN "migrated" ELSE "not migrated"
      /\ keeper' = Idle
      /\ UNCHANGED <<launch, pool, moves>>
  BY DEF printJson
<1>2. migrated
  BY <1>1 DEF IInv, SuccessMeansMigrated
<1>3. keeper' \in Keepers /\ keeper'.step = "idle" /\ keeper'.seen = Nothing
  BY <1>1, NothingIsWorth DEF Idle, Keepers, Steps
<1>4. moves' \in 0..MaxMoves
  BY <1>1 DEF IInv, TypeOK
<1> QED
  BY <1>1, <1>2, <1>3, <1>4, CommandOnly, NothingIsWorth

-----------------------------------------------------------------------------
(* The invariant through steps that touch the pool.                        *)

LEMMA ReadingsTyped ==
    ASSUME IInv
    PROVE  /\ keeper \in Keepers /\ keeper.seen \in Seen
           /\ balance \in Nat /\ claimable \in Nat /\ claimable <= balance
           /\ supply \in Nat /\ taxBurned \in Nat /\ migrated \in BOOLEAN
           /\ pool \in Seq(Transactions) /\ Len(pool) <= MaxPending
           /\ moves \in 0..MaxMoves
           /\ \A i \in DOMAIN pool : pool[i] \in Transactions /\ pool[i].seen \in Seen
<1>1. TypeOK
  BY DEF IInv
<1>2. keeper \in Keepers /\ claimable \in 0..balance /\ moves \in 0..MaxMoves
  BY <1>1 DEF TypeOK, Keepers
<1>3. keeper.seen \in Seen
  BY <1>2 DEF Keepers
<1>4. balance \in Nat /\ supply \in Nat /\ taxBurned \in Nat /\ migrated \in BOOLEAN
  BY <1>1 DEF TypeOK
<1>5. claimable \in Nat /\ claimable <= balance
  BY <1>2, <1>4
<1>6. pool \in Seq(Transactions) /\ Len(pool) <= MaxPending
  BY <1>1 DEF TypeOK
<1>7. \A i \in DOMAIN pool : pool[i] \in Transactions
  BY <1>6
<1>8. \A i \in DOMAIN pool : pool[i].seen \in Seen
  BY <1>7 DEF Transactions
<1> QED
  BY <1>2, <1>3, <1>4, <1>5, <1>6, <1>7, <1>8

(***************************************************************************)
(* What has to be shown of a step.                                         *)
(***************************************************************************)
LEMMA Assembled ==
    ASSUME balance' \in Nat, claimable' \in 0..balance', supply' \in Nat,
           taxBurned' \in Nat, migrated' \in BOOLEAN, keeper' \in Keepers,
           pool' \in Seq(Transactions), Len(pool') <= MaxPending,
           reported' \in {"nothing", "migrated"}, moves' \in 0..MaxMoves,
           ~migrated' => Worth(keeper'.seen, balance', claimable', supply'),
           \A j \in DOMAIN pool' :
              /\ Sent(pool[j])'
              /\ ~migrated' => /\ Worth(pool'[j].seen, balance', claimable', supply')
                               /\ tokenAmount' # 0,
           keeper'.step = "ready" => keeper'.seen.fields = Fields,
           keeper'.step = "mined" => migrated'
    PROVE  IInv'
<1>1. TypeOK'
  BY DEF TypeOK, Keepers
<1>2. SuccessMeansMigrated'
  BY DEF SuccessMeansMigrated
<1> QED
  BY <1>1, <1>2 DEF IInv

LEMMA SendKeeps == IInv /\ SendMigration => IInv'
<1> SUFFICES ASSUME IInv, SendMigration
             PROVE  IInv'
  OBVIOUS
<1> DEFINE d == MigrationDataOf(keeper.seen)
           tx == [data |-> d, seen |-> keeper.seen]
<1>1. /\ keeper.step = "ready" /\ Encodable(keeper.seen)
      /\ Accepted(tx) /\ Len(pool) < MaxPending /\ pool' = Append(pool, tx)
      /\ keeper' = [keeper EXCEPT !.step = "sent"]
      /\ UNCHANGED <<launch, reported, moves>>
  BY DEF SendMigration
<1>2. /\ balance' = balance /\ claimable' = claimable /\ supply' = supply
      /\ taxBurned' = taxBurned
      /\ migrated' = migrated /\ reported' = reported /\ moves' = moves
  BY <1>1 DEF launch
<1>3. /\ d.amount0Max = KeeperOkb(keeper.seen)
      /\ d.amount1Max = KeeperTokens(keeper.seen)
      /\ d = [amount0Max |-> KeeperOkb(keeper.seen), amount1Max |-> KeeperTokens(keeper.seen)]
  BY DEF MigrationDataOf
<1>4. KeeperOkb(keeper.seen) \in Nat /\ KeeperTokens(keeper.seen) \in Nat
  <2>1. /\ keeper.seen.balance \in Nat /\ keeper.seen.claimable \in Nat
        /\ keeper.seen.supply \in Nat
    BY ReadingsTyped DEF Seen
  <2> QED
    BY <1>1, <2>1, LaunchAssumption DEF Encodable, KeeperOkb, KeeperTokens
<1>5. d \in Data
  BY <1>3, <1>4 DEF Data
<1>6. d = MigrationDataOf(keeper.seen)
  OBVIOUS
<1>7. tx.data = d /\ tx.seen = keeper.seen
  OBVIOUS
<1>8. tx \in Transactions
  BY <1>5, ReadingsTyped DEF Transactions
<1> HIDE DEF d, tx
<1>9. d.amount0Max # 0 /\ d.amount1Max # 0 /\ tokenAmount # 0
  BY <1>1, <1>7 DEF Accepted, AcceptsAmounts
<1>10. keeper.seen.fields = Fields
  BY <1>1 DEF IInv
<1>11. Sent(tx)
  BY <1>6, <1>7, <1>9, <1>10 DEF Sent
<1>12. /\ pool' \in Seq(Transactions) /\ Len(pool') = Len(pool) + 1
       /\ \A j \in DOMAIN pool' : (j \in DOMAIN pool /\ pool'[j] = pool[j]) \/ pool'[j] = tx
  BY <1>1, <1>8, Appended, ReadingsTyped
<1>13. Len(pool') <= MaxPending
  BY <1>1, <1>12, ReadingsTyped, BoundsAssumption
<1>14. ~migrated => Worth(keeper.seen, balance, claimable, supply)
  BY DEF IInv
<1>15. ASSUME NEW j \in DOMAIN pool'
       PROVE  /\ Sent(pool'[j])
              /\ ~migrated => /\ Worth(pool'[j].seen, balance, claimable, supply)
                              /\ tokenAmount # 0
  <2>1. CASE j \in DOMAIN pool /\ pool'[j] = pool[j]
    BY <2>1 DEF IInv
  <2>2. CASE pool'[j] = tx
    BY <2>2, <1>7, <1>9, <1>11, <1>14
  <2> QED
    BY <2>1, <2>2, <1>12
<1>16. tokenAmount' = tokenAmount
  BY <1>2 DEF tokenAmount
<1>17. \A j \in DOMAIN pool' : Sent(pool[j])'
  BY <1>15 DEF Sent
<1>18. /\ keeper' \in Keepers /\ keeper'.seen = keeper.seen /\ keeper'.step = "sent"
  BY <1>1, ReadingsTyped DEF Keepers, Steps
<1>19. reported' \in {"nothing", "migrated"}
  BY <1>2 DEF IInv, TypeOK, SuccessMeansMigrated
<1>20. \A j \in DOMAIN pool' :
          /\ Sent(pool[j])'
          /\ ~migrated' => /\ Worth(pool'[j].seen, balance', claimable', supply')
                           /\ tokenAmount' # 0
  BY <1>2, <1>15, <1>16, <1>17
<1>21. ~migrated' => Worth(keeper'.seen, balance', claimable', supply')
  BY <1>2, <1>14, <1>18
<1>22. claimable' \in 0..balance' /\ moves' \in 0..MaxMoves
  BY <1>2, ReadingsTyped
<1> QED
  BY <1>2, <1>12, <1>13, <1>18, <1>19, <1>20, <1>21, <1>22, Assembled, ReadingsTyped

LEMMA MineKeeps ==
    ASSUME NEW settled \in BOOLEAN, IInv, Mine(settled)
    PROVE  IInv'
<1> DEFINE ok == Accepted(pool[1]) /\ settled
           own == Len(pool) = 1 /\ keeper.step = "sent"
<1>1. /\ pool # <<>> /\ pool' = Tail(pool)
      /\ UNCHANGED <<claimable, taxBurned, reported, moves>>
  BY DEF Mine
<1>2. IF ok THEN migrated' = TRUE /\ balance' = claimable /\ supply' = supply + tokenAmount
            ELSE UNCHANGED <<migrated, balance, supply>>
  BY DEF Mine
<1>3. keeper' = IF ~own THEN keeper
                ELSE IF ok THEN [keeper EXCEPT !.step = "mined"] ELSE Idle
  BY DEF Mine, waitForSuccessfulTransactionReceipt, Exit
<1> HIDE DEF ok, own
<1>4. /\ pool' \in Seq(Transactions) /\ Len(pool') <= Len(pool)
      /\ \A j \in DOMAIN pool' : j + 1 \in DOMAIN pool /\ pool'[j] = pool[j + 1]
  BY <1>1, Shortened, ReadingsTyped
<1>5. Len(pool') <= MaxPending
  BY <1>4, ReadingsTyped, BoundsAssumption
<1>6. \A j \in DOMAIN pool' :
        /\ Sent(pool'[j])
        /\ ~migrated => /\ Worth(pool'[j].seen, balance, claimable, supply)
                        /\ tokenAmount # 0
  BY <1>4 DEF IInv
<1>7. \A j \in DOMAIN pool' : Sent(pool[j])'
  BY <1>6 DEF Sent
<1>8. /\ keeper' \in Keepers
      /\ keeper'.step = "ready" => keeper'.seen.fields = Fields
      /\ keeper'.step = "mined" => ok \/ migrated
      /\ keeper'.seen = keeper.seen \/ keeper'.seen = Nothing
  <2>1. CASE ~own
    BY <1>3, <2>1, ReadingsTyped DEF IInv, SuccessMeansMigrated
  <2>2. CASE own /\ ok
    BY <1>3, <2>2, ReadingsTyped DEF Keepers, Steps
  <2>3. CASE own /\ ~ok
    BY <1>3, <2>3, NothingIsWorth DEF Keepers, Steps, Idle
  <2> QED
    BY <2>1, <2>2, <2>3
<1>9. reported' \in {"nothing", "migrated"}
  BY <1>1 DEF IInv, TypeOK, SuccessMeansMigrated
<1>10. moves' \in 0..MaxMoves
  BY <1>1, ReadingsTyped
<1>11. CASE ok
  <2>1. migrated' = TRUE /\ balance' = claimable /\ supply' = supply + tokenAmount
    BY <1>2, <1>11
  <2>2. tokenAmount \in Nat
    BY ReadingsTyped, LaunchAssumption DEF tokenAmount
  <2>3. /\ balance' \in Nat /\ claimable' \in 0..balance' /\ supply' \in Nat
        /\ taxBurned' \in Nat
    BY <1>1, <2>1, <2>2, ReadingsTyped
  <2> QED
    BY <1>4, <1>5, <1>7, <1>8, <1>9, <1>10, <2>1, <2>3, Assembled
<1>12. CASE ~ok
  <2>1. /\ migrated' = migrated /\ balance' = balance /\ supply' = supply
        /\ claimable' = claimable /\ taxBurned' = taxBurned
    BY <1>1, <1>2, <1>12
  <2>2. tokenAmount' = tokenAmount
    BY <2>1 DEF tokenAmount
  <2>3. \A j \in DOMAIN pool' :
          /\ Sent(pool[j])'
          /\ ~migrated' => /\ Worth(pool'[j].seen, balance', claimable', supply')
                           /\ tokenAmount' # 0
    BY <1>6, <1>7, <2>1, <2>2
  <2>4. ~migrated => Worth(keeper.seen, balance, claimable, supply)
    BY DEF IInv
  <2>5. ~migrated' => Worth(keeper'.seen, balance', claimable', supply')
    BY <1>8, <2>1, <2>4, NothingIsWorth
  <2>6. claimable' \in 0..balance'
    BY <2>1, ReadingsTyped
  <2> QED
    BY <1>4, <1>5, <1>8, <1>9, <1>10, <1>12, <2>1, <2>3, <2>5, <2>6, Assembled, ReadingsTyped
<1> QED
  BY <1>11, <1>12

-----------------------------------------------------------------------------
(* The invariant through steps of others.                                  *)

(***************************************************************************)
(* A later reading t of what s had read: the same values, and worth as     *)
(* much by now.                                                            *)
(***************************************************************************)
Later(s, t) ==
    /\ t \in Seen
    /\ t.fields = s.fields /\ t.claimable = s.claimable
    /\ t.balance = s.balance /\ t.supply = s.supply
    /\ ~migrated /\ Worth(s, balance, claimable, supply)
          => Worth(t, balance', claimable', supply')

LEMMA OthersKeep ==
    ASSUME IInv, balance' \in Nat, claimable' \in Nat, claimable' <= balance',
           supply' \in Nat, taxBurned' \in Nat, supply' + taxBurned' <= supply + taxBurned,
           UNCHANGED <<migrated, reported>>, moves < MaxMoves, moves' = moves + 1,
           keeper'.step = keeper.step, keeper' = [step |-> keeper'.step, seen |-> keeper'.seen],
           Later(keeper.seen, keeper'.seen),
           DOMAIN pool' = DOMAIN pool, pool' = [i \in DOMAIN pool' |-> pool'[i]],
           \A i \in DOMAIN pool :
              /\ pool'[i] = [data |-> pool[i].data, seen |-> pool'[i].seen]
              /\ Later(pool[i].seen, pool'[i].seen)
    PROVE  IInv'
<1>1. \A i \in DOMAIN pool : pool'[i] \in Transactions
  <2> SUFFICES ASSUME NEW i \in DOMAIN pool
               PROVE  pool'[i] \in Transactions
    OBVIOUS
  <2>1. pool[i].data \in Data
    BY ReadingsTyped DEF Transactions
  <2>2. pool'[i].seen \in Seen
    BY DEF Later
  <2> QED
    BY <2>1, <2>2 DEF Transactions
<1>2. pool' \in Seq(Transactions) /\ Len(pool') = Len(pool)
  BY <1>1, Mapped, ReadingsTyped
<1>3. Len(pool') <= MaxPending
  BY <1>2, ReadingsTyped
<1>4. keeper' \in Keepers
  <2>1. keeper'.seen \in Seen /\ keeper'.step \in Steps
    BY ReadingsTyped DEF Later, Keepers
  <2> QED
    BY <2>1 DEF Keepers
<1>5. moves' \in 0..MaxMoves
  BY ReadingsTyped, BoundsAssumption
<1>6. reported' \in {"nothing", "migrated"}
  BY DEF IInv, TypeOK, SuccessMeansMigrated
<1>7. ASSUME NEW j \in DOMAIN pool'
      PROVE  /\ Sent(pool[j])'
             /\ ~migrated' => /\ Worth(pool'[j].seen, balance', claimable', supply')
                              /\ tokenAmount' # 0
  <2>1. /\ Sent(pool[j])
        /\ ~migrated => /\ Worth(pool[j].seen, balance, claimable, supply)
                        /\ tokenAmount # 0
    BY DEF IInv
  <2>2. pool'[j].data = pool[j].data /\ Later(pool[j].seen, pool'[j].seen)
    OBVIOUS
  <2>3. MigrationDataOf(pool'[j].seen) = MigrationDataOf(pool[j].seen)
    BY <2>2 DEF Later, MigrationDataOf, KeeperOkb, KeeperTokens
  <2>4. Sent(pool'[j])
    BY <2>1, <2>2, <2>3 DEF Sent, Later
  <2>5. Sent(pool[j])'
    BY <2>4 DEF Sent
  <2>6. ~migrated => Worth(pool'[j].seen, balance', claimable', supply')
    BY <2>1, <2>2 DEF Later
  <2>7. tokenAmount # 0 => tokenAmount' # 0
    <3>1. K - taxBurned > supply => K - taxBurned' > supply'
      BY ReadingsTyped, LaunchAssumption
    <3>2. tokenAmount # 0 => K - taxBurned > supply
      BY DEF tokenAmount
    <3>3. K - taxBurned' > supply' => tokenAmount' # 0
      BY LaunchAssumption DEF tokenAmount
    <3> QED
      BY <3>1, <3>2, <3>3
  <2> QED
    BY <2>1, <2>5, <2>6, <2>7
<1>8. ~migrated' => Worth(keeper'.seen, balance', claimable', supply')
  BY DEF IInv, Later
<1>9. keeper'.step = "ready" => keeper'.seen.fields = Fields
  BY DEF IInv, Later
<1>10. keeper'.step = "mined" => migrated'
  BY DEF IInv, SuccessMeansMigrated
<1>11. claimable' \in 0..balance' /\ migrated' \in BOOLEAN
  BY ReadingsTyped
<1> QED
  BY <1>2, <1>3, <1>4, <1>5, <1>6, <1>7, <1>8, <1>9, <1>10, <1>11, Assembled

LEMMA NotedIsLater ==
    ASSUME NEW s \in Seen, balance \in Nat, claimable \in Nat, supply \in Nat,
           balance' \in Nat, claimable' \in Nat, supply' \in Nat, supply' <= supply,
           balance' <= balance \/ balance' - claimable' > balance - claimable
    PROVE  Later(s, Note(s))
<1> DEFINE t == Note(s)
<1>1. /\ t \in Seen
      /\ t.fields = s.fields /\ t.claimable = s.claimable
      /\ t.balance = s.balance /\ t.supply = s.supply
  BY NoteFields
<1>2. /\ s.claimed => t.claimed
      /\ s.donated => t.donated
      /\ claimable' < claimable /\ "claimable" \in s.fields /\ "balance" \notin s.fields
            => t.claimed
      /\ balance' - claimable' > balance - claimable /\ "balance" \in s.fields => t.donated
      /\ t.sold = s.sold + IF supply' < supply /\ "supply" \in s.fields
                           THEN supply - supply' ELSE 0
  BY NoteFields
<1> HIDE DEF t
<1>3. ASSUME Worth(s, balance, claimable, supply)
      PROVE  Worth(t, balance', claimable', supply')
  BY <1>1, <1>2, <1>3, WorthLasts
<1>4. Later(s, t)
  BY <1>1, <1>3 DEF Later
<1> QED
  BY <1>4 DEF t

LEMMA ElsewhereKeeps ==
    ASSUME IInv, Elsewhere, balance' \in Nat, claimable' \in Nat, claimable' <= balance',
           supply' \in Nat, supply' <= supply,
           taxBurned' \in Nat, supply' + taxBurned' <= supply + taxBurned,
           balance' <= balance \/ balance' - claimable' > balance - claimable
    PROVE  IInv'
<1>1. /\ moves < MaxMoves /\ moves' = moves + 1
      /\ keeper' = [keeper EXCEPT !.seen = Note(keeper.seen)]
      /\ pool' = [i \in DOMAIN pool |-> [pool[i] EXCEPT !.seen = Note(pool[i].seen)]]
      /\ UNCHANGED <<migrated, reported>>
  BY DEF Elsewhere
<1>2. /\ keeper'.step = keeper.step /\ keeper'.seen = Note(keeper.seen)
      /\ keeper' = [step |-> keeper'.step, seen |-> keeper'.seen]
  BY <1>1, ReadingsTyped DEF Keepers
<1>3. DOMAIN pool' = DOMAIN pool /\ pool' = [i \in DOMAIN pool' |-> pool'[i]]
  BY <1>1
<1>4. ASSUME NEW i \in DOMAIN pool
      PROVE  /\ pool'[i] = [data |-> pool[i].data, seen |-> pool'[i].seen]
             /\ pool'[i].seen = Note(pool[i].seen)
  BY <1>1, ReadingsTyped DEF Transactions
<1>5. Later(keeper.seen, keeper'.seen)
  BY <1>2, NotedIsLater, ReadingsTyped
<1>6. ASSUME NEW i \in DOMAIN pool
      PROVE  Later(pool[i].seen, pool'[i].seen)
  BY <1>4, NotedIsLater, ReadingsTyped
<1> QED
  BY <1>1, <1>2, <1>3, <1>4, <1>5, <1>6, OthersKeep

LEMMA SellKeeps ==
    ASSUME NEW tokens \in Amounts, NEW tax \in Amounts \cup {0},
           NEW gross \in Amounts \cup {0}, NEW fee \in Amounts \cup {0},
           IInv, Sell(tokens, tax, gross, fee)
    PROVE  IInv'
<1>1. tokens \in Nat /\ tax \in Nat /\ gross \in Nat /\ fee \in Nat
  BY LaunchAssumption
<1>2. /\ tokens <= supply /\ tax <= tokens /\ gross <= balance - claimable /\ fee <= gross
      /\ supply' = supply - tokens /\ taxBurned' = taxBurned + tax
      /\ balance' = balance - (gross - fee)
      /\ claimable' = claimable + fee /\ Elsewhere
  BY DEF Sell, ReserveSuffices
<1>3. Elsewhere
  BY <1>2
<1>4. /\ supply' = supply - tokens /\ taxBurned' = taxBurned + tax /\ tax <= tokens
      /\ supply \in Nat /\ taxBurned \in Nat /\ tokens <= supply
  BY <1>2, ReadingsTyped
<1>5. /\ supply' \in Nat /\ supply' <= supply
      /\ taxBurned' \in Nat /\ supply' + taxBurned' <= supply + taxBurned
  BY <1>1, <1>4
<1>6. /\ balance' = balance - (gross - fee) /\ claimable' = claimable + fee
      /\ gross <= balance - claimable /\ fee <= gross
      /\ balance \in Nat /\ claimable \in Nat /\ claimable <= balance
  BY <1>2, ReadingsTyped
<1>7. /\ balance' \in Nat /\ claimable' \in Nat
      /\ claimable' <= balance' /\ balance' <= balance
  BY <1>1, <1>6
<1> QED
  BY <1>3, <1>5, <1>7, ElsewhereKeeps

LEMMA ClaimKeeps == IInv /\ ClaimFees => IInv'
<1> SUFFICES ASSUME IInv, ClaimFees
             PROVE  IInv'
  OBVIOUS
<1>1. /\ balance' = balance - claimable /\ claimable' = 0
      /\ supply' = supply /\ taxBurned' = taxBurned /\ Elsewhere
  BY DEF ClaimFees
<1>2. /\ balance' \in Nat /\ claimable' \in Nat /\ claimable' <= balance'
      /\ supply' \in Nat /\ supply' <= supply /\ balance' <= balance
      /\ taxBurned' \in Nat /\ supply' + taxBurned' <= supply + taxBurned
  BY <1>1, ReadingsTyped
<1> QED
  BY <1>1, <1>2, ElsewhereKeeps

LEMMA DonateKeeps ==
    ASSUME NEW amount \in Amounts, IInv, Donate(amount)
    PROVE  IInv'
<1>1. amount \in Nat \ {0}
  BY LaunchAssumption
<1>2. /\ balance' = balance + amount /\ claimable' = claimable
      /\ supply' = supply /\ taxBurned' = taxBurned /\ Elsewhere
  BY DEF Donate
<1>3. /\ balance' \in Nat /\ claimable' \in Nat /\ claimable' <= balance'
      /\ supply' \in Nat /\ supply' <= supply /\ balance' - claimable' > balance - claimable
      /\ taxBurned' \in Nat /\ supply' + taxBurned' <= supply + taxBurned
  BY <1>1, <1>2, ReadingsTyped
<1> QED
  BY <1>2, <1>3, ElsewhereKeeps

LEMMA SoonerIsLater ==
    ASSUME NEW s \in Seen, balance' = balance, claimable' = claimable, supply' = supply
    PROVE  Later(s, Sooner(s))
<1> DEFINE l == IF "block" \in s.fields /\ s.left >= 0 THEN s.left - 1 ELSE s.left
           t == Sooner(s)
<1>1. t = [s EXCEPT !.left = l]
  BY DEF Sooner
<1>2. l \in Int
  BY DEF Seen
<1> HIDE DEF l, t
<1>3. /\ t \in Seen
      /\ t.fields = s.fields /\ t.claimable = s.claimable
      /\ t.balance = s.balance /\ t.supply = s.supply
      /\ t.claimed = s.claimed /\ t.donated = s.donated /\ t.sold = s.sold
  BY <1>1, <1>2 DEF Seen
<1>4. ASSUME Worth(s, balance, claimable, supply)
      PROVE  Worth(t, balance', claimable', supply')
  <2>1. BalanceBound(t, balance) /\ SupplyBound(t, supply)
    BY <1>3, <1>4 DEF Worth, BalanceBound, SupplyBound
  <2>2. FeesBound(t, claimable) /\ ReserveBound(t, balance, claimable)
    BY <1>3, <1>4 DEF Worth, FeesBound, ReserveBound
  <2> QED
    BY <2>1, <2>2 DEF Worth
<1>5. Later(s, t)
  BY <1>3, <1>4 DEF Later
<1> QED
  BY <1>5 DEF t

LEMMA TickKeeps == IInv /\ Tick => IInv'
<1> SUFFICES ASSUME IInv, Tick
             PROVE  IInv'
  OBVIOUS
<1>1. /\ moves < MaxMoves /\ moves' = moves + 1
      /\ keeper' = [keeper EXCEPT !.seen = Sooner(keeper.seen)]
      /\ pool' = [i \in DOMAIN pool |-> [pool[i] EXCEPT !.seen = Sooner(pool[i].seen)]]
      /\ balance' = balance /\ claimable' = claimable /\ supply' = supply
      /\ taxBurned' = taxBurned
      /\ UNCHANGED <<migrated, reported>>
  BY DEF Tick, launch
<1>2. /\ keeper'.step = keeper.step /\ keeper'.seen = Sooner(keeper.seen)
      /\ keeper' = [step |-> keeper'.step, seen |-> keeper'.seen]
  BY <1>1, ReadingsTyped DEF Keepers
<1>3. DOMAIN pool' = DOMAIN pool /\ pool' = [i \in DOMAIN pool' |-> pool'[i]]
  BY <1>1
<1>4. ASSUME NEW i \in DOMAIN pool
      PROVE  /\ pool'[i] = [data |-> pool[i].data, seen |-> pool'[i].seen]
             /\ pool'[i].seen = Sooner(pool[i].seen)
  BY <1>1, ReadingsTyped DEF Transactions
<1>5. Later(keeper.seen, keeper'.seen)
  BY <1>1, <1>2, SoonerIsLater, ReadingsTyped
<1>6. ASSUME NEW i \in DOMAIN pool
      PROVE  Later(pool[i].seen, pool'[i].seen)
  BY <1>1, <1>4, SoonerIsLater, ReadingsTyped
<1>7. /\ balance' \in Nat /\ claimable' \in Nat /\ claimable' <= balance'
      /\ supply' \in Nat /\ taxBurned' \in Nat
      /\ supply' + taxBurned' <= supply + taxBurned
  BY <1>1, ReadingsTyped
<1> QED
  BY <1>1, <1>2, <1>3, <1>4, <1>5, <1>6, <1>7, OthersKeep

-----------------------------------------------------------------------------
LEMMA NextKeeps == IInv /\ [Next]_vars => IInv'
<1> SUFFICES ASSUME IInv, [Next]_vars
             PROVE  IInv'
  OBVIOUS
<1>1. CASE StartMigrate
  BY <1>1, StartKeeps
<1>2. CASE \E field \in Fields : Read(field)
  BY <1>2, ReadKeeps
<1>3. CASE SendMigration
  BY <1>3, SendKeeps
<1>4. CASE Refused \/ TimeOut
  <2>1. keeper' = Idle /\ UNCHANGED <<launch, pool, reported, moves>>
    BY <1>4 DEF Refused, TimeOut, Exit
  <2> QED
    BY <2>1, ExitKeeps, ReadingsTyped
<1>5. CASE printJson
  BY <1>5, PrintJsonKeeps
<1>6. CASE \E settled \in BOOLEAN : Mine(settled)
  BY <1>6, MineKeeps
<1>7. CASE \E tokens \in Amounts, tax, gross, fee \in Amounts \cup {0} :
             Sell(tokens, tax, gross, fee)
  BY <1>7, SellKeeps
<1>8. CASE ClaimFees
  BY <1>8, ClaimKeeps
<1>9. CASE \E amount \in Amounts : Donate(amount)
  BY <1>9, DonateKeeps
<1>10. CASE Tick
  BY <1>10, TickKeeps
<1>11. CASE Interrupt
  <2>1. /\ keeper' = Idle /\ UNCHANGED <<launch, pool, reported>>
        /\ moves < MaxMoves /\ moves' = moves + 1
    BY <1>11 DEF Interrupt, Exit
  <2>2. moves' \in 0..MaxMoves
    BY <2>1, ReadingsTyped, BoundsAssumption
  <2> QED
    BY <2>1, <2>2, ExitKeeps
<1>12. CASE UNCHANGED vars
  <2>1. UNCHANGED <<launch, pool, reported, keeper, moves>>
    BY <1>12 DEF vars
  <2>2. keeper.step = "mined" => migrated
    BY DEF IInv, SuccessMeansMigrated
  <2>3. reported' \in {"nothing", "migrated"}
    BY <2>1 DEF IInv, TypeOK, SuccessMeansMigrated
  <2>4. /\ ~migrated => Worth(keeper'.seen, balance, claimable, supply)
        /\ keeper'.step = "ready" => keeper'.seen.fields = Fields
    BY <2>1 DEF IInv
  <2> QED
    BY <2>1, <2>2, <2>3, <2>4, CommandOnly, ReadingsTyped
<1> QED
  BY <1>1, <1>2, <1>3, <1>4, <1>5, <1>6, <1>7, <1>8, <1>9, <1>10, <1>11, <1>12
  DEF Next, Command, Others

(***************************************************************************)
(* What is known of the launch from a reading stays true until the         *)
(* migration, whatever others do in between.                               *)
(***************************************************************************)
THEOREM InvariantHolds == Spec => []IInv
<1> QED
  BY InitIsFine, NextKeeps, PTL DEF Spec

(***************************************************************************)
(* Every variable stays in its type, in particular the fees that are       *)
(* claimable are in the hook and a transaction's maxima can be encoded.    *)
(***************************************************************************)
THEOREM TypeCorrect == Spec => []TypeOK
<1>1. IInv => TypeOK
  BY DEF IInv
<1> QED
  BY <1>1, InvariantHolds, PTL

(***************************************************************************)
(* Claims and sells that come after the keeper's readings do not make its  *)
(* migration fail, as long as no more is sold than the tax it leaves out:  *)
(* only what Overtaken lists does.                                         *)
(***************************************************************************)
THEOREM OnlyOvertakenIsRefused == Spec => []RefusedOnlyIfOvertaken
<1>1. IInv => RefusedOnlyIfOvertaken
  <2> SUFFICES ASSUME IInv, NEW i \in DOMAIN pool, ~Overtaken(pool[i])
               PROVE  Accepted(pool[i])
    BY DEF RefusedOnlyIfOvertaken
  <2> DEFINE s == pool[i].seen
             d == pool[i].data
  <2>1. /\ ~migrated /\ ~(s.left < 0) /\ ~s.donated /\ ~s.claimed
        /\ ~(s.sold > taxBurned) /\ okbAmount # 0
    BY DEF Overtaken
  <2>2. /\ s.fields = Fields /\ d.amount0Max # 0 /\ d.amount1Max # 0
        /\ d.amount0Max = KeeperOkb(s) /\ d.amount1Max = KeeperTokens(s)
        /\ Worth(s, balance, claimable, supply) /\ tokenAmount # 0
    <3>1. Sent(pool[i]) /\ Worth(s, balance, claimable, supply) /\ tokenAmount # 0
      BY <2>1 DEF IInv
    <3>2. d = [amount0Max |-> KeeperOkb(s), amount1Max |-> KeeperTokens(s)]
      BY <3>1 DEF Sent, MigrationDataOf
    <3>3. s.fields = Fields /\ d.amount0Max # 0 /\ d.amount1Max # 0
      BY <3>1 DEF Sent
    <3> QED
      BY <3>1, <3>2, <3>3
  <2>3. s \in Seen
    BY ReadingsTyped
  <2> HIDE DEF s, d
  <2>4. /\ s.left \in Int /\ s.balance \in Nat /\ s.claimable \in Nat
        /\ s.supply \in Nat /\ s.sold \in Nat
    BY <2>3 DEF Seen
  <2>5. okbAmount <= d.amount0Max
    <3>1. balance - claimable <= s.balance - s.claimable
      BY <2>1, <2>2 DEF Worth, ReserveBound, Fields
    <3> QED
      BY <2>2, <3>1 DEF okbAmount, KeeperOkb
  <2>6. tokenAmount <= d.amount1Max
    <3>1. s.supply <= supply + s.sold
      BY <2>2 DEF Worth, SupplyBound, Fields
    <3> QED
      BY <2>1, <2>2, <2>4, <3>1, ReadingsTyped, LaunchAssumption DEF tokenAmount, KeeperTokens
  <2>7. s.left >= 0
    BY <2>1, <2>4
  <2> QED
    BY <2>1, <2>2, <2>5, <2>6, <2>7 DEF Accepted, AcceptsAmounts, s, d
<1> QED
  BY <1>1, InvariantHolds, PTL

(***************************************************************************)
(* A command that ends well has migrated.                                  *)
(***************************************************************************)
THEOREM SuccessIsReal == Spec => []SuccessMeansMigrated
<1>1. IInv => SuccessMeansMigrated
  BY DEF IInv
<1> QED
  BY <1>1, InvariantHolds, PTL

=============================================================================
