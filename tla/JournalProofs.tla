---------------------------- MODULE JournalProofs ----------------------------
(***************************************************************************)
(* What the history promises to its users, proved: it refines Journal, and *)
(* a command that reports success did what it was asked to do.             *)
(***************************************************************************)
EXTENDS HistoryProofs

USE DEF RpmDbOK, HistoryDbOK, CommandOK, TypeOK
-----------------------------------------------------------------------------
(***************************************************************************)
(* The flags.  A row belongs to a transaction that exists, and only the    *)
(* last one gets new rows.                                                 *)
(***************************************************************************)
Owned(fl, tr) == \A i \in DOMAIN fl : 0 < fl[i].trans /\ fl[i].trans <= Len(tr)

FlagInv ==
  /\ Owned(flags, trans)
  /\ disk.open => Owned(disk.flags, disk.trans)
  /\ pc = "mark" => ctx.trans = Last

RefineInv == JournalInv /\ FlagInv

(* What a step does to the database: nothing, or a COMMIT, or one row of   *)
(* flag_set for the last transaction, or what closing it does.             *)
KeepsDb == UNCHANGED <<trans, flags, disk>>
AddsTrans ==
  \E x \in Transaction :
    /\ trans' = Append(trans, x) /\ flags' = flags
    /\ disk' = disk \/ (~disk.open /\ disk' = Txn)
AddsFlag ==
  \E n \in Names, v \in Value :
    /\ trans # <<>> /\ trans' = trans /\ disk' = disk
    /\ flags' = Append(flags, [trans |-> Last, name |-> n, value |-> v])
DbMoves == KeepsDb \/ AddsTrans \/ AddsFlag \/ Close

LEMMA CloseMoves == Quit => DbMoves
  BY DEF Quit, DbMoves

LEMMA MovesSync ==
  ASSUME RefineInv, "full" \notin Failures, Sync
  PROVE  DbMoves
<1> USE DEF rpmdb, flagdb, db, locals, DbMoves, KeepsDb
<1>0. TypeOK
  BY DEF RefineInv, JournalInv
<1>1. CASE Open \/ Update \/ Count \/ Fill \/ FillAborts \/ RollBack
  BY <1>1 DEF Open, Update, Count, Fill, FillAborts, RollBack
<1>2. CASE Record
  <2>1. Baseline \in Transaction
    BY <1>0 DEF Baseline, Transaction, Context
  <2>2. AddsTrans
    BY <1>2, <2>1 DEF Record, Commits, AddsTrans
  <2>3. QED
    BY <2>2
<1>3. CASE AddDelta
  <2>1. DeltaFor(scan.cookie, ctx.installed, scan.ids) \in Transaction
    BY <1>0 DEF DeltaFor, Diff, Transaction, Context, Scan
  <2>2. AddsTrans
    BY <1>3, <2>1 DEF AddDelta, Commits, AddsTrans
  <2>3. QED
    BY <2>2
<1>4. QED
  BY <1>1, <1>2, <1>3 DEF Sync

(* db_set_auto_flag writes one row for the transaction of the context.     *)
LEMMA MovesFlag ==
  ASSUME RefineInv, NEW n \in Names, NEW v \in Value, ctx.trans = Last, ctx.trans # 0,
         flags' = Append(flags, NewFlag(n, v)), UNCHANGED <<trans, disk>>
  PROVE  DbMoves
<1>1. trans # <<>>
  BY EmptySeq DEF Last
<1>2. QED
  BY <1>1 DEF DbMoves, AddsFlag, NewFlag

LEMMA MovesExecute ==
  ASSUME RefineInv, Execute
  PROVE  DbMoves
<1> USE DEF rpmdb, flagdb, db, locals
<1>0. TypeOK
  BY DEF RefineInv, JournalInv
<1>1. CASE Run \/ RunRefused \/ MarkEnds \/ RestoreEnds
  BY <1>1 DEF Run, RunRefused, MarkEnds, RestoreEnds, DbMoves, KeepsDb
<1>2. CASE MarkOpens
  <2>1. CASE trans' = trans
    BY <1>2, <2>1 DEF MarkOpens, DbMoves, KeepsDb
  <2>2. CASE trans' # trans
    <3>1. /\ trans # <<>>
          /\ trans' = Append(trans, [EmptyTransaction EXCEPT !.cookie = trans[Last].cookie])
      BY <1>2, <2>2 DEF MarkOpens
    <3>2. [EmptyTransaction EXCEPT !.cookie = trans[Last].cookie] \in Transaction
      BY <1>0, <3>1, LastType DEF EmptyTransaction, Transaction
    <3>3. flags' = flags /\ disk' = disk
      BY <1>2 DEF MarkOpens
    <3>4. QED
      BY <3>1, <3>2, <3>3 DEF DbMoves, AddsTrans
  <2>3. QED
    BY <2>1, <2>2
<1>3. CASE Flags
  <2>1. CASE trans' = trans
    BY <1>3, <2>1 DEF Flags, DbMoves, KeepsDb
  <2>2. CASE trans' # trans
    <3>1. trans' = Append(trans, EmptyTransaction) /\ flags' = flags /\ disk' = disk
      BY <1>3, <2>2 DEF Flags
    <3>2. EmptyTransaction \in Transaction
      BY <1>0 DEF EmptyTransaction, Transaction, Context
    <3>3. QED
      BY <3>1, <3>2 DEF DbMoves, AddsTrans
  <2>3. QED
    BY <2>1, <2>2
<1>4. ASSUME NEW n \in Names, Mark(n) PROVE DbMoves
  <2>1. UNCHANGED <<trans, disk>> /\ pc = "mark"
    BY <1>4 DEF Mark
  <2>2. CASE flags' = flags
    BY <2>1, <2>2 DEF DbMoves, KeepsDb
  <2>3. CASE flags' # flags
    <3>1. ctx.trans # 0 /\ flags' = Append(flags, NewFlag(n, ValueFor(n)))
      BY <1>4, <2>3 DEF Mark, SetAutoFlag
    <3>2. ctx.trans = Last
      BY <2>1 DEF RefineInv, FlagInv
    <3>3. QED
      BY <1>0, <2>1, <3>1, <3>2, ValueForType, MovesFlag
  <2>4. QED
    BY <2>2, <2>3
<1>5. CASE Restore
  <2>1. UNCHANGED <<trans, disk>> /\ pc = "restore"
    BY <1>5 DEF Restore
  <2>2. CASE flags' = flags
    BY <2>1, <2>2 DEF DbMoves, KeepsDb
  <2>3. CASE flags' # flags
    <3>1. names[idx] \in Names
      BY <1>0, <1>5, ElementOfSeq DEF Restore
    <3>2. flags' = Append(flags, NewFlag(names[idx], FlagAt(flags, RangeTo, names[idx])))
      BY <1>5, <2>3 DEF Restore
    <3>3. FlagAt(flags, RangeTo, names[idx]) \in Value
      BY DEF FlagAt, Value
    <3>4. ctx.trans = Last /\ ctx.trans # 0
      BY <1>0, <2>1, LastType DEF RefineInv, JournalInv, ScanInv, Synced
    <3>5. QED
      BY <2>1, <3>1, <3>2, <3>3, <3>4, MovesFlag
  <2>4. QED
    BY <2>2, <2>3
<1>6. QED
  BY <1>1, <1>2, <1>3, <1>4, <1>5 DEF Execute

LEMMA MovesFailure ==
  ASSUME Failure
  PROVE  DbMoves
<1>1. CASE Crash
  BY <1>1, CloseMoves DEF Crash
<1>2. CASE FillFails \/ RunFails \/ FlagsFail \/ RestoreFails
  BY <1>2 DEF FillFails, RunFails, FlagsFail, RestoreFails, DbMoves, KeepsDb, flagdb, db
<1>3. ASSUME NEW n \in Names, MarkFails(n) PROVE DbMoves
  <2>1. PICK j \in 0..3 : SetAutoFlag(n, ValueFor(n), j)
    BY <1>3 DEF MarkFails
  <2>2. flags' = flags
    BY <2>1 DEF SetAutoFlag
  <2>3. QED
    BY <1>3, <2>2 DEF MarkFails, DbMoves, KeepsDb
<1>4. QED
  BY <1>1, <1>2, <1>3 DEF Failure

LEMMA Moves ==
  ASSUME RefineInv, "full" \notin Failures, [Next]_vars
  PROVE  DbMoves
<1>1. CASE User
  BY <1>1 DEF User, BeginAlter, BeginSingle, BeginMark, BeginInit, BeginHistory, Begin, db, DbMoves,
              KeepsDb
<1>2. CASE Resolve
  BY <1>2 DEF Resolve, PlanFails, PlanUnresolved, PlanCrashes, PlanEmpty, PlanDeclined, Plan, db,
              DbMoves, KeepsDb
<1>3. CASE External \/ UNCHANGED vars
  BY <1>3 DEF External, vars, db, DbMoves, KeepsDb
<1>4. CASE Return
  BY <1>4, CloseMoves DEF Return
<1>5. QED
  BY <1>1, <1>2, <1>3, <1>4, MovesSync, MovesExecute, MovesFailure DEF Next, Client

(* The rows stay with their transactions, and a command that marks works   *)
(* on the last transaction.                                                *)
LEMMA OwnedAppended ==
  ASSUME NEW tr \in Seq(Transaction), NEW x \in Transaction, NEW fl \in Seq(FlagRow), Owned(fl, tr)
  PROVE  Owned(fl, Append(tr, x))
<1>1. Len(Append(tr, x)) = Len(tr) + 1
  BY AppendProperties
<1>2. \A i \in DOMAIN fl : fl[i] \in FlagRow
  BY ElementOfSeq
<1>3. QED
  BY <1>1, <1>2 DEF Owned, FlagRow

LEMMA OwnedRow ==
  ASSUME NEW tr \in Seq(Transaction), NEW row \in FlagRow, NEW fl \in Seq(FlagRow), Owned(fl, tr),
         0 < row.trans, row.trans <= Len(tr)
  PROVE  Owned(Append(fl, row), tr)
<1>1. \A i \in DOMAIN Append(fl, row) :
        (i \in DOMAIN fl /\ Append(fl, row)[i] = fl[i]) \/ Append(fl, row)[i] = row
  BY AppendProperties
<1>2. QED
  BY <1>1 DEF Owned

LEMMA OwnedStep ==
  ASSUME TypeOK, FlagInv, DbMoves
  PROVE  Owned(flags', trans') /\ (disk'.open => Owned(disk'.flags, disk'.trans))
<1>1. CASE KeepsDb
  BY <1>1 DEF KeepsDb, FlagInv
<1>2. CASE AddsTrans
  BY <1>2, OwnedAppended DEF AddsTrans, FlagInv, Txn
<1>3. CASE AddsFlag
  <2>1. PICK n \in Names, v \in Value :
          flags' = Append(flags, [trans |-> Last, name |-> n, value |-> v])
    BY <1>3 DEF AddsFlag
  <2>2. trans # <<>> /\ trans' = trans /\ disk' = disk
    BY <1>3 DEF AddsFlag
  <2>3. Last \in Nat /\ 0 < Last
    BY <2>2, LastType
  <2>4. [trans |-> Last, name |-> n, value |-> v] \in FlagRow
    BY <2>3 DEF FlagRow
  <2>5. Owned(flags', trans)
    BY <2>1, <2>3, <2>4, OwnedRow DEF FlagInv, Last
  <2>6. QED
    BY <2>2, <2>5 DEF FlagInv
<1>4. CASE Close
  BY <1>4 DEF Close, FlagInv, NoTxn
<1>5. QED
  BY <1>1, <1>2, <1>3, <1>4 DEF DbMoves

LEMMA MarkContext ==
  ASSUME RefineInv, [Next]_vars, pc' = "mark"
  PROVE  ctx'.trans = Last'
<1>0. TypeOK /\ Last \in Nat
  BY LastType DEF RefineInv, JournalInv
<1>1. CASE pc = "mark"
  <2>1. UNCHANGED <<ctx, trans>>
    BY <1>1
       DEF Next, User, BeginAlter, BeginSingle, BeginMark, BeginInit, BeginHistory, Begin, Client,
           Sync, Open, Update, Count, Fill, FillAborts, Record, AddDelta, RollBack, Resolve,
           PlanFails, PlanUnresolved, PlanCrashes, PlanEmpty, Plan, PlanDeclined, Execute, Run,
           RunRefused, MarkOpens, Flags, Mark, MarkEnds, Restore, RestoreEnds, Return, Failure,
           FillFails, RunFails, FlagsFail, MarkFails, RestoreFails, Crash, Quit, External, Finished,
           vars, rpmdb, flagdb, db, locals
  <2>2. QED
    BY <1>1, <2>1 DEF RefineInv, FlagInv, Last
<1>2. CASE pc # "mark"
  <2>1. MarkOpens \/ Flags
    <3>1. CASE User
      BY <3>1 DEF User, BeginAlter, BeginSingle, BeginMark, BeginInit, BeginHistory, Begin
    <3>2. CASE Sync
      BY <1>0, <3>2, AfterSyncType
         DEF Sync, Open, Update, Count, Fill, FillAborts, Record, AddDelta, RollBack, Scan
    <3>3. CASE Resolve
      BY <3>3 DEF Resolve, PlanFails, PlanUnresolved, PlanCrashes, PlanEmpty, Plan, PlanDeclined
    <3>4. CASE Failure \/ Return
      BY <3>4 DEF Failure, FillFails, RunFails, FlagsFail, MarkFails, RestoreFails, Crash, Quit,
                  Return
    <3>5. CASE External \/ UNCHANGED vars
      BY <1>2, <3>5 DEF External, vars
    <3>6. CASE Execute
      BY <1>2, <3>6 DEF Execute, Run, RunRefused, Mark, MarkEnds, Restore, RestoreEnds
    <3>7. QED
      BY <3>1, <3>2, <3>3, <3>4, <3>5, <3>6 DEF Next, Client
  <2>2. CASE MarkOpens
    <3>1. \/ trans' = trans /\ ctx'.trans = Last
          \/ \E x \in Transaction : trans' = Append(trans, x) /\ ctx'.trans = Last + 1
      <4>1. ASSUME trans # <<>>
            PROVE  [EmptyTransaction EXCEPT !.cookie = trans[Last].cookie] \in Transaction
        BY <1>0, <4>1, LastType DEF EmptyTransaction, Transaction
      <4>2. QED
        BY <2>2, <4>1 DEF MarkOpens, NoCtx
    <3>2. QED
      BY <1>0, <3>1, AppendProperties DEF Last
  <2>3. CASE Flags
    <3>1. trans' = trans /\ ctx' = ctx /\ pc = "flags"
      BY <2>3 DEF Flags
    <3>2. QED
      BY <3>1 DEF RefineInv, JournalInv, ScanInv, Synced, Last
  <2>4. QED
    BY <2>1, <2>2, <2>3
<1>3. QED
  BY <1>1, <1>2

LEMMA RefineInit == Init => RefineInv
  BY JournalInit DEF Init, RefineInv, FlagInv, Owned, NoTxn

LEMMA RefineStep ==
  ASSUME ExternalAt \cap {"count", "fill"} = {}, "full" \notin Failures
  PROVE  RefineInv /\ [Next]_vars => RefineInv'
<1> SUFFICES ASSUME RefineInv, [Next]_vars PROVE RefineInv'
  OBVIOUS
<1>1. JournalInv'
  BY JournalStep DEF RefineInv
<1>2. Owned(flags', trans') /\ (disk'.open => Owned(disk'.flags, disk'.trans))
  BY Moves, OwnedStep DEF RefineInv, JournalInv
<1>3. QED
  BY <1>1, <1>2, MarkContext DEF RefineInv, FlagInv
-----------------------------------------------------------------------------
(***************************************************************************)
(* The flag of a name at a transaction, when a row is added.               *)
(***************************************************************************)
LEMMA RowAppended ==
  ASSUME NEW fl \in Seq(FlagRow), NEW row \in FlagRow
  PROVE  LET ap == Append(fl, row)
             k  == Len(fl) + 1
         IN  /\ k \in Nat /\ DOMAIN ap = 1..k /\ DOMAIN fl = 1..(k - 1) /\ ap[k] = row
             /\ \A i \in 1..(k - 1) : ap[i] = fl[i] /\ ap[i] \in FlagRow
  BY AppendProperties, LenProperties, ElementOfSeq

LEMMA FlagElsewhere ==
  ASSUME NEW fl \in Seq(FlagRow), NEW row \in FlagRow, NEW t \in Nat, NEW n,
         t < row.trans \/ row.name # n
  PROVE  FlagAt(Append(fl, row), t, n) = FlagAt(fl, t, n)
<1> DEFINE ap == Append(fl, row)
           k  == Len(fl) + 1
<1>1. /\ k \in Nat /\ DOMAIN ap = 1..k /\ DOMAIN fl = 1..(k - 1) /\ ap[k] = row
      /\ \A i \in 1..(k - 1) : ap[i] = fl[i] /\ ap[i] \in FlagRow
  BY RowAppended
<1> HIDE DEF ap, k
<1>2. FlagRows(ap, t, n) = FlagRows(fl, t, n)
  <2>1. \A i \in 1..k : i = k \/ i \in 1..(k - 1)
    BY <1>1
  <2>2. 1..(k - 1) \subseteq 1..k
    BY <1>1
  <2>3. ~(ap[k].name = n /\ ap[k].trans <= t)
    BY <1>1 DEF FlagRow
  <2>4. QED
    BY <1>1, <2>1, <2>2, <2>3 DEF FlagRows
<1>3. \A i \in FlagRows(fl, t, n) : ap[i].value = fl[i].value
  BY <1>1 DEF FlagRows
<1>4. FlagAt(ap, t, n) = FlagAt(fl, t, n)
  BY <1>2, <1>3 DEF FlagAt
<1>5. QED
  BY <1>4 DEF ap

LEMMA FlagHere ==
  ASSUME NEW fl \in Seq(FlagRow), NEW row \in FlagRow, NEW t \in Nat, row.trans <= t
  PROVE  FlagAt(Append(fl, row), t, row.name) = row.value
<1> DEFINE ap == Append(fl, row)
           k  == Len(fl) + 1
<1>1. /\ k \in Nat /\ DOMAIN ap = 1..k /\ DOMAIN fl = 1..(k - 1) /\ ap[k] = row
      /\ \A i \in 1..(k - 1) : ap[i] = fl[i] /\ ap[i] \in FlagRow
  BY RowAppended
<1> HIDE DEF ap, k
<1>2. k \in FlagRows(ap, t, row.name)
  <2>1. k \in 1..k
    BY <1>1, LenProperties DEF k
  <2>2. QED
    BY <1>1, <2>1 DEF FlagRows
<1>3. FlagRows(ap, t, row.name) \subseteq 1..k
  BY <1>1 DEF FlagRows
<1>4. \A i \in 1..k : (\A j \in FlagRows(ap, t, row.name) : j <= i) <=> i = k
  BY <1>1, <1>2, <1>3
<1>5. FlagAt(ap, t, row.name) = IF row.value = 1 THEN 1 ELSE 0
  BY <1>1, <1>2, <1>3, <1>4 DEF FlagAt
<1>6. QED
  BY <1>5 DEF FlagRow, Value, ap

(* A transaction without rows of its own has the flags of the one before.  *)
LEMMA FlagInherited ==
  ASSUME NEW tr, Len(tr) \in Nat, NEW fl \in Seq(FlagRow), Owned(fl, tr), NEW t \in Nat,
         Len(tr) <= t, NEW n
  PROVE  FlagAt(fl, t, n) = FlagAt(fl, Len(tr), n)
<1>1. \A i \in DOMAIN fl : fl[i] \in FlagRow
  BY ElementOfSeq
<1>2. FlagRows(fl, t, n) = FlagRows(fl, Len(tr), n)
  BY <1>1 DEF FlagRows, Owned, FlagRow
<1>3. QED
  BY <1>2 DEF FlagAt

LEMMA NoFlagAtZero ==
  ASSUME NEW fl \in Seq(FlagRow), Owned(fl, <<>>), NEW t \in Nat, NEW n
  PROVE  FlagAt(fl, t, n) = 0
<1>1. \A i \in DOMAIN fl : fl[i] \in FlagRow /\ 0 < fl[i].trans /\ fl[i].trans <= 0
  BY ElementOfSeq, EmptySeq DEF Owned
<1>2. DOMAIN fl = {}
  BY <1>1 DEF FlagRow
<1>3. QED
  BY <1>2 DEF FlagAt, FlagRows
-----------------------------------------------------------------------------
(***************************************************************************)
(* The journal that a database stands for.                                 *)
(***************************************************************************)
AutoAt(fl, t) == {n \in Names : FlagAt(fl, t, n) = 1}
LogOf(tr, fl) == [t \in DOMAIN tr |-> [pkgs |-> Replay(tr, t), auto |-> AutoAt(fl, t)]]
State == [pkgs : SUBSET Ids, auto : SUBSET Names]

LEMMA LogType ==
  ASSUME NEW tr \in Seq(Transaction), NEW fl
  PROVE  /\ LogOf(tr, fl) \in Seq(State) /\ Len(LogOf(tr, fl)) = Len(tr)
         /\ \A t \in 1..Len(tr) : LogOf(tr, fl)[t] = [pkgs |-> Replay(tr, t), auto |-> AutoAt(fl, t)]
<1>1. DOMAIN tr = 1..Len(tr) /\ Len(tr) \in Nat
  BY LenProperties
<1>2. \A t \in 1..Len(tr) : [pkgs |-> Replay(tr, t), auto |-> AutoAt(fl, t)] \in State
  BY ReplayType DEF State, AutoAt
<1>3. LogOf(tr, fl) \in [1..Len(tr) -> State]
  BY <1>1, <1>2 DEF LogOf
<1>4. LogOf(tr, fl) \in Seq(State) /\ Len(LogOf(tr, fl)) = Len(tr)
  BY <1>1, <1>3
<1>5. QED
  BY <1>1, <1>4 DEF LogOf

LEMMA LogAppended ==
  ASSUME NEW tr \in Seq(Transaction), NEW x \in Transaction, NEW known, NEW fl \in Seq(FlagRow),
         Faithful(tr, known), Faithful(Append(tr, x), known), Owned(fl, tr)
  PROVE  LogOf(Append(tr, x), fl) =
           Append(LogOf(tr, fl),
                  [pkgs |-> Installed(x.cookie),
                   auto |-> IF tr = <<>> THEN {} ELSE LogOf(tr, fl)[Len(tr)].auto])
<1> DEFINE n   == Len(tr)
           ap  == Append(tr, x)
           new == [pkgs |-> Installed(x.cookie),
                   auto |-> IF tr = <<>> THEN {} ELSE LogOf(tr, fl)[n].auto]
<1>1. /\ n \in Nat /\ DOMAIN tr = 1..n
      /\ ap \in Seq(Transaction) /\ DOMAIN ap = 1..(n + 1) /\ Len(ap) = n + 1
      /\ ap[n + 1] = x /\ \A i \in 1..n : ap[i] = tr[i]
  BY AppendProperties, LenProperties
<1>2. tr = <<>> <=> n = 0
  BY EmptySeq, <1>1
<1>3. /\ LogOf(tr, fl) \in Seq(State) /\ Len(LogOf(tr, fl)) = n
      /\ \A t \in 1..n : LogOf(tr, fl)[t] = [pkgs |-> Replay(tr, t), auto |-> AutoAt(fl, t)]
  BY LogType
<1>4. /\ LogOf(ap, fl) \in Seq(State) /\ Len(LogOf(ap, fl)) = n + 1
      /\ \A t \in 1..(n + 1) : LogOf(ap, fl)[t] = [pkgs |-> Replay(ap, t), auto |-> AutoAt(fl, t)]
  BY <1>1, LogType
<1>5. new.auto = AutoAt(fl, n + 1)
  <2>1. CASE tr = <<>>
    BY <1>1, <2>1, NoFlagAtZero DEF AutoAt
  <2>2. CASE tr # <<>>
    <3>1. n \in 1..n
      BY <1>1, <1>2, <2>2
    <3>2. LogOf(tr, fl)[n].auto = AutoAt(fl, n)
      <4>1. LogOf(tr, fl)[n] = [pkgs |-> Replay(tr, n), auto |-> AutoAt(fl, n)]
        BY <1>3, <3>1, Zenon
      <4>2. QED
        BY <4>1
    <3>3. \A m \in Names : FlagAt(fl, n + 1, m) = FlagAt(fl, n, m)
      <4>1. n + 1 \in Nat /\ n <= n + 1
        BY <1>1
      <4>2. QED
        BY <1>1, <4>1, FlagInherited
    <3>4. QED
      BY <2>2, <3>2, <3>3 DEF AutoAt
  <2>3. QED
    BY <2>1, <2>2
<1>6. \A t \in 1..n : Replay(ap, t) = Replay(tr, t)
  <2>1. \A t \in 1..n : t \in 1..(n + 1)
    BY <1>1
  <2>2. QED
    BY <1>1, <2>1 DEF Faithful
<1>7. Replay(ap, n + 1) = Installed(x.cookie)
  <2>1. n + 1 \in 1..(n + 1)
    BY <1>1
  <2>2. QED
    BY <1>1, <2>1 DEF Faithful
<1>8. new \in State
  <2>1. x.cookie \in RpmDb
    BY DEF Transaction
  <2>2. new.auto \in SUBSET Names
    BY <1>5 DEF AutoAt
  <2>3. QED
    BY <2>1, <2>2, InstalledType DEF State, Ids
<1> HIDE DEF ap
<1>9. /\ Append(LogOf(tr, fl), new) \in Seq(State) /\ Len(Append(LogOf(tr, fl), new)) = n + 1
      /\ Append(LogOf(tr, fl), new)[n + 1] = new
      /\ \A t \in 1..n : Append(LogOf(tr, fl), new)[t] = LogOf(tr, fl)[t]
  BY <1>3, <1>8, AppendProperties
<1>10. \A t \in 1..(n + 1) : LogOf(ap, fl)[t] = Append(LogOf(tr, fl), new)[t]
  <2>1. \A t \in 1..(n + 1) : t = n + 1 \/ t \in 1..n
    BY <1>1
  <2>2. \A t \in 1..n : LogOf(ap, fl)[t] = Append(LogOf(tr, fl), new)[t]
    BY <1>1, <1>3, <1>4, <1>6, <1>9
  <2>3. LogOf(ap, fl)[n + 1] = new
    <3>1. n + 1 \in 1..(n + 1)
      BY <1>1
    <3>2. LogOf(ap, fl)[n + 1] = [pkgs |-> Replay(ap, n + 1), auto |-> AutoAt(fl, n + 1)]
      BY <1>4, <3>1
    <3>3. QED
      BY <1>5, <1>7, <3>2
  <2>4. QED
    BY <1>9, <2>1, <2>2, <2>3
<1> HIDE DEF new
<1>11. LogOf(ap, fl) = Append(LogOf(tr, fl), new)
  BY <1>4, <1>9, <1>10, SeqEqual
<1>12. QED
  BY <1>11 DEF ap, new

(* A row of the last transaction changes one mark of the last state.       *)
LEMMA LogAmended ==
  ASSUME NEW tr \in Seq(Transaction), tr # <<>>, NEW fl \in Seq(FlagRow), NEW row \in FlagRow,
         row.trans = Len(tr)
  PROVE  LET last == LogOf(tr, fl)[Len(tr)].auto
         IN  LogOf(tr, Append(fl, row)) =
               [LogOf(tr, fl) EXCEPT ![Len(tr)].auto =
                  IF row.value = 1 THEN last \cup {row.name} ELSE last \ {row.name}]
<1> DEFINE n    == Len(tr)
           more == Append(fl, row)
           A    == IF row.value = 1 THEN AutoAt(fl, n) \cup {row.name} ELSE AutoAt(fl, n) \ {row.name}
<1>1. n \in Nat /\ n \in 1..n
  BY EmptySeq, LenProperties
<1>2. /\ LogOf(tr, fl) \in Seq(State) /\ Len(LogOf(tr, fl)) = n
      /\ \A t \in 1..n : LogOf(tr, fl)[t] = [pkgs |-> Replay(tr, t), auto |-> AutoAt(fl, t)]
  BY LogType
<1>3. /\ LogOf(tr, more) \in Seq(State) /\ Len(LogOf(tr, more)) = n
      /\ \A t \in 1..n : LogOf(tr, more)[t] = [pkgs |-> Replay(tr, t), auto |-> AutoAt(more, t)]
  BY LogType
<1>4. \A t \in 1..n : t # n => AutoAt(more, t) = AutoAt(fl, t)
  <2>1. ASSUME NEW t \in 1..n, t # n, NEW m \in Names PROVE FlagAt(more, t, m) = FlagAt(fl, t, m)
    <3>1. t \in Nat /\ t < row.trans
      BY <1>1, <2>1
    <3>2. QED
      BY <3>1, FlagElsewhere
  <2>2. QED
    BY <2>1 DEF AutoAt
<1>5. AutoAt(more, n) = A
  <2>1. \A m \in Names : m # row.name => FlagAt(more, n, m) = FlagAt(fl, n, m)
    BY <1>1, FlagElsewhere
  <2>2. FlagAt(more, n, row.name) = row.value
    <3>1. n \in Nat /\ row.trans <= n
      BY <1>1
    <3>2. QED
      BY <3>1, FlagHere
  <2>3. row.value \in {0, 1} /\ row.name \in Names
    BY DEF FlagRow, Value
  <2> HIDE DEF more
  <2>4. QED
    BY <2>1, <2>2, <2>3 DEF AutoAt
<1>6. LogOf(tr, fl)[n] = [pkgs |-> Replay(tr, n), auto |-> AutoAt(fl, n)]
  BY <1>1, <1>2, Zenon
<1>7. LogOf(tr, more)[n] = [pkgs |-> Replay(tr, n), auto |-> A]
  <2>1. LogOf(tr, more)[n] = [pkgs |-> Replay(tr, n), auto |-> AutoAt(more, n)]
    BY <1>1, <1>3, Zenon
  <2>2. QED
    BY <1>5, <2>1
<1> DEFINE new == [LogOf(tr, fl) EXCEPT ![n].auto = A]
<1>8. LogOf(tr, fl) \in [1..n -> State] /\ LogOf(tr, more) \in [1..n -> State]
  BY <1>2, <1>3
<1>9. DOMAIN new = 1..n
  BY <1>8
<1>10. new[n] = [pkgs |-> Replay(tr, n), auto |-> A]
  <2>1. new[n] = [LogOf(tr, fl)[n] EXCEPT !.auto = A]
    BY <1>1, <1>8
  <2> HIDE DEF A, new
  <2>2. QED
    BY <1>6, <2>1
<1>11. \A t \in 1..n : t # n => new[t] = LogOf(tr, fl)[t]
  BY <1>1, <1>8
<1>12. \A t \in 1..n : t # n => LogOf(tr, fl)[t] = LogOf(tr, more)[t]
  <2> HIDE DEF more
  <2>1. QED
    BY <1>2, <1>3, <1>4
<1>13. new = [t \in 1..n |-> new[t]] /\ LogOf(tr, more) = [t \in 1..n |-> LogOf(tr, more)[t]]
  BY <1>8
<1>14. \A t \in 1..n : new[t] = LogOf(tr, more)[t]
  <2> HIDE DEF new, more
  <2>1. QED
    BY <1>7, <1>10, <1>11, <1>12
<1>15. LogOf(tr, more) = new
  <2> HIDE DEF new, more
  <2>1. QED
    BY <1>13, <1>14
<1>16. LogOf(tr, fl)[n].auto = AutoAt(fl, n)
  BY <1>6
<1>17. QED
  BY <1>15, <1>16
-----------------------------------------------------------------------------
(***************************************************************************)
(* The refinement: a COMMIT of a transaction records a state, a row of     *)
(* flag_set amends the last one, and every other step stutters.            *)
(***************************************************************************)
LEMMA LogIs == JournalLog = LogOf(OnDisk.trans, OnDisk.flags)
  BY DEF JournalLog, LogOf, AutoAt

LEMMA LogIsClosed ==
  ASSUME ~disk.open
  PROVE  JournalLog = LogOf(trans, flags)
  BY LogIs DEF OnDisk

LEMMA LogIsOpen ==
  ASSUME disk.open
  PROVE  JournalLog = LogOf(disk.trans, disk.flags)
  BY LogIs DEF OnDisk

LEMMA JournalRecords ==
  ASSUME RefineInv, RefineInv', ~disk.open, ~disk'.open, NEW x \in Transaction,
         trans' = Append(trans, x), flags' = flags
  PROVE  J!Next
<1>1. /\ trans \in Seq(Transaction) /\ flags \in Seq(FlagRow) /\ Owned(flags, trans)
      /\ Faithful(trans, rpms) /\ Faithful(trans', rpms')
  BY DEF RefineInv, JournalInv, DbInv, JournalFaithful, FlagInv
<1>2. JournalLog = LogOf(trans, flags) /\ JournalLog' = LogOf(trans', flags')
  BY LogIsClosed DEF JournalLog, LogOf, AutoAt, OnDisk
<1>3. Faithful(trans, rpms \cup rpms') /\ Faithful(trans', rpms \cup rpms')
  BY <1>1, MoreKnown
<1>4. JournalLog' = Append(JournalLog,
        [pkgs |-> Installed(x.cookie),
         auto |-> IF trans = <<>> THEN {} ELSE LogOf(trans, flags)[Len(trans)].auto])
  BY <1>1, <1>2, <1>3, LogAppended
<1>5. JournalLog \in Seq(State) /\ Len(JournalLog) = Len(trans)
  BY <1>1, <1>2, LogType
<1>6. JournalLog = <<>> <=> trans = <<>>
  BY <1>1, <1>5, EmptySeq
<1>7. J!LastAuto = IF trans = <<>> THEN {} ELSE LogOf(trans, flags)[Len(trans)].auto
  BY <1>2, <1>5, <1>6 DEF J!LastAuto
<1>8. Installed(x.cookie) \in SUBSET Pkgs
  BY InstalledType DEF Transaction
<1>9. JournalLog' = Append(JournalLog, [pkgs |-> Installed(x.cookie), auto |-> J!LastAuto])
  BY <1>4, <1>7
<1>10. J!Record
  BY <1>8, <1>9 DEF J!Record
<1>11. QED
  BY <1>10 DEF J!Next

LEMMA JournalAmends ==
  ASSUME RefineInv, ~disk.open, ~disk'.open, NEW row \in FlagRow, row.trans = Last,
         trans # <<>>, trans' = trans, flags' = Append(flags, row)
  PROVE  J!Next
<1>1. trans \in Seq(Transaction) /\ flags \in Seq(FlagRow)
  BY DEF RefineInv, JournalInv
<1>2. JournalLog = LogOf(trans, flags) /\ JournalLog' = LogOf(trans', flags')
  BY LogIsClosed DEF JournalLog, LogOf, AutoAt, OnDisk
<1>3. JournalLog \in Seq(State) /\ Len(JournalLog) = Len(trans)
  BY <1>1, <1>2, LogType
<1>4. JournalLog # <<>>
  BY <1>1, <1>3, EmptySeq
<1>5. J!LastAuto = LogOf(trans, flags)[Len(trans)].auto
  BY <1>2, <1>3, <1>4 DEF J!LastAuto
<1> DEFINE A == IF row.value = 1 THEN J!LastAuto \cup {row.name} ELSE J!LastAuto \ {row.name}
<1>6. JournalLog' = [JournalLog EXCEPT ![Len(JournalLog)].auto = A]
  BY <1>1, <1>2, <1>3, <1>5, LogAmended DEF Last
<1>7. A \in {J!LastAuto \cup {row.name}, J!LastAuto \ {row.name}}
  OBVIOUS
<1> HIDE DEF A
<1>8. J!Amend(row.name)
  BY <1>4, <1>6, <1>7 DEF J!Amend
<1>9. row.name \in Names
  BY DEF FlagRow
<1>10. QED
  BY <1>8, <1>9 DEF J!Next

LEMMA JournalStays ==
  ASSUME OnDisk'.trans = OnDisk.trans, OnDisk'.flags = OnDisk.flags
  PROVE  UNCHANGED JournalLog
  BY DEF JournalLog

LEMMA JournalNext ==
  ASSUME RefineInv, RefineInv', "full" \notin Failures, [Next]_vars
  PROVE  [J!Next]_JournalLog
<1>1. DbMoves
  BY Moves
<1>2. CASE KeepsDb
  BY <1>2, JournalStays DEF KeepsDb, OnDisk
<1>3. CASE Close
  BY <1>3, JournalStays DEF Close, OnDisk, NoTxn
<1>4. CASE AddsTrans
  <2>1. PICK x \in Transaction :
          trans' = Append(trans, x) /\ flags' = flags /\ (disk' = disk \/ (~disk.open /\ disk' = Txn))
    BY <1>4 DEF AddsTrans
  <2>2. CASE ~disk.open /\ disk' = Txn
    BY <2>2, JournalStays DEF OnDisk, Txn
  <2>3. CASE disk' = disk /\ disk.open
    BY <2>3, JournalStays DEF OnDisk
  <2>4. CASE disk' = disk /\ ~disk.open
    BY <2>1, <2>4, JournalRecords
  <2>5. QED
    BY <2>1, <2>2, <2>3, <2>4
<1>5. CASE AddsFlag
  <2>1. PICK n \in Names, v \in Value : flags' = Append(flags, [trans |-> Last, name |-> n, value |-> v])
    BY <1>5 DEF AddsFlag
  <2>2. trans # <<>> /\ trans' = trans /\ disk' = disk
    BY <1>5 DEF AddsFlag
  <2>3. CASE disk.open
    BY <2>2, <2>3, JournalStays DEF OnDisk
  <2>4. CASE ~disk.open
    <3>1. [trans |-> Last, name |-> n, value |-> v] \in FlagRow
      BY LastType DEF FlagRow, RefineInv, JournalInv
    <3>2. QED
      BY <2>1, <2>2, <2>4, <3>1, JournalAmends
  <2>5. QED
    BY <2>3, <2>4
<1>6. QED
  BY <1>1, <1>2, <1>3, <1>4, <1>5 DEF DbMoves

LEMMA JournalBegins == Init => J!Init
<1> SUFFICES ASSUME Init PROVE J!Init
  OBVIOUS
<1>1. JournalLog = LogOf(<<>>, <<>>)
  BY LogIsClosed DEF Init, NoTxn
<1>2. <<>> \in Seq(Transaction) /\ Len(<<>>) = 0
  BY EmptySeq
<1>3. LogOf(<<>>, <<>>) \in Seq(State) /\ Len(LogOf(<<>>, <<>>)) = 0
  BY <1>2, LogType
<1>4. QED
  BY <1>1, <1>3, EmptySeq DEF J!Init

(* The history on disk is a journal: a state that is not the last one      *)
(* never changes, a new state starts with the marks of the one before it,  *)
(* and only the marks of the last one are amended, one at a time           *)
(* (history_update_state, history_add_transaction, db_set_auto_flag).  It  *)
(* holds whatever statement fails, also when a COMMIT leaves its           *)
(* transaction open, and wherever a command dies, under the two            *)
(* assumptions of HistoryIsFaithful.                                       *)
THEOREM HistoryIsJournal ==
  ASSUME ExternalAt \cap {"count", "fill"} = {}, "full" \notin Failures
  PROVE  Spec => RefinesJournal
<1>1. Spec => []RefineInv
  BY RefineInit, RefineStep, PTL DEF Spec
<1>2. RefineInv /\ RefineInv' /\ [Next]_vars => [J!Next]_JournalLog
  BY JournalNext
<1>3. QED
  BY <1>1, <1>2, JournalBegins, PTL DEF Spec, RefinesJournal, J!Spec
-----------------------------------------------------------------------------
(***************************************************************************)
(* What a command that reports success has done.  Nobody else uses rpm     *)
(* while the command runs, and every COMMIT does what it says; statements, *)
(* rpm and the solver may fail and the process may die.                    *)
(***************************************************************************)
SyncSteps == {"open", "count", "fill", "record", "update", "delta"}
Undisturbed == ExternalAt \subseteq {"idle"} /\ Failures \cap {"full", "busy"} = {}

(* Where a command of each kind can be, and what its arguments are.        *)
StageInv ==
  /\ pc \in SyncSteps => cmd.op \in HistoryOps \cup {"init", "alter"}
  /\ pc \in SyncSteps /\ stage = "resolve" => cmd.op # "alter"
  /\ pc \in SyncSteps /\ stage # "resolve" => cmd.op # "init"
  /\ pc \in {"plan", "nothing"} => stage = "resolve" /\ cmd.op \in HistoryOps
  /\ pc = "run" => stage = "before" /\ cmd.op \in HistoryOps \cup {"alter"}
  /\ pc \in {"flags", "restore"} => stage = "after"
  /\ pc = "flags" => cmd.op \in HistoryOps \cup {"alter"}
  /\ pc = "restore" => cmd.op \in HistoryOps
  /\ pc \in {"mark", "ok"} /\ cmd.op \in HistoryOps \cup {"alter"} => stage = "after"
  /\ pc = "mark" => cmd.op \in HistoryOps \cup {"alter", "mark", "single"}
  /\ pc \notin {"restore"} \cup Finished => idx = 1
  /\ pc = "idle" => cmd.op = "none"

(* The context is the rpm database as it is.                               *)
Current == Synced /\ ctx.cookie = inst
CurrentInv ==
  /\ ~disk.open /\ 0 < nextInst
  /\ pc = "record" => ctx.cookie = inst
  /\ pc = "delta" => scan.cookie = inst
  /\ pc \in {"plan", "run", "flags", "restore", "nothing"} => Current
  /\ pc \in {"mark", "ok"} /\ cmd.op \in HistoryOps \cup {"alter"} => Current

(* An installation: the names that it no longer has to mark are marked.    *)
AlterInv ==
  cmd.op = "alter" /\ pc \in {"mark", "ok"} =>
    /\ \A n \in NewNames(cmd.add, cmd.rem) \ todo : FlagIn(Last, n) = ValueFor(n)
    /\ pc = "ok" => todo = {}
-----------------------------------------------------------------------------
(***************************************************************************)
(* A history command.  Its plan is made when the history ends at Base; the *)
(* command itself adds one transaction.                                    *)
(***************************************************************************)
Base      == IF pc = "open" THEN Last ELSE saved
UpTo(t)   == IF t < Base THEN t ELSE Base
Goal      == IF cmd.op = "undo" THEN cmd.from - 1 ELSE UpTo(cmd.to)
Origin    == IF cmd.op = "rollback" THEN Base
             ELSE IF cmd.op = "undo" THEN UpTo(cmd.to) ELSE cmd.from - 1
Wished    == StateAt(Goal) \ StateAt(Origin)
Unwished  == StateAt(Origin) \ StateAt(Goal)
Asked     == (Wished \cap Available) \ cmd.pool
Planned   == cmd.op \in HistoryOps /\ stage # "resolve"

ArgsInv ==
  cmd.op \in HistoryOps =>
    /\ cmd.op = "rollback" => 0 < cmd.to
    /\ cmd.op # "rollback" => 1 < cmd.from /\ cmd.from <= cmd.to
    /\ cmd.op # "rollback" /\ stage = "resolve" => cmd.from <= Last + 1
    /\ pc \in SyncSteps \cup {"plan", "run"} /\ stage # "after" => cmd.pool = Installed(inst)

(* What the plan is worth until the command ends.                          *)
PlanInv ==
  Planned =>
    /\ 0 < Base /\ Base <= Last /\ cmd.pool = StateAt(Base)
    /\ cmd.op = "rollback" => cmd.to <= Base /\ cmd.add = Asked
    /\ cmd.op # "rollback" => cmd.from - 1 <= Base
    /\ Wished \subseteq PubKeys \cup Available
    /\ cmd.user = NamesOf(Asked) /\ Asked \subseteq cmd.add
    /\ \A p \in cmd.add \ Asked : NameOf[p] \notin NamesOf(Asked \cup cmd.pool)
    /\ cmd.rem = ((Unwished \ PubKeys) \cap cmd.pool) \cup
                 {q \in cmd.pool : NameOf[q] \in NamesOf(Asked)}

(* How far it has come: before the run nothing is recorded, after it one   *)
(* transaction is.                                                         *)
ProgressInv ==
  Planned =>
    /\ stage = "before" =>
         /\ pc \in {"open", "count", "fill", "run"} \cup Finished
         /\ pc \in {"open", "count", "fill", "run"} => Base = Last /\ trans[Last].cookie = inst
         /\ pc \in {"count", "fill"} => scan.then = "synced"
    /\ stage = "after" =>
         /\ pc \in {"update", "count", "fill", "delta", "flags", "mark", "restore"} \cup Finished
         /\ pc \in {"count", "fill"} => scan.then = "delta"
         /\ pc \in {"update", "count", "fill", "delta"} => Last = saved
         /\ pc = "flags" => Last \in {saved, saved + 1}
         /\ pc \in {"mark", "restore", "ok"} => Last = saved + 1
         /\ Installed(inst) = (cmd.pool \ cmd.rem) \cup cmd.add

(* The flags.  What is wanted is said by rows of the transactions up to    *)
(* Base, which get no more rows.                                           *)
NamesInTable == \A i \in DOMAIN flags : flags[i].name \in NamesKnown
Wanted(n) == FlagIn(IF FlagIn(Origin, n) # FlagIn(Goal, n) THEN Goal ELSE Base, n)
FlagOK(n) ==
  /\ pc \in {"update", "count", "fill", "delta", "flags", "mark"} => FlagIn(Last, n) = FlagIn(Base, n)
  /\ pc = "restore" =>
       \/ FlagIn(Last, n) = Wanted(n)
       \/ FlagIn(Last, n) = FlagIn(Base, n) /\ \A i \in 1..(idx - 1) : names[i] # n
  /\ pc = "mark" => todo \subseteq NamesOf(PulledIn)
  /\ pc = "ok" => FlagIn(Last, n) = Wanted(n)
FlagsInv == Planned /\ stage = "after" => \A n \in Names \ NamesOf(PulledIn) : FlagOK(n)

CommandInv ==
  /\ RefineInv /\ StageInv /\ CurrentInv /\ AlterInv
  /\ ArgsInv /\ PlanInv /\ ProgressInv /\ NamesInTable /\ FlagsInv /\ NothingLeftToDo
-----------------------------------------------------------------------------
(* Where a step leads.                                                     *)
LEMMA QuitsClean ==
  ASSUME Quit
  PROVE  pc' = "idle" /\ cmd'.op = "none" /\ stage' = "resolve" /\ idx' = 1
  BY DEF Quit, NoCmd

LEMMA ExternalIsIdle ==
  ASSUME Undisturbed, External
  PROVE  pc = "idle" /\ UNCHANGED <<db, pc, locals>>
  BY DEF Undisturbed, External

LEMMA StageUser ==
  ASSUME TypeOK, StageInv, User
  PROVE  StageInv'
<1>1. pc = "idle" /\ idx' = idx
  BY DEF User, BeginAlter, BeginSingle, BeginMark, BeginInit, BeginHistory, Begin
<1>2. idx = 1
  BY <1>1 DEF StageInv, Finished
<1>3. \/ pc' = "open" /\ stage' = "before" /\ cmd'.op = "alter"
      \/ pc' = "open" /\ stage' = "resolve" /\ cmd'.op \in HistoryOps \cup {"init"}
      \/ pc' = "addtrans" /\ cmd'.op \in {"mark", "single"}
  <2>1. CASE BeginAlter
    BY <2>1 DEF BeginAlter, Begin, NoCmd
  <2>2. CASE BeginSingle \/ BeginMark
    BY <2>2 DEF BeginSingle, BeginMark, Begin, NoCmd
  <2>3. CASE BeginInit \/ BeginHistory
    BY <2>3 DEF BeginInit, BeginHistory, Begin, NoCmd, HistoryOps
  <2>4. QED
    BY <2>1, <2>2, <2>3 DEF User
<1>4. QED
  BY <1>1, <1>2, <1>3 DEF StageInv, SyncSteps, HistoryOps

LEMMA StageSync ==
  ASSUME TypeOK, StageInv, Sync
  PROVE  StageInv'
<1>1. UNCHANGED <<cmd, stage, idx>> /\ pc \in SyncSteps
  BY DEF Sync, Open, Update, Count, Fill, FillAborts, Record, AddDelta, RollBack, locals, SyncSteps
<1>2. pc' \in SyncSteps \cup {"error"} \/ pc' = AfterSync
  BY DEF Sync, Open, Update, Count, Fill, FillAborts, Record, AddDelta, RollBack, SyncSteps, Scan
<1>3. idx = 1 /\ cmd.op \in HistoryOps \cup {"init", "alter"}
  BY <1>1 DEF StageInv, SyncSteps, Finished
<1>4. CASE pc' \in SyncSteps
  BY <1>1, <1>3, <1>4 DEF StageInv, SyncSteps
<1>5. CASE pc' = "error"
  BY <1>1, <1>3, <1>5 DEF StageInv, SyncSteps, Finished
<1>6. CASE pc' = AfterSync
  <2>1. stage \in {"resolve", "before", "after"}
    BY DEF Stages
  <2>2. \/ stage = "before" /\ pc' = "run"
        \/ stage = "after" /\ pc' = "flags"
        \/ stage = "resolve" /\ cmd.op = "init" /\ pc' = "ok"
        \/ stage = "resolve" /\ cmd.op # "init" /\ pc' = "plan"
    BY <1>6, <2>1 DEF AfterSync
  <2>3. stage = "resolve" => cmd.op # "alter"
    BY <1>1 DEF StageInv
  <2>4. stage # "resolve" => cmd.op # "init"
    BY <1>1 DEF StageInv
  <2>5. QED
    BY <1>1, <1>3, <2>2, <2>3, <2>4 DEF StageInv, SyncSteps, Finished, HistoryOps
<1>7. QED
  BY <1>2, <1>4, <1>5, <1>6

LEMMA StageResolve ==
  ASSUME TypeOK, StageInv, Resolve
  PROVE  StageInv'
<1>1. pc = "plan"
  BY DEF Resolve, PlanFails, PlanUnresolved, PlanCrashes, PlanEmpty, Plan, PlanDeclined
<1>2. stage = "resolve" /\ cmd.op \in HistoryOps /\ idx = 1
  BY <1>1 DEF StageInv, Finished
<1>3. CASE Plan
  <2>1. pc' = "open" /\ stage' = "before" /\ idx' = idx
    BY <1>3 DEF Plan
  <2>2. cmd'.op = cmd.op
    BY <1>3 DEF Plan, Command
  <2>3. QED
    BY <1>2, <2>1, <2>2 DEF StageInv, SyncSteps, HistoryOps, Finished
<1>4. CASE ~Plan
  <2>1. UNCHANGED <<cmd, stage, idx>> /\ pc' \in Finished \ {"ok"}
    BY <1>4 DEF Resolve, PlanFails, PlanUnresolved, PlanCrashes, PlanEmpty, PlanDeclined, locals,
                Finished
  <2>2. QED
    BY <1>2, <2>1 DEF StageInv, SyncSteps, HistoryOps, Finished
<1>5. QED
  BY <1>3, <1>4

LEMMA StageExecute ==
  ASSUME TypeOK, StageInv, ScanInv, Execute
  PROVE  StageInv'
<1> USE DEF locals
<1>1. CASE Run
  BY <1>1 DEF Run, StageInv, SyncSteps, HistoryOps, Finished
<1>2. CASE RunRefused
  BY <1>2 DEF RunRefused, StageInv, SyncSteps, HistoryOps, Finished
<1>3. CASE MarkOpens
  <2>1. cmd.op \in {"mark", "single"} /\ idx = 1
    BY <1>3 DEF MarkOpens, StageInv, ScanInv, Finished
  <2>2. QED
    BY <1>3, <2>1 DEF MarkOpens, StageInv, SyncSteps, HistoryOps, Finished
<1>4. CASE Flags
  <2>1. stage = "after" /\ cmd.op \in HistoryOps \cup {"alter"} /\ idx = 1
    BY <1>4 DEF Flags, StageInv, Finished
  <2>2. UNCHANGED <<stage, cmd, idx>> /\ (pc' = "mark" \/ (pc' = "restore" /\ cmd.op # "alter"))
    BY <1>4 DEF Flags
  <2>3. QED
    BY <2>1, <2>2 DEF StageInv, SyncSteps, HistoryOps, Finished
<1>5. ASSUME NEW n \in Names, Mark(n) PROVE StageInv'
  <2>1. pc = "mark" /\ UNCHANGED <<stage, cmd, idx>> /\ pc' \in {"mark", "error"}
    BY <1>5 DEF Mark
  <2>2. QED
    BY <2>1 DEF StageInv, SyncSteps, Finished
<1>6. CASE MarkEnds
  <2>1. pc = "mark" /\ UNCHANGED <<stage, cmd, idx>>
    BY <1>6 DEF MarkEnds
  <2>2. pc' = IF cmd.op \in HistoryOps THEN "restore" ELSE "ok"
    BY <1>6 DEF MarkEnds
  <2>3. QED
    BY <2>1, <2>2 DEF StageInv, SyncSteps, Finished
<1>7. CASE Restore \/ RestoreEnds
  <2>1. pc = "restore" /\ UNCHANGED <<stage, cmd>> /\ pc' \in {"restore", "error", "ok"}
    BY <1>7 DEF Restore, RestoreEnds
  <2>2. QED
    BY <2>1 DEF StageInv, SyncSteps, Finished
<1>8. QED
  BY <1>1, <1>2, <1>3, <1>4, <1>5, <1>6, <1>7 DEF Execute

LEMMA StageFailure ==
  ASSUME TypeOK, StageInv, Failure
  PROVE  StageInv'
<1>1. CASE Crash
  BY <1>1, QuitsClean DEF Crash, StageInv, SyncSteps, HistoryOps, Finished
<1>2. CASE ~Crash
  <2>1. pc' = "error"
    BY <1>2 DEF Failure, FillFails, RunFails, FlagsFail, MarkFails, RestoreFails
  <2>2. QED
    BY <2>1 DEF StageInv, SyncSteps, Finished
<1>3. QED
  BY <1>1, <1>2

LEMMA StageStep ==
  ASSUME TypeOK, ScanInv, StageInv, Undisturbed, [Next]_vars
  PROVE  StageInv'
<1>1. CASE Return
  BY <1>1, QuitsClean DEF Return, StageInv, SyncSteps, HistoryOps, Finished
<1>2. CASE External
  BY <1>2, ExternalIsIdle DEF StageInv, locals
<1>3. CASE UNCHANGED vars
  BY <1>3 DEF vars, StageInv
<1>4. QED
  BY <1>1, <1>2, <1>3, StageUser, StageSync, StageResolve, StageExecute, StageFailure
     DEF Next, Client

(* Every COMMIT does what it says, and the numbers of headers only grow.   *)
LEMMA ClosedStep ==
  ASSUME TypeOK, Undisturbed, ~disk.open, 0 < nextInst, [Next]_vars
  PROVE  ~disk'.open /\ 0 < nextInst'
<1> USE DEF rpmdb, flagdb, db, locals
<1>1. CASE User
  BY <1>1 DEF User, BeginAlter, BeginSingle, BeginMark, BeginInit, BeginHistory, Begin
<1>2. CASE Sync
  <2>1. ASSUME NEW new, Commits(new) PROVE disk' = disk
    BY <2>1 DEF Commits, Undisturbed
  <2>2. CASE Record \/ AddDelta
    BY <2>1, <2>2 DEF Record, AddDelta
  <2>3. CASE Open \/ Update \/ Count \/ Fill \/ FillAborts \/ RollBack
    BY <2>3 DEF Open, Update, Count, Fill, FillAborts, RollBack, Close, NoTxn
  <2>4. QED
    BY <1>2, <2>2, <2>3 DEF Sync
<1>3. CASE Resolve
  <2>1. CASE Plan
    BY <2>1 DEF Plan, Close, NoTxn
  <2>2. CASE ~Plan
    BY <1>3, <2>2 DEF Resolve, PlanFails, PlanUnresolved, PlanCrashes, PlanEmpty, PlanDeclined
  <2>3. QED
    BY <2>1, <2>2
<1>4. CASE Execute
  BY <1>4 DEF Execute, Run, RunRefused, MarkOpens, Flags, Mark, MarkEnds, Restore, RestoreEnds
<1>5. CASE Failure \/ Return
  BY <1>5 DEF Failure, FillFails, RunFails, FlagsFail, MarkFails, RestoreFails, Crash, Return, Quit,
              Close, NoTxn
<1>6. CASE External \/ UNCHANGED vars
  BY <1>6 DEF External, vars
<1>7. QED
  BY <1>1, <1>2, <1>3, <1>4, <1>5, <1>6 DEF Next, Client

(* Until the rpm transaction the rpm database stays as it was read.        *)
LEMMA CurrentSync ==
  ASSUME JournalInv, CurrentInv, Sync
  PROVE  /\ pc' = "record" => ctx'.cookie = inst'
         /\ pc' = "delta" => scan'.cookie = inst'
         /\ pc' = AfterSync => ctx'.cookie = inst'
<1> USE DEF rpmdb, flagdb, db, locals
<1>0. TypeOK /\ ScanInv /\ AfterSync \in {"ok", "plan", "run", "flags"} /\ inst' = inst
  BY AfterSyncType
     DEF JournalInv, Sync, Open, Update, Count, Fill, FillAborts, Record, AddDelta, RollBack
<1>1. CASE Open \/ Count \/ FillAborts \/ RollBack
  BY <1>0, <1>1 DEF Open, Count, FillAborts, RollBack
<1>2. CASE Update
  BY <1>0, <1>2 DEF Update, CookieNow
<1>3. CASE Fill
  <2>1. scan'.cookie = scan.cookie /\ ctx'.cookie = ctx.cookie /\ scan.cookie = inst
    BY <1>0, <1>3 DEF Fill, Scan, Context, ScanInv
  <2>2. scan.then \in {"record", "synced"} => ctx.cookie = inst
    BY <1>0, <1>3 DEF Fill, ScanInv
  <2>3. pc' = IF scan.then = "synced" THEN AfterSync ELSE scan.then
    BY <1>3 DEF Fill
  <2>4. QED
    BY <1>0, <2>1, <2>2, <2>3 DEF Scan
<1>4. CASE Record
  BY <1>0, <1>4 DEF Record, CurrentInv, Context
<1>5. CASE AddDelta
  BY <1>0, <1>5 DEF AddDelta, CurrentInv
<1>6. QED
  BY <1>1, <1>2, <1>3, <1>4, <1>5 DEF Sync

LEMMA CurrentStep ==
  ASSUME JournalInv, JournalInv', StageInv, StageInv', CurrentInv, Undisturbed, [Next]_vars
  PROVE  CurrentInv'
<1> USE DEF rpmdb, flagdb, db, locals
<1> DEFINE Known == \/ pc \in {"plan", "run", "flags", "restore", "nothing"}
                    \/ pc \in {"mark", "ok"} /\ cmd.op \in HistoryOps \cup {"alter"}
<1>0. TypeOK /\ ScanInv /\ AfterSync \in {"ok", "plan", "run", "flags"} /\ (Known => Current)
  BY AfterSyncType DEF JournalInv, CurrentInv
<1>1. ~disk'.open /\ 0 < nextInst'
  BY <1>0, ClosedStep DEF CurrentInv
<1>2. SUFFICES ASSUME TRUE
      PROVE  /\ pc' = "record" => ctx'.cookie = inst'
             /\ pc' = "delta" => scan'.cookie = inst'
             /\ Known' => Current'
  BY <1>1 DEF CurrentInv
<1>3. CASE User
  <2>1. pc' \in {"open", "addtrans"}
    BY <1>3 DEF User, BeginAlter, BeginSingle, BeginMark, BeginInit, BeginHistory, Begin
  <2>2. QED
    BY <2>1
<1>4. CASE Sync
  <2>1. Known' => pc' \in {"plan", "run", "flags"} /\ pc' = AfterSync
    <3>1. pc' \in {"count", "update", "fill", "record", "delta", "error"} \/ pc' = AfterSync
      BY <1>0, <1>4
         DEF Sync, Open, Update, Count, Fill, FillAborts, Record, AddDelta, RollBack, Scan
    <3>2. pc' = "ok" /\ pc' = AfterSync => stage # "after" /\ cmd'.op = "init"
      BY <1>4
         DEF AfterSync, Sync, Open, Update, Count, Fill, FillAborts, Record, AddDelta, RollBack
    <3>3. QED
      BY <1>0, <3>1, <3>2 DEF HistoryOps
  <2>2. pc' \in {"plan", "run", "flags"} => Synced'
    BY DEF JournalInv, ScanInv
  <2>3. QED
    BY <1>4, <2>1, <2>2, CurrentSync DEF Current
<1>5. ASSUME Known, UNCHANGED <<trans, ctx, inst>>, pc' \notin {"record", "delta"}
      PROVE  /\ pc' = "record" => ctx'.cookie = inst'
             /\ pc' = "delta" => scan'.cookie = inst'
             /\ Known' => Current'
  BY <1>0, <1>5 DEF Current, Synced, Last
<1>6. CASE Resolve
  <2>1. pc = "plan"
    BY <1>6 DEF Resolve, PlanFails, PlanUnresolved, PlanCrashes, PlanEmpty, Plan, PlanDeclined
  <2>2. CASE Plan
    BY <2>2 DEF Plan
  <2>3. CASE ~Plan
    BY <1>5, <1>6, <2>1, <2>3
       DEF Resolve, PlanFails, PlanUnresolved, PlanCrashes, PlanEmpty, PlanDeclined
  <2>4. QED
    BY <2>2, <2>3
<1>7. CASE Run \/ RunRefused
  BY <1>7 DEF Run, RunRefused
<1>8. CASE MarkOpens
  <2>1. pc' \in {"mark", "error"} /\ cmd'.op \in {"mark", "single"}
    BY <1>0, <1>8 DEF MarkOpens, ScanInv
  <2>2. QED
    BY <2>1 DEF HistoryOps
<1>9. CASE Flags
  <2>1. Synced' /\ ctx'.cookie = ctx.cookie /\ inst' = inst /\ Current
    <3>1. cmd'.op = cmd.op /\ cmd.op \in HistoryOps \cup {"alter"} /\ pc' \in {"mark", "restore"}
      BY <1>9 DEF Flags, StageInv
    <3>2. Synced'
      BY <3>1 DEF JournalInv, ScanInv, HistoryOps
    <3>3. QED
      BY <1>0, <1>9, <3>2 DEF Flags, Context
  <2>2. pc' \in {"mark", "restore"}
    BY <1>9 DEF Flags
  <2>3. QED
    BY <2>1, <2>2 DEF Current
<1>10. ASSUME NEW n \in Names, Mark(n)
       PROVE  /\ pc' = "record" => ctx'.cookie = inst'
              /\ pc' = "delta" => scan'.cookie = inst'
              /\ Known' => Current'
  <2>1. pc = "mark" /\ pc' \in {"mark", "error"} /\ UNCHANGED <<trans, ctx, inst, cmd>>
    BY <1>10 DEF Mark
  <2>2. QED
    BY <1>0, <2>1 DEF Current, Synced, Last
<1>11. CASE Restore \/ RestoreEnds
  BY <1>5, <1>11 DEF Restore, RestoreEnds
<1>12. CASE MarkEnds
  <2>1. pc = "mark" /\ pc' \in {"restore", "ok"} /\ UNCHANGED <<trans, ctx, inst, cmd>>
    BY <1>12 DEF MarkEnds
  <2>2. pc' = "restore" => cmd.op \in HistoryOps
    BY <1>12, <2>1 DEF MarkEnds
  <2>3. Known' => Known
    BY <2>1, <2>2
  <2>4. QED
    BY <1>0, <2>1, <2>3 DEF Current, Synced, Last
<1>13. CASE Failure \/ Return
  <2>1. pc' \in {"error", "idle"}
    BY <1>13 DEF Failure, FillFails, RunFails, FlagsFail, MarkFails, RestoreFails, Crash, Return, Quit
  <2>2. QED
    BY <2>1
<1>14. CASE External
  <2>1. pc' = "idle"
    BY <1>14, ExternalIsIdle DEF locals
  <2>2. QED
    BY <2>1
<1>15. CASE UNCHANGED vars
  <2>1. UNCHANGED <<trans, ctx, inst, cmd, pc, scan>>
    BY <1>15 DEF vars
  <2>2. QED
    BY <1>0, <2>1 DEF CurrentInv, Current, Synced, Last
<1>16. QED
  BY <1>3, <1>4, <1>6, <1>7, <1>8, <1>9, <1>10, <1>11, <1>12, <1>13, <1>14, <1>15
     DEF Next, Client, Execute
-----------------------------------------------------------------------------
(***************************************************************************)
(* Flags that a step writes.                                               *)
(***************************************************************************)
LEMMA FlagWritten ==
  ASSUME TypeOK, ctx.trans = Last, NEW n \in Names, NEW v \in Value,
         flags' = Append(flags, NewFlag(n, v))
  PROVE  /\ FlagAt(flags', Last, n) = v
         /\ \A m, t \in Nat : t < Last => FlagAt(flags', t, m) = FlagAt(flags, t, m)
         /\ \A t \in Nat : \A m : m # n => FlagAt(flags', t, m) = FlagAt(flags, t, m)
<1>1. NewFlag(n, v) \in FlagRow /\ NewFlag(n, v).trans = Last /\ NewFlag(n, v).name = n
        /\ NewFlag(n, v).value = v /\ Last \in Nat
  BY LastType DEF NewFlag, FlagRow
<1>2. FlagAt(flags', Last, n) = v
  <2>1. NewFlag(n, v).trans <= Last
    BY <1>1
  <2> HIDE DEF NewFlag
  <2>2. FlagAt(Append(flags, NewFlag(n, v)), Last, NewFlag(n, v).name) = NewFlag(n, v).value
    BY <1>1, <2>1, FlagHere
  <2>3. QED
    BY <1>1, <2>2
<1>3. ASSUME NEW t \in Nat, NEW m, t < Last \/ m # n
      PROVE  FlagAt(flags', t, m) = FlagAt(flags, t, m)
  <2>1. t < NewFlag(n, v).trans \/ NewFlag(n, v).name # m
    BY <1>1, <1>3
  <2>2. QED
    BY <1>1, <2>1, FlagElsewhere
<1>4. QED
  BY <1>2, <1>3

LEMMA AlterStep ==
  ASSUME RefineInv, StageInv, StageInv', AlterInv, Undisturbed, [Next]_vars
  PROVE  AlterInv'
<1>0. TypeOK /\ AfterSync \in {"ok", "plan", "run", "flags"}
  BY AfterSyncType DEF RefineInv, JournalInv
<1>1. SUFFICES ASSUME cmd'.op = "alter", pc' \in {"mark", "ok"}
               PROVE  /\ \A n \in NewNames(cmd'.add, cmd'.rem) \ todo' :
                           FlagIn(Last, n)' = ValueFor(n)'
                      /\ pc' = "ok" => todo' = {}
  BY DEF AlterInv
<1> USE DEF rpmdb, flagdb, db, locals
<1>2. CASE Flags
  BY <1>1, <1>2 DEF Flags
<1>3. ASSUME NEW n \in Names, Mark(n)
      PROVE  /\ \A m \in NewNames(cmd'.add, cmd'.rem) \ todo' : FlagIn(Last, m)' = ValueFor(m)'
             /\ pc' = "ok" => todo' = {}
  <2>1. /\ pc = "mark" /\ ctx.trans = Last /\ cmd' = cmd /\ trans' = trans /\ todo' = todo \ {n}
        /\ pc' = "mark"
    BY <1>1, <1>3 DEF Mark, RefineInv, FlagInv
  <2>2. \A m : ValueFor(m)' = ValueFor(m)
    BY <2>1 DEF ValueFor
  <2>3. \A m \in NewNames(cmd.add, cmd.rem) \ todo : FlagAt(flags, Last, m) = ValueFor(m)
    BY <1>1, <2>1 DEF AlterInv, FlagIn
  <2>4. CASE flags' = flags /\ FlagAt(flags, ctx.trans, n) = ValueFor(n)
    BY <2>1, <2>2, <2>3, <2>4 DEF FlagIn, Last
  <2>5. CASE flags' = Append(flags, NewFlag(n, ValueFor(n)))
    <3>1. ValueFor(n) \in Value
      BY <1>0, ValueForType
    <3>2. /\ FlagAt(flags', Last, n) = ValueFor(n) /\ Last \in Nat
          /\ \A t \in Nat : \A m : m # n => FlagAt(flags', t, m) = FlagAt(flags, t, m)
      BY <1>0, <2>1, <2>5, <3>1, FlagWritten, LastType
    <3>3. QED
      BY <2>1, <2>2, <2>3, <3>2 DEF FlagIn, Last
  <2>6. QED
    BY <1>3, <2>1, <2>4, <2>5 DEF Mark, SetAutoFlag
<1>4. CASE MarkEnds
  <2>1. pc = "mark" /\ todo = {} /\ cmd.op = "alter" /\ UNCHANGED <<cmd, flags, trans, todo>>
    BY <1>1, <1>4 DEF MarkEnds
  <2>2. QED
    BY <2>1 DEF AlterInv, FlagIn, Last, ValueFor
<1>5. CASE UNCHANGED vars
  BY <1>1, <1>5 DEF vars, AlterInv, FlagIn, Last, ValueFor
<1>6. CASE MarkOpens
  BY <1>1, <1>6 DEF MarkOpens, RefineInv, JournalInv, ScanInv
<1>7. CASE Sync
  <2>1. /\ pc \in {"open", "count", "fill", "record", "update", "delta"}
        /\ pc' \in {"count", "update", "fill", "record", "delta", "error"} \/ pc' = AfterSync
        /\ cmd' = cmd /\ stage' = stage
    BY <1>0, <1>7 DEF Sync, Open, Update, Count, Fill, FillAborts, Record, AddDelta, RollBack, Scan
  <2>2. pc' = "ok" /\ pc' = AfterSync => cmd.op = "init"
    BY <1>0, <2>1 DEF AfterSync, StageInv, SyncSteps
  <2>3. QED
    BY <1>0, <1>1, <2>1, <2>2
<1>8. CASE User \/ Resolve \/ Failure \/ Return \/ Run \/ RunRefused
  <2>1. pc' \notin {"mark", "ok"}
    <3>1. CASE User
      BY <3>1 DEF User, BeginAlter, BeginSingle, BeginMark, BeginInit, BeginHistory, Begin
    <3>2. CASE Resolve
      BY <3>2 DEF Resolve, PlanFails, PlanUnresolved, PlanCrashes, PlanEmpty, Plan, PlanDeclined
    <3>3. CASE Failure \/ Return
      BY <3>3 DEF Failure, FillFails, RunFails, FlagsFail, MarkFails, RestoreFails, Crash, Return, Quit
    <3>4. CASE Run \/ RunRefused
      BY <3>4 DEF Run, RunRefused
    <3>5. QED
      BY <1>8, <3>1, <3>2, <3>3, <3>4
  <2>2. QED
    BY <1>1, <2>1
<1>9. CASE External
  BY <1>1, <1>9, ExternalIsIdle
<1>10. CASE Restore \/ RestoreEnds
  <2>1. pc = "restore" /\ cmd' = cmd
    BY <1>10 DEF Restore, RestoreEnds
  <2>2. QED
    BY <1>1, <2>1 DEF StageInv, HistoryOps
<1>11. QED
  BY <1>2, <1>3, <1>4, <1>5, <1>6, <1>7, <1>8, <1>9, <1>10 DEF Next, Client, Execute
-----------------------------------------------------------------------------
(***************************************************************************)
(* What is kept from step to step of a command.                            *)
(***************************************************************************)
LEMMA DbGrows ==
  ASSUME RefineInv, ~disk.open, Undisturbed, [Next]_vars
  PROVE  \/ trans' = trans /\ flags' = flags
         \/ flags' = flags /\ \E x \in Transaction : trans' = Append(trans, x)
         \/ trans' = trans /\ \E n \in Names, v \in Value :
              flags' = Append(flags, [trans |-> Last, name |-> n, value |-> v])
<1>1. DbMoves
  BY Moves DEF Undisturbed
<1>2. QED
  BY <1>1 DEF DbMoves, KeepsDb, AddsTrans, AddsFlag, Close

LEMMA LastGrows ==
  ASSUME RefineInv, ~disk.open, Undisturbed, [Next]_vars
  PROVE  Last \in Nat /\ Last' \in Nat /\ Last <= Last' /\ Last' <= Last + 1
<1>1. Last \in Nat
  BY LastType DEF RefineInv, JournalInv
<1>2. trans \in Seq(Transaction)
  BY DEF RefineInv, JournalInv
<1>3. CASE trans' = trans
  BY <1>1, <1>3 DEF Last
<1>4. CASE \E x \in Transaction : trans' = Append(trans, x)
  BY <1>1, <1>2, <1>4, AppendProperties DEF Last
<1>5. QED
  BY <1>3, <1>4, DbGrows

(* A state of the journal stays what it is.                                *)
LEMMA StateKept ==
  ASSUME RefineInv, RefineInv', ~disk.open, Undisturbed, [Next]_vars, NEW t \in 1..Last
  PROVE  StateAt(t)' = StateAt(t)
<1>1. /\ trans \in Seq(Transaction) /\ trans' \in Seq(Transaction)
      /\ Faithful(trans, rpms) /\ Faithful(trans', rpms')
  BY DEF RefineInv, JournalInv, DbInv, JournalFaithful
<1>2. CASE trans' = trans
  BY <1>2 DEF StateAt
<1>3. CASE \E x \in Transaction : trans' = Append(trans, x)
  <2>1. PICK x \in Transaction : trans' = Append(trans, x)
    BY <1>3
  <2>2. trans'[t] = trans[t] /\ t \in DOMAIN trans /\ t \in DOMAIN trans'
    BY <1>1, <2>1, AppendProperties DEF Last
  <2>3. QED
    BY <1>1, <2>2 DEF Faithful, StateAt
<1>4. QED
  BY <1>2, <1>3, DbGrows

(* The arguments of a command stay what they are; only its plan is added.  *)
LEMMA CommandKept ==
  ASSUME TypeOK, [Next]_vars, ~User, pc' # "idle"
  PROVE  /\ cmd'.op = cmd.op /\ cmd'.from = cmd.from /\ cmd'.to = cmd.to /\ cmd'.pool = cmd.pool
         /\ (Plan \/ cmd' = cmd)
         /\ (Plan \/ Run \/ stage' = stage)
         /\ (Run \/ RunFails \/ External \/ inst' = inst)
<1> USE DEF rpmdb, flagdb, db, locals
<1>1. CASE Plan
  BY <1>1 DEF Plan, Command
<1>2. CASE Sync
  BY <1>2 DEF Sync, Open, Update, Count, Fill, FillAborts, Record, AddDelta, RollBack
<1>3. CASE Resolve /\ ~Plan
  BY <1>3 DEF Resolve, PlanFails, PlanUnresolved, PlanCrashes, PlanEmpty, PlanDeclined
<1>4. CASE Execute
  BY <1>4 DEF Execute, Run, RunRefused, MarkOpens, Flags, Mark, MarkEnds, Restore, RestoreEnds
<1>5. CASE Failure \/ Return
  BY <1>5 DEF Failure, FillFails, RunFails, FlagsFail, MarkFails, RestoreFails, Crash, Return, Quit
<1>6. CASE External \/ UNCHANGED vars
  BY <1>6 DEF External, vars
<1>7. QED
  BY <1>1, <1>2, <1>3, <1>4, <1>5, <1>6 DEF Next, Client

LEMMA TableStep ==
  ASSUME RefineInv, NamesInTable, ~disk.open, [Next]_vars
  PROVE  NamesInTable' /\ NamesKnown \subseteq NamesKnown'
<1>0. TypeOK
  BY DEF RefineInv, JournalInv
<1> USE DEF rpmdb, flagdb, db, locals
<1>1. ASSUME flags' = flags, names' = names
      PROVE  NamesInTable' /\ NamesKnown \subseteq NamesKnown'
  BY <1>1 DEF NamesInTable, NamesKnown
<1>2. ASSUME NEW n \in Names, names' = Append(names, n)
      PROVE  NamesKnown' = NamesKnown \cup {n}
  <2>1. /\ DOMAIN names' = 1..(Len(names) + 1) /\ DOMAIN names = 1..Len(names)
        /\ names'[Len(names) + 1] = n /\ \A i \in 1..Len(names) : names'[i] = names[i]
        /\ Len(names) \in Nat
    BY <1>0, <1>2, AppendProperties, LenProperties
  <2>2. \A i \in 1..(Len(names) + 1) : i = Len(names) + 1 \/ i \in 1..Len(names)
    BY <2>1
  <2>3. QED
    BY <2>1, <2>2 DEF NamesKnown
<1>3. ASSUME NEW row \in FlagRow, flags' = Append(flags, row),
             row.name \in NamesKnown', NamesKnown \subseteq NamesKnown'
      PROVE  NamesInTable'
  <2>1. \A i \in DOMAIN flags' : flags'[i] = row \/ (i \in DOMAIN flags /\ flags'[i] = flags[i])
    BY <1>0, <1>3, AppendProperties
  <2>2. QED
    BY <1>3, <2>1 DEF NamesInTable
<1>4. ASSUME NEW n \in Names, NEW v \in Value, NEW j \in Nat, SetAutoFlag(n, v, j)
      PROVE  NamesInTable' /\ NamesKnown \subseteq NamesKnown'
  <2>1. NewFlag(n, v) \in FlagRow /\ NewFlag(n, v).name = n
    BY <1>0 DEF NewFlag, FlagRow, Context
  <2>2. NamesKnown \subseteq NamesKnown' /\ (j >= 4 => n \in NamesKnown')
    <3>1. names' = names \/ names' = Append(names, n)
      BY <1>4 DEF SetAutoFlag
    <3>2. CASE names' = Append(names, n)
      BY <1>2, <3>2
    <3>3. CASE names' = names
      <4>1. NamesKnown' = NamesKnown
        BY <3>3 DEF NamesKnown
      <4>2. CASE j >= 4 /\ n \notin NamesKnown
        <5>1. names' = Append(names, n)
          BY <1>4, <4>2 DEF SetAutoFlag
        <5>2. QED
          BY <1>2, <5>1
      <4>3. QED
        BY <4>1, <4>2
    <3>4. QED
      BY <3>1, <3>2, <3>3
  <2>3. CASE j >= 4
    BY <1>3, <1>4, <2>1, <2>2, <2>3 DEF SetAutoFlag
  <2>4. CASE ~(j >= 4)
    BY <1>4, <2>2, <2>4 DEF SetAutoFlag, NamesInTable
  <2>5. QED
    BY <2>2, <2>3, <2>4
<1>5. ASSUME NEW n \in Names, Mark(n) \/ MarkFails(n)
      PROVE  NamesInTable' /\ NamesKnown \subseteq NamesKnown'
  <2>1. ValueFor(n) \in Value
    BY <1>0, ValueForType
  <2>2. (flags' = flags /\ names' = names) \/ \E j \in Nat : SetAutoFlag(n, ValueFor(n), j)
    BY <1>5 DEF Mark, MarkFails
  <2>3. QED
    BY <1>1, <1>4, <2>1, <2>2
<1>6. CASE Restore
  <2>1. names' = names /\ NamesKnown' = NamesKnown
    BY <1>6 DEF Restore, NamesKnown
  <2>2. CASE flags' = flags
    BY <1>1, <2>1, <2>2
  <2>3. CASE flags' # flags
    <3>1. names[idx] \in Names /\ names[idx] \in NamesKnown
      BY <1>0, <1>6, ElementOfSeq DEF Restore, NamesKnown
    <3>2. flags' = Append(flags, NewFlag(names[idx], FlagAt(flags, RangeTo, names[idx])))
      BY <1>6, <2>3 DEF Restore
    <3>3. NewFlag(names[idx], FlagAt(flags, RangeTo, names[idx])) \in FlagRow
      BY <1>0, <3>1 DEF NewFlag, FlagRow, Context, FlagAt, Value
    <3>4. NewFlag(names[idx], FlagAt(flags, RangeTo, names[idx])).name = names[idx]
      BY DEF NewFlag
    <3>5. QED
      BY <1>3, <2>1, <3>1, <3>2, <3>3, <3>4
  <2>4. QED
    BY <2>2, <2>3
<1>7. CASE ~(Restore \/ \E n \in Names : Mark(n) \/ MarkFails(n))
  <2>1. CASE User \/ Sync
    BY <1>1, <2>1
       DEF User, BeginAlter, BeginSingle, BeginMark, BeginInit, BeginHistory, Begin, Sync, Open,
           Update, Count, Fill, FillAborts, Record, AddDelta, RollBack, Close
  <2>2. CASE Resolve
    BY <1>1, <2>2 DEF Resolve, PlanFails, PlanUnresolved, PlanCrashes, PlanEmpty, Plan, PlanDeclined,
                      Close
  <2>3. CASE Execute
    BY <1>1, <1>7, <2>3 DEF Execute, Run, RunRefused, MarkOpens, Flags, MarkEnds, RestoreEnds
  <2>4. CASE Failure \/ Return
    BY <1>1, <1>7, <2>4 DEF Failure, FillFails, RunFails, FlagsFail, RestoreFails, Crash, Return,
                            Quit, Close
  <2>5. CASE External \/ UNCHANGED vars
    BY <1>1, <2>5 DEF External, vars
  <2>6. QED
    BY <2>1, <2>2, <2>3, <2>4, <2>5 DEF Next, Client
<1>8. QED
  BY <1>5, <1>6, <1>7

LEMMA ArgsStep ==
  ASSUME RefineInv, StageInv, StageInv', ArgsInv, ~disk.open, Undisturbed, [Next]_vars
  PROVE  ArgsInv'
<1>0. TypeOK /\ Last \in Nat /\ Last' \in Nat /\ Last <= Last'
  BY LastGrows DEF RefineInv, JournalInv
<1>1. CASE User
  <2>1. UNCHANGED <<inst, trans>>
    BY <1>1 DEF User, BeginAlter, BeginSingle, BeginMark, BeginInit, BeginHistory, Begin, rpmdb, db
  <2>2. CASE BeginHistory
    <3>1. PICK op \in HistoryOps, from \in 0..(Last + 1), to \in 0..(Last + 1) :
            /\ ValidArgs(op, from, to)
            /\ Begin([NoCmd EXCEPT !.op = op, !.from = from, !.to = to, !.pool = Installed(inst)],
                     "open", "resolve")
      BY <2>2 DEF BeginHistory
    <3>2. cmd'.op = op /\ cmd'.from = from /\ cmd'.to = to /\ cmd'.pool = Installed(inst)
      BY <3>1 DEF Begin, NoCmd
    <3>3. QED
      BY <2>1, <3>1, <3>2 DEF ArgsInv, ValidArgs, HistoryOps, Last
  <2>3. CASE ~BeginHistory
    <3>1. cmd'.op \notin HistoryOps
      BY <1>1, <2>3 DEF User, BeginAlter, BeginSingle, BeginMark, BeginInit, Begin, NoCmd, HistoryOps
    <3>2. QED
      BY <3>1 DEF ArgsInv
  <2>4. QED
    BY <2>2, <2>3
<1>2. CASE pc' = "idle"
  BY <1>2 DEF StageInv, ArgsInv, HistoryOps
<1>3. CASE ~User /\ pc' # "idle"
  <2>1. /\ cmd'.op = cmd.op /\ cmd'.from = cmd.from /\ cmd'.to = cmd.to /\ cmd'.pool = cmd.pool
        /\ (Plan \/ Run \/ stage' = stage)
        /\ (Run \/ RunFails \/ External \/ inst' = inst)
    BY <1>0, <1>3, CommandKept
  <2>2. stage' = "resolve" => stage = "resolve"
    BY <2>1 DEF Plan, Run
  <2>3. ASSUME cmd.op \in HistoryOps, pc' \in SyncSteps \cup {"plan", "run"}, stage' # "after"
        PROVE  cmd.pool = Installed(inst) /\ inst' = inst
    <3>1. ~Run /\ ~RunFails
      BY <2>3 DEF Run, RunFails, SyncSteps
    <3>2. ~External
      BY <1>3, <2>3, ExternalIsIdle
    <3>3. pc \in SyncSteps \cup {"plan", "run"}
      <4>1. pc = "idle" => cmd.op = "none"
        BY DEF StageInv
      <4>2. pc # "idle"
        BY <2>3, <4>1 DEF HistoryOps
      <4>3. pc # "addtrans"
        BY <2>3 DEF RefineInv, JournalInv, ScanInv, HistoryOps
      <4>4. pc \notin Finished
        BY <1>3, <2>3, <4>2
           DEF Next, Client, Sync, Open, Update, Count, Fill, FillAborts, Record, AddDelta, RollBack,
               Resolve, PlanFails, PlanUnresolved, PlanCrashes, PlanEmpty, Plan, PlanDeclined, Execute,
               Run, RunRefused, MarkOpens, Flags, Mark, MarkEnds, Restore, RestoreEnds, Return, Quit,
               Failure, FillFails, RunFails, FlagsFail, MarkFails, RestoreFails, Crash, External,
               vars, Finished, SyncSteps
      <4>5. pc \notin {"flags", "mark", "restore"}
        BY <1>3, <2>3, <3>2
           DEF Next, Client, Sync, Open, Update, Count, Fill, FillAborts, Record, AddDelta, RollBack,
               Resolve, PlanFails, PlanUnresolved, PlanCrashes, PlanEmpty, Plan, PlanDeclined, Execute,
               Run, RunRefused, MarkOpens, Flags, Mark, MarkEnds, Restore, RestoreEnds, Return, Quit,
               Failure, FillFails, RunFails, FlagsFail, MarkFails, RestoreFails, Crash,
               vars, Finished, SyncSteps
      <4>6. pc \in Steps \cup Finished \cup {"idle"}
        BY <1>0
      <4>7. QED
        BY <4>2, <4>3, <4>4, <4>5, <4>6 DEF Steps, SyncSteps
    <3>4. stage # "after"
      <4>1. Plan => stage = "resolve"
        BY DEF Plan, StageInv
      <4>2. QED
        BY <2>1, <2>3, <3>1, <4>1
    <3>5. QED
      BY <2>1, <2>3, <3>1, <3>2, <3>3, <3>4 DEF ArgsInv
  <2>4. CASE cmd.op \in HistoryOps
    <3>1. /\ cmd.op = "rollback" => 0 < cmd'.to
          /\ cmd.op # "rollback" => 1 < cmd'.from /\ cmd'.from <= cmd'.to
          /\ cmd.op # "rollback" /\ stage' = "resolve" => cmd.from <= Last + 1
      BY <2>1, <2>2, <2>4 DEF ArgsInv
    <3>2. cmd.from \in Nat
      BY <1>0 DEF Command
    <3>3. cmd.op # "rollback" /\ stage' = "resolve" => cmd'.from <= Last' + 1
      BY <1>0, <2>1, <3>1, <3>2
    <3>4. pc' \in SyncSteps \cup {"plan", "run"} /\ stage' # "after" => cmd'.pool = Installed(inst')
      BY <2>1, <2>3, <2>4
    <3>5. QED
      BY <2>1, <3>1, <3>3, <3>4 DEF ArgsInv, SyncSteps, HistoryOps
  <2>5. CASE cmd.op \notin HistoryOps
    BY <2>1, <2>5 DEF ArgsInv, HistoryOps
  <2>6. QED
    BY <2>4, <2>5
<1>4. QED
  BY <1>1, <1>2, <1>3
-----------------------------------------------------------------------------
(***************************************************************************)
(* A plan that is empty.                                                   *)
(***************************************************************************)
LEMMA NoRow ==
  ASSUME TypeOK, NamesInTable, NEW n, n \notin NamesKnown, NEW t
  PROVE  FlagAt(flags, t, n) = 0
  BY DEF NamesInTable, FlagAt, FlagRows

(* A transaction beyond the last one is the last one.                      *)
LEMMA BeyondLast ==
  ASSUME RefineInv, NEW t \in Nat, Last <= t
  PROVE  StateAt(t) = StateAt(Last) /\ \A n : FlagIn(t, n) = FlagIn(Last, n)
<1>1. trans \in Seq(Transaction) /\ flags \in Seq(FlagRow) /\ Owned(flags, trans) /\ Last \in Nat
  BY LastType DEF RefineInv, JournalInv, FlagInv
<1>2. DOMAIN trans = 1..Last
  BY <1>1 DEF Last
<1>3. BaselinesTo(trans, t) = BaselinesTo(trans, Last)
  BY <1>1, <1>2 DEF BaselinesTo
<1>4. \A i \in DOMAIN trans : i <= t <=> i <= Last
  BY <1>1, <1>2
<1>5. StateAt(t) = StateAt(Last)
  BY <1>3, <1>4 DEF StateAt, Replay
<1>6. \A n : FlagIn(t, n) = FlagIn(Last, n)
  BY <1>1, FlagInherited DEF FlagIn, Last
<1>7. QED
  BY <1>5, <1>6

(* What TDNFHistoryResolve compares, in the terms of the journal.          *)
LEMMA PlanReads ==
  ASSUME RefineInv, StageInv, CurrentInv, ArgsInv, pc = "plan"
  PROVE  /\ cmd.op \in HistoryOps /\ ctx.trans = Last /\ 0 < Last
         /\ cmd.pool = Installed(inst) /\ StateAt(Last) = Installed(inst)
         /\ PackageDelta = IF cmd.op = "rollback" THEN Diff(StateAt(Last), StateAt(RangeTo))
                           ELSE Diff(StateAt(RangeFrom), StateAt(RangeTo))
         /\ RangeFrom \in Nat /\ RangeTo \in Nat /\ 0 < RangeTo /\ 0 < RangeFrom
<1>1. cmd.op \in HistoryOps /\ stage = "resolve"
  BY DEF StageInv
<1>2. Current
  BY DEF CurrentInv
<1>3. TypeOK /\ ctx.trans = Last /\ trans # <<>> /\ Last \in Nat /\ 0 < Last
  BY <1>2, LastType DEF Current, Synced, RefineInv, JournalInv
<1>4. StateAt(Last) = Installed(trans[Last].cookie)
  <2>1. Last \in DOMAIN trans
    BY <1>3 DEF Last
  <2>2. QED
    BY <2>1 DEF StateAt, RefineInv, JournalInv, DbInv, JournalFaithful, Faithful
<1>5. ctx.installed = Installed(inst) /\ StateAt(Last) = Installed(inst)
  BY <1>2, <1>4 DEF Current, Synced
<1>6. cmd.pool = Installed(inst)
  BY <1>1 DEF ArgsInv
<1>7. PackageDelta = IF cmd.op = "rollback" THEN Diff(StateAt(Last), StateAt(RangeTo))
                     ELSE Diff(StateAt(RangeFrom), StateAt(RangeTo))
  BY <1>5 DEF PackageDelta, RangeTo, DeltaRange, StateAt
<1>8. cmd.from \in Nat /\ cmd.to \in Nat
  BY <1>3 DEF Command
<1>9. RangeFrom \in Nat /\ RangeTo \in Nat /\ 0 < RangeTo /\ 0 < RangeFrom
  BY <1>1, <1>3, <1>8 DEF RangeFrom, RangeTo, ArgsInv, HistoryOps
<1>10. QED
  BY <1>1, <1>3, <1>5, <1>6, <1>7, <1>9

LEMMA EmptyPlan ==
  ASSUME RefineInv, StageInv, CurrentInv, ArgsInv, NamesInTable, PlanEmpty
  PROVE  NothingLeftToDo'
<1>1. /\ pc = "plan" /\ Unresolved = {} /\ NothingToAlter /\ FlagsToChange = {}
      /\ pc' = "nothing" /\ UNCHANGED <<inst, trans, flags, cmd>>
  BY DEF PlanEmpty, rpmdb, db, flagdb, locals
<1>2. /\ cmd.op \in HistoryOps /\ ctx.trans = Last /\ 0 < Last
      /\ cmd.pool = Installed(inst) /\ StateAt(Last) = Installed(inst)
      /\ PackageDelta = IF cmd.op = "rollback" THEN Diff(StateAt(Last), StateAt(RangeTo))
                        ELSE Diff(StateAt(RangeFrom), StateAt(RangeTo))
      /\ RangeFrom \in Nat /\ RangeTo \in Nat
  BY <1>1, PlanReads
<1>3. TypeOK /\ Last \in Nat /\ cmd.to \in Nat
  BY LastType DEF RefineInv, JournalInv, Command
<1>4. \A n : FlagIn(RangeFrom, n) # FlagIn(RangeTo, n) => FlagIn(Last, n) = FlagIn(RangeTo, n)
  <2>1. ASSUME NEW n \in NamesKnown, FlagIn(RangeFrom, n) # FlagIn(RangeTo, n)
        PROVE  FlagIn(Last, n) = FlagIn(RangeTo, n)
    BY <1>1, <1>2, <2>1 DEF FlagsToChange, FlagsDelta, FlagIn
  <2>2. ASSUME NEW n, n \notin NamesKnown PROVE FlagIn(RangeFrom, n) = FlagIn(RangeTo, n)
    BY <1>3, <2>2, NoRow DEF FlagIn
  <2>3. QED
    BY <2>1, <2>2
<1>5. /\ PackageDelta.added \subseteq PubKeys \cup Available
      /\ (PackageDelta.added \cap Available) \subseteq Installed(inst)
      /\ (PackageDelta.removed \ PubKeys) \cap Installed(inst) = {}
  BY <1>1, <1>2 DEF Unresolved, NothingToAlter, ToInstall, ToErase
<1>6. CASE cmd.op = "rollback"
  <2>1. RangeTo = cmd.to /\ RangeFrom = Last
    BY <1>2, <1>6 DEF RangeTo, RangeFrom
  <2>2. /\ PackageDelta.added = StateAt(cmd.to) \ Installed(inst)
        /\ PackageDelta.removed = Installed(inst) \ StateAt(cmd.to)
    BY <1>2, <1>6, <2>1 DEF Diff
  <2>3. Installed(inst) \ PubKeys = StateAt(cmd.to) \ PubKeys
    BY <1>5, <2>2
  <2>4. \A n \in Names : FlagIn(Last, n) = FlagIn(cmd.to, n)
    BY <1>4, <2>1
  <2>5. QED
    BY <1>1, <1>6, <2>3, <2>4 DEF NothingLeftToDo, StateAt, FlagIn, Last
<1>7. CASE cmd.op # "rollback"
  <2> DEFINE End == IF cmd.to < Last THEN cmd.to ELSE Last
  <2>1. StateAt(End) = StateAt(cmd.to) /\ \A n : FlagIn(End, n) = FlagIn(cmd.to, n)
    <3>1. CASE cmd.to < Last
      BY <3>1
    <3>2. CASE ~(cmd.to < Last)
      BY <1>3, <3>2, BeyondLast
    <3>3. QED
      BY <3>1, <3>2
  <2> HIDE DEF End
  <2>2. \/ cmd.op = "undo" /\ RangeFrom = cmd.to /\ RangeTo = cmd.from - 1
        \/ cmd.op = "redo" /\ RangeFrom = cmd.from - 1 /\ RangeTo = cmd.to
    BY <1>2, <1>7 DEF RangeFrom, RangeTo, HistoryOps
  <2> DEFINE Goes == IF cmd.op = "undo" THEN cmd.from - 1 ELSE End
             Gone == Diff(StateAt(cmd.from - 1), StateAt(End))
  <2>3. StateAt(Goes) = StateAt(RangeTo) /\ \A n : FlagIn(Goes, n) = FlagIn(RangeTo, n)
    BY <2>1, <2>2
  <2>4. /\ PackageDelta.added = StateAt(RangeTo) \ StateAt(RangeFrom)
        /\ PackageDelta.removed = StateAt(RangeFrom) \ StateAt(RangeTo)
    BY <1>2, <1>7 DEF Diff
  <2>5. Gone.added \cup Gone.removed = PackageDelta.added \cup PackageDelta.removed
    BY <2>1, <2>2, <2>4 DEF Diff
  <2>6. \A p \in (Gone.added \cup Gone.removed) \ PubKeys : p \in Installed(inst) <=> p \in StateAt(Goes)
    BY <1>5, <2>3, <2>4, <2>5
  <2>7. \A n \in Names : FlagIn(cmd.from - 1, n) # FlagIn(End, n) => FlagIn(Last, n) = FlagIn(Goes, n)
    BY <1>4, <2>1, <2>2, <2>3
  <2>8. Before' = Last /\ RangeEnd' = End /\ Target' = Goes
    BY <1>1 DEF Before, RangeEnd, Target, End, Last
  <2>9. StateAt(RangeEnd)' = StateAt(End) /\ StateAt(Target)' = StateAt(Goes)
          /\ StateAt(cmd.from - 1)' = StateAt(cmd.from - 1)
    BY <1>1, <2>8 DEF StateAt
  <2>10. ChangedPkgs' = (Gone.added \cup Gone.removed) \ PubKeys
    BY <2>9 DEF ChangedPkgs, Changed
  <2>11. QED
    BY <1>1, <1>7, <2>6, <2>7, <2>8, <2>9, <2>10 DEF NothingLeftToDo, FlagIn, Last
<1>8. QED
  BY <1>6, <1>7

LEMMA NothingStep ==
  ASSUME RefineInv, StageInv, CurrentInv, ArgsInv, NamesInTable, NothingLeftToDo, Undisturbed,
         [Next]_vars
  PROVE  NothingLeftToDo'
<1>1. CASE PlanEmpty
  BY <1>1, EmptyPlan
<1>2. CASE UNCHANGED vars
  BY <1>2 DEF vars, NothingLeftToDo, StateAt, FlagIn, Last, ChangedPkgs, Changed, RangeEnd, Target,
              Before
<1>3. CASE ~PlanEmpty /\ ~UNCHANGED vars
  <2>1. AfterSync \in {"ok", "plan", "run", "flags"}
    BY AfterSyncType DEF RefineInv, JournalInv
  <2>2. CASE User \/ Sync
    BY <2>1, <2>2
       DEF User, BeginAlter, BeginSingle, BeginMark, BeginInit, BeginHistory, Begin, Sync, Open,
           Update, Count, Fill, FillAborts, Record, AddDelta, RollBack, Scan, RefineInv, JournalInv,
           NothingLeftToDo
  <2>3. CASE Resolve \/ Execute
    BY <1>3, <2>3
       DEF Resolve, PlanFails, PlanUnresolved, PlanCrashes, Plan, PlanDeclined, Execute, Run,
           RunRefused, MarkOpens, Flags, Mark, MarkEnds, Restore, RestoreEnds, NothingLeftToDo
  <2>4. CASE Failure \/ Return
    BY <2>4 DEF Failure, FillFails, RunFails, FlagsFail, MarkFails, RestoreFails, Crash, Return,
                Quit, NothingLeftToDo
  <2>5. CASE External
    BY <2>5, ExternalIsIdle DEF NothingLeftToDo
  <2>6. QED
    BY <1>3, <2>2, <2>3, <2>4, <2>5 DEF Next, Client
<1>4. QED
  BY <1>1, <1>2, <1>3
-----------------------------------------------------------------------------
(***************************************************************************)
(* The plan of a history command.                                          *)
(***************************************************************************)
LEMMA PlanMade ==
  ASSUME RefineInv, StageInv, CurrentInv, ArgsInv, Plan
  PROVE  PlanInv' /\ pc' = "open" /\ stage' = "before" /\ trans' = trans /\ flags' = flags
           /\ inst' = inst
<1>1. /\ pc = "plan" /\ Unresolved = {} /\ ~disk.open
      /\ (NothingToAlter => FlagsToChange # {})
      /\ pc' = "open" /\ stage' = "before" /\ trans' = trans /\ flags' = flags /\ inst' = inst
  BY DEF Plan, CurrentInv, Close, rpmdb
<1>2. PICK X \in IF NothingToAlter THEN {{}} ELSE Extras :
        cmd' = [cmd EXCEPT !.add = ToInstall \cup X, !.rem = ToErase \cup Replaced,
                           !.user = NamesOf(ToInstall)]
  BY DEF Plan
<1>3. /\ cmd.op \in HistoryOps /\ ctx.trans = Last /\ 0 < Last
      /\ cmd.pool = Installed(inst) /\ StateAt(Last) = Installed(inst)
      /\ PackageDelta = IF cmd.op = "rollback" THEN Diff(StateAt(Last), StateAt(RangeTo))
                        ELSE Diff(StateAt(RangeFrom), StateAt(RangeTo))
      /\ RangeFrom \in Nat /\ RangeTo \in Nat /\ 0 < RangeTo /\ 0 < RangeFrom
  BY <1>1, PlanReads
<1>4. TypeOK /\ Last \in Nat /\ cmd.to \in Nat /\ cmd.from \in Nat /\ stage = "resolve"
  BY <1>1, LastType DEF RefineInv, JournalInv, Command, StageInv
<1>5. /\ cmd'.op = cmd.op /\ cmd'.from = cmd.from /\ cmd'.to = cmd.to /\ cmd'.pool = cmd.pool
      /\ cmd'.add = ToInstall \cup X /\ cmd'.rem = ToErase \cup Replaced
      /\ cmd'.user = NamesOf(ToInstall)
  BY <1>2, <1>4 DEF Command
<1> DEFINE U(t) == IF t < Last THEN t ELSE Last
<1>6. \A t \in Nat : StateAt(U(t)) = StateAt(t)
  BY <1>4, BeyondLast
<1>7. Base' = Last /\ UpTo(cmd.to)' = U(cmd.to) /\ \A t : StateAt(t)' = StateAt(t)
  BY <1>1, <1>5 DEF Base, UpTo, Last, StateAt
<1>8. /\ Goal' = IF cmd.op = "undo" THEN cmd.from - 1 ELSE U(cmd.to)
      /\ Origin' = IF cmd.op = "rollback" THEN Last
                   ELSE IF cmd.op = "undo" THEN U(cmd.to) ELSE cmd.from - 1
  BY <1>5, <1>7 DEF Goal, Origin, UpTo
<1>9. StateAt(Goal)' = StateAt(RangeTo) /\ StateAt(Origin)' = StateAt(RangeFrom)
  <2>1. StateAt(Goal)' = StateAt(Goal') /\ StateAt(Origin)' = StateAt(Origin')
    BY <1>1 DEF StateAt
  <2> HIDE DEF U
  <2>2. QED
    BY <1>3, <1>4, <1>6, <1>8, <2>1 DEF RangeTo, RangeFrom, HistoryOps
<1>10. PackageDelta.added = Wished' /\ PackageDelta.removed = Unwished'
  <2>1. cmd.op = "rollback" => RangeFrom = Last
    BY <1>3 DEF RangeFrom
  <2>2. PackageDelta = Diff(StateAt(RangeFrom), StateAt(RangeTo))
    BY <1>3, <2>1
  <2>3. QED
    BY <1>9, <2>2 DEF Wished, Unwished, Diff
<1>11. ToInstall = Asked'
  BY <1>5, <1>10 DEF ToInstall, Asked
<1>12. /\ ToErase = (Unwished' \ PubKeys) \cap cmd.pool
       /\ Replaced = {q \in cmd.pool : NameOf[q] \in NamesOf(Asked')}
  BY <1>10, <1>11 DEF ToErase, Replaced
<1>13. cmd.op = "rollback" => cmd.to <= Last
  <2> SUFFICES ASSUME cmd.op = "rollback", ~(cmd.to <= Last) PROVE FALSE
    OBVIOUS
  <2>1. Last <= cmd.to /\ RangeTo = cmd.to /\ RangeFrom = Last
    BY <1>3, <1>4 DEF RangeTo, RangeFrom
  <2>2. StateAt(cmd.to) = StateAt(Last) /\ \A n : FlagIn(cmd.to, n) = FlagIn(Last, n)
    BY <1>4, <2>1, BeyondLast
  <2>3. PackageDelta.added = {} /\ PackageDelta.removed = {}
    BY <1>3, <2>1, <2>2 DEF Diff
  <2>4. NothingToAlter
    BY <2>3 DEF NothingToAlter, ToInstall, ToErase
  <2>5. FlagsToChange = {}
    BY <2>1, <2>2 DEF FlagsToChange, FlagsDelta, FlagIn
  <2>6. QED
    BY <1>1, <2>4, <2>5
<1>14. cmd.op # "rollback" => cmd.from - 1 <= Last
  BY <1>3, <1>4 DEF ArgsInv
<1>15. /\ cmd.op = "rollback" => X = {}
       /\ \A p \in X : NameOf[p] \notin NamesOf(ToInstall \cup cmd.pool)
  BY <1>2 DEF Extras, NamesOf
<1>16. Wished' \subseteq PubKeys \cup Available
  BY <1>1, <1>10 DEF Unresolved
<1>17. 0 < Base' /\ Base' <= Last' /\ cmd'.pool = StateAt(Base)'
  <2>1. StateAt(Base)' = StateAt(Last) /\ Last' = Last
    BY <1>1, <1>7 DEF StateAt, Last
  <2>2. QED
    BY <1>3, <1>4, <1>5, <1>7, <2>1
<1> HIDE DEF U
<1>18. PlanInv'
  BY <1>5, <1>7, <1>11, <1>12, <1>13, <1>14, <1>15, <1>16, <1>17 DEF PlanInv
<1>19. QED
  BY <1>1, <1>18

(* From then on the command, and the states it is about, are fixed.        *)
LEMMA PlanFixed ==
  ASSUME TypeOK, StageInv, StageInv', Undisturbed, [Next]_vars, ~Plan, Planned'
  PROVE  /\ Planned /\ ~User /\ pc' # "idle" /\ cmd' = cmd
         /\ Base' = Base /\ Goal' = Goal /\ Origin' = Origin /\ PulledIn' = PulledIn
<1>1. pc' # "idle" /\ cmd'.op \in HistoryOps /\ stage' # "resolve"
  BY DEF Planned, StageInv, HistoryOps
<1>2. ~User
  BY <1>1 DEF User, BeginAlter, BeginSingle, BeginMark, BeginInit, BeginHistory, Begin, NoCmd,
              HistoryOps
<1>3. cmd' = cmd /\ (Run \/ stage' = stage)
  BY <1>1, <1>2, CommandKept
<1>4. Run => stage = "before"
  BY DEF Run, StageInv
<1>5. Planned
  BY <1>1, <1>3, <1>4 DEF Planned
<1>6. Base' = Base
  <2> USE DEF rpmdb, flagdb, db, locals
  <2>1. CASE UNCHANGED vars
    BY <2>1 DEF vars, Base, Last
  <2>2. CASE Open
    <3>1. pc = "open" /\ pc' # "open" /\ saved' = Last
      BY <2>2 DEF Open
    <3>2. QED
      BY <3>1 DEF Base
  <2>3. CASE ~Open /\ ~UNCHANGED vars
    <3>1. Quit => pc' = "idle"
      BY DEF Quit
    <3>2. pc # "open" /\ pc' # "open" /\ saved' = saved
      <4>1. CASE Sync
        <5>1. AfterSync \in {"ok", "plan", "run", "flags"}
          BY AfterSyncType
        <5>2. QED
          BY <2>3, <4>1, <5>1
             DEF Sync, Update, Count, Fill, FillAborts, Record, AddDelta, RollBack, Scan
      <4>2. CASE Resolve
        BY <4>2 DEF Resolve, PlanFails, PlanUnresolved, PlanCrashes, PlanEmpty, PlanDeclined
      <4>3. CASE Execute
        BY <4>3 DEF Execute, Run, RunRefused, MarkOpens, Flags, Mark, MarkEnds, Restore, RestoreEnds
      <4>4. CASE Failure \/ Return
        BY <1>1, <3>1, <4>4 DEF Failure, FillFails, RunFails, FlagsFail, MarkFails, RestoreFails,
                                Crash, Return
      <4>5. CASE External
        BY <1>1, <4>5, ExternalIsIdle
      <4>6. QED
        BY <1>2, <2>3, <4>1, <4>2, <4>3, <4>4, <4>5 DEF Next, Client
    <3>3. QED
      BY <3>2 DEF Base
  <2>4. QED
    BY <2>1, <2>2, <2>3
<1>7. QED
  BY <1>1, <1>2, <1>3, <1>5, <1>6 DEF Goal, Origin, UpTo, PulledIn

LEMMA PlanRange ==
  ASSUME TypeOK, ArgsInv, PlanInv, Planned
  PROVE  Last \in Nat /\ Base \in 1..Last /\ Goal \in 1..Base /\ Origin \in 1..Base
<1>1. Last \in Nat /\ Base \in Nat /\ cmd.to \in Nat /\ cmd.from \in Nat
  BY LastType DEF Base, Command
<1>2. Base \in 1..Last
  BY <1>1 DEF PlanInv
<1>3. cmd.op = "rollback" => 0 < cmd.to
  BY DEF ArgsInv, Planned
<1>4. cmd.op # "rollback" => 1 < cmd.from /\ cmd.from <= cmd.to /\ cmd.from - 1 <= Base
  BY DEF ArgsInv, PlanInv, Planned
<1>5. UpTo(cmd.to) \in 1..Base
  BY <1>1, <1>2, <1>3, <1>4 DEF UpTo
<1>6. Goal \in 1..Base /\ Origin \in 1..Base
  BY <1>1, <1>2, <1>4, <1>5 DEF Goal, Origin, Planned, HistoryOps
<1>7. QED
  BY <1>1, <1>2, <1>6

(* The states that the plan is about, in the history of the next step.     *)
LEMMA StatesFixed ==
  ASSUME RefineInv, RefineInv', StageInv, StageInv', ArgsInv, PlanInv, ~disk.open, Undisturbed,
         [Next]_vars, ~Plan, Planned'
  PROVE  /\ Planned /\ cmd' = cmd /\ Base' = Base /\ Goal' = Goal /\ Origin' = Origin
         /\ StateAt(Base)' = StateAt(Base) /\ Wished' = Wished /\ Unwished' = Unwished
<1>1. TypeOK
  BY DEF RefineInv, JournalInv
<1>2. /\ Planned /\ cmd' = cmd
      /\ Base' = Base /\ Goal' = Goal /\ Origin' = Origin
  BY <1>1, PlanFixed
<1>3. Base \in 1..Last /\ Goal \in 1..Last /\ Origin \in 1..Last
  BY <1>1, <1>2, PlanRange
<1>4. StateAt(Base)' = StateAt(Base)
  BY <1>2, <1>3, StateKept DEF StateAt
<1>5. StateAt(Goal)' = StateAt(Goal)
  BY <1>2, <1>3, StateKept DEF StateAt
<1>6. StateAt(Origin)' = StateAt(Origin)
  BY <1>2, <1>3, StateKept DEF StateAt
<1>7. QED
  BY <1>2, <1>4, <1>5, <1>6 DEF Wished, Unwished

LEMMA PlanStep ==
  ASSUME RefineInv, RefineInv', StageInv, StageInv', CurrentInv, ArgsInv, PlanInv, Undisturbed,
         [Next]_vars
  PROVE  PlanInv'
<1>1. CASE Plan
  BY <1>1, PlanMade
<1>2. CASE ~Plan /\ Planned'
  <2>1. /\ Planned /\ cmd' = cmd /\ Base' = Base
        /\ StateAt(Base)' = StateAt(Base) /\ Wished' = Wished /\ Unwished' = Unwished
    BY <1>2, StatesFixed DEF CurrentInv
  <2>2. Asked' = Asked
    BY <2>1 DEF Asked
  <2>3. Base' <= Last'
    <3>1. Last \in Nat /\ Last' \in Nat /\ Last <= Last'
      BY LastGrows DEF CurrentInv
    <3>2. Base \in Nat /\ Base <= Last
      BY <2>1, <3>1 DEF PlanInv, Base, RefineInv, JournalInv
    <3>3. QED
      BY <2>1, <3>1, <3>2
  <2>4. QED
    BY <2>1, <2>2, <2>3 DEF PlanInv
<1>3. CASE ~Planned'
  BY <1>3 DEF PlanInv
<1>4. QED
  BY <1>1, <1>2, <1>3
-----------------------------------------------------------------------------
(***************************************************************************)
(* The command carries its plan out.                                       *)
(***************************************************************************)
LEMMA PlanIsCurrent ==
  ASSUME RefineInv, StageInv, CurrentInv, ArgsInv, Plan
  PROVE  ProgressInv'
<1>1. pc' = "open" /\ stage' = "before" /\ trans' = trans /\ inst' = inst
  BY PlanMade
<1>2. Current
  BY DEF Plan, CurrentInv
<1>3. trans'[Last'].cookie = inst' /\ Base' = Last'
  BY <1>1, <1>2 DEF Current, Synced, Base, Last
<1>4. QED
  BY <1>1, <1>3 DEF ProgressInv

LEMMA ProgressBefore ==
  ASSUME RefineInv, StageInv, StageInv', CurrentInv, ArgsInv, PlanInv, ProgressInv, Undisturbed,
         [Next]_vars, ~Plan, Planned', stage = "before"
  PROVE  ProgressInv'
<1> USE DEF rpmdb, flagdb, db, locals
<1>0. /\ TypeOK /\ Planned /\ ~User /\ pc' # "idle" /\ cmd' = cmd /\ Base' = Base
      /\ pc \in {"open", "count", "fill", "run"} \cup Finished
      /\ AfterSync = "run"
  BY PlanFixed DEF RefineInv, JournalInv, ProgressInv, AfterSync
<1>1. ASSUME pc' \in Finished, stage' = stage PROVE ProgressInv'
  BY <1>1 DEF ProgressInv, Finished
<1>2. CASE UNCHANGED vars
  BY <1>2 DEF vars, ProgressInv, Planned, Base, Last
<1>3. CASE Open
  <2>1. pc = "open" /\ trans # <<>> /\ trans[Last].cookie = inst
    <3>1. 0 < Last
      BY <1>0, <1>3, LastType DEF Open, PlanInv, Base
    <3>2. QED
      <4>1. pc = "open" /\ trans[Last].cookie = inst
        BY <1>0, <1>3 DEF Open, ProgressInv
      <4>2. trans # <<>>
        BY <3>1, EmptySeq DEF Last
      <4>3. QED
        BY <4>1, <4>2
  <2>2. pc' = "count" /\ scan'.then = "synced" /\ UNCHANGED <<inst, trans, stage>>
    BY <1>3, <2>1 DEF Open, NoScan
  <2>3. Base = Last
    BY <2>1 DEF Base
  <2>4. QED
    BY <1>0, <2>1, <2>2, <2>3 DEF ProgressInv, Last
<1>4. CASE Count
  <2>1. /\ pc = "count" /\ pc' = "fill" /\ scan'.then = scan.then
        /\ UNCHANGED <<inst, trans, stage>>
    BY <1>0, <1>4 DEF Count, Scan
  <2>2. QED
    BY <1>0, <2>1 DEF ProgressInv, Last
<1>5. CASE Fill
  <2>1. pc = "fill" /\ pc' = "run" /\ UNCHANGED <<inst, trans, stage>>
    BY <1>0, <1>5 DEF Fill, ProgressInv
  <2>2. QED
    BY <1>0, <2>1 DEF ProgressInv, Last
<1>6. CASE Run
  <2>1. /\ pc = "run" /\ pc' = "update" /\ stage' = "after" /\ trans' = trans /\ saved' = saved
        /\ inst' = Apply(cmd.add, cmd.rem)
    BY <1>6 DEF Run
  <2>2. Last' = saved'
    BY <1>0, <2>1 DEF ProgressInv, Base, Last
  <2>3. Installed(inst') = (Installed(inst) \ cmd.rem) \cup cmd.add
    <3>1. cmd.add \subseteq Pkgs /\ nextInst # 0
      BY <1>0 DEF Command, CurrentInv
    <3>2. \A p \in Pkgs : inst'[p] = IF p \in cmd.add THEN nextInst
                                     ELSE IF p \in cmd.rem THEN 0 ELSE inst[p]
      BY <2>1 DEF Apply
    <3>3. QED
      BY <3>1, <3>2 DEF Installed
  <2>4. cmd.pool = Installed(inst)
    BY <1>0, <2>1 DEF ArgsInv, Planned
  <2>5. QED
    BY <1>0, <2>1, <2>2, <2>3, <2>4 DEF ProgressInv, Finished
<1>7. CASE FillAborts \/ RunRefused \/ Failure
  <2>1. Crash => pc' = "idle"
    BY DEF Crash, Quit
  <2>2. pc' = "error" /\ stage' = stage
    BY <1>0, <1>7, <2>1
       DEF FillAborts, RunRefused, Failure, FillFails, RunFails, FlagsFail, MarkFails, RestoreFails
  <2>3. QED
    BY <1>1, <2>2 DEF Finished
<1>8. CASE Return
  BY <1>0, <1>8 DEF Return, Quit
<1>9. CASE External
  BY <1>0, <1>9, ExternalIsIdle
<1>10. CASE Update \/ Record \/ AddDelta \/ RollBack \/ Resolve
  BY <1>0, <1>10 DEF Update, Record, AddDelta, RollBack, Resolve, PlanFails, PlanUnresolved,
                     PlanCrashes, PlanEmpty, Plan, PlanDeclined, Finished
<1>11. CASE MarkOpens \/ Flags \/ (\E n \in Names : Mark(n)) \/ MarkEnds \/ Restore \/ RestoreEnds
  BY <1>0, <1>11 DEF MarkOpens, Flags, Mark, MarkEnds, Restore, RestoreEnds, Finished
<1>12. QED
  BY <1>0, <1>2, <1>3, <1>4, <1>5, <1>6, <1>7, <1>8, <1>9, <1>10, <1>11
     DEF Next, Client, Sync, Execute

LEMMA ProgressAfter ==
  ASSUME RefineInv, StageInv, StageInv', CurrentInv, PlanInv, ProgressInv, Undisturbed,
         [Next]_vars, ~Plan, Planned', stage = "after"
  PROVE  ProgressInv'
<1> USE DEF rpmdb, flagdb, db, locals
<1>0. /\ TypeOK /\ Planned /\ ~User /\ pc' # "idle" /\ cmd' = cmd /\ Base' = Base
      /\ pc \in {"update", "count", "fill", "delta", "flags", "mark", "restore"} \cup Finished
      /\ AfterSync = "flags" /\ Last \in Nat /\ saved \in Nat
  BY PlanFixed, LastType DEF RefineInv, JournalInv, ProgressInv, AfterSync
<1>1. UNCHANGED <<stage, inst>>
  BY <1>0, CommandKept, ExternalIsIdle DEF Run, RunFails, StageInv
<1>2. CASE UNCHANGED vars
  BY <1>2 DEF vars, ProgressInv, Planned, Last
<1>3. CASE ~UNCHANGED vars
  <2>1. Installed(inst') = (cmd'.pool \ cmd'.rem) \cup cmd'.add
    BY <1>0, <1>1 DEF ProgressInv
  <2>2. CASE Return
    BY <1>0, <2>2 DEF Return, Quit
  <2>3. CASE External
    BY <1>0, <2>3, ExternalIsIdle
  <2>4. CASE Update
    <3>1. pc = "update" /\ trans' = trans /\ saved' = saved /\ Last = saved
      BY <1>0, <2>4 DEF Update, ProgressInv
    <3>2. pc' = "flags" \/ (pc' = "count" /\ scan'.then = "delta")
      BY <1>0, <2>4 DEF Update, NoScan
    <3>3. QED
      BY <1>0, <1>1, <2>1, <3>1, <3>2 DEF ProgressInv, Finished, Last
  <2>5. CASE Count \/ Fill
    <3>1. /\ pc \in {"count", "fill"} /\ trans' = trans /\ saved' = saved /\ Last = saved
          /\ scan.then = "delta" /\ scan'.then = "delta"
      BY <1>0, <2>5 DEF Count, Fill, ProgressInv, Scan
    <3>2. pc' \in {"fill", "delta"}
      BY <2>5, <3>1 DEF Count, Fill
    <3>3. QED
      BY <1>0, <1>1, <2>1, <3>1, <3>2 DEF ProgressInv, Finished, Last
  <2>6. CASE AddDelta
    <3>1. pc = "delta" /\ pc' = "flags" /\ saved' = saved /\ Last = saved
      BY <1>0, <2>6 DEF AddDelta, ProgressInv
    <3>2. Last' \in {Last, Last + 1}
      BY <1>0, LastGrows DEF CurrentInv
    <3>3. QED
      BY <1>0, <1>1, <2>1, <3>1, <3>2 DEF ProgressInv, Finished
  <2>7. CASE Flags
    <3>1. pc = "flags" /\ cmd.op # "alter" /\ ctx.trans = Last /\ saved' = saved
      BY <1>0, <2>7 DEF Flags, Planned, HistoryOps, RefineInv, JournalInv, ScanInv, Synced
    <3>2. Last \in {saved, saved + 1}
      BY <1>0, <3>1 DEF ProgressInv
    <3>3. CASE saved = ctx.trans
      <4>1. trans' = Append(trans, EmptyTransaction) /\ pc' = "restore"
        BY <2>7, <3>1, <3>3 DEF Flags
      <4>2. Last' = saved + 1
        BY <1>0, <3>1, <3>3, <4>1, AppendProperties DEF Last
      <4>3. QED
        BY <1>0, <1>1, <2>1, <3>1, <4>1, <4>2 DEF ProgressInv, Finished
    <3>4. CASE saved # ctx.trans
      <4>1. trans' = trans /\ pc' = "mark"
        BY <2>7, <3>1, <3>4 DEF Flags
      <4>2. Last' = saved + 1
        BY <3>1, <3>2, <3>4, <4>1 DEF Last
      <4>3. QED
        BY <1>0, <1>1, <2>1, <3>1, <4>1, <4>2 DEF ProgressInv, Finished
    <3>5. QED
      BY <3>3, <3>4
  <2>8. CASE (\E n \in Names : Mark(n)) \/ MarkEnds \/ Restore \/ RestoreEnds
    <3>1. /\ pc \in {"mark", "restore"} /\ trans' = trans /\ saved' = saved
          /\ pc' \in {"mark", "restore", "ok", "error"}
      BY <2>8 DEF Mark, MarkEnds, Restore, RestoreEnds
    <3>2. Last = saved + 1
      BY <1>0, <3>1 DEF ProgressInv
    <3>3. QED
      BY <1>0, <1>1, <2>1, <3>1, <3>2 DEF ProgressInv, Finished, Last
  <2>9. CASE FillAborts \/ RollBack \/ RunRefused \/ Failure
    <3>1. Crash => pc' = "idle"
      BY DEF Crash, Quit
    <3>2. pc' = "error"
      BY <1>0, <2>9, <3>1
         DEF FillAborts, RollBack, RunRefused, Failure, FillFails, RunFails, FlagsFail, MarkFails,
             RestoreFails
    <3>3. QED
      BY <1>0, <1>1, <2>1, <3>2 DEF ProgressInv, Finished
  <2>10. CASE Open \/ Record \/ Resolve \/ Run \/ MarkOpens
    BY <1>0, <2>10 DEF Open, Record, Resolve, PlanFails, PlanUnresolved, PlanCrashes, PlanEmpty, Plan,
                       PlanDeclined, Run, MarkOpens, Finished
  <2>11. QED
    BY <1>0, <1>3, <2>2, <2>3, <2>4, <2>5, <2>6, <2>7, <2>8, <2>9, <2>10
       DEF Next, Client, Sync, Execute
<1>4. QED
  BY <1>2, <1>3

LEMMA ProgressStep ==
  ASSUME RefineInv, StageInv, StageInv', CurrentInv, ArgsInv, PlanInv, ProgressInv, Undisturbed,
         [Next]_vars
  PROVE  ProgressInv'
<1>1. CASE Plan
  BY <1>1, PlanIsCurrent
<1>2. CASE ~Planned'
  BY <1>2 DEF ProgressInv
<1>3. CASE ~Plan /\ Planned'
  <2>1. Planned /\ TypeOK
    BY <1>3, PlanFixed DEF RefineInv, JournalInv
  <2>2. stage \in {"before", "after"}
    BY <2>1 DEF Planned, Stages
  <2>3. QED
    BY <1>3, <2>2, ProgressBefore, ProgressAfter
<1>4. QED
  BY <1>1, <1>2, <1>3
-----------------------------------------------------------------------------
(***************************************************************************)
(* The flags that a history command leaves.                                *)
(***************************************************************************)
LEMMA FlagsChange ==
  ASSUME ~disk.open, [Next]_vars, flags' # flags
  PROVE  pc \in {"mark", "restore"}
<1> USE DEF rpmdb, flagdb, db, locals
<1>1. Quit => flags' = flags
  BY DEF Quit, Close
<1>2. CASE User \/ Sync
  BY <1>2 DEF User, BeginAlter, BeginSingle, BeginMark, BeginInit, BeginHistory, Begin, Sync, Open,
              Update, Count, Fill, FillAborts, Record, AddDelta, RollBack, Close
<1>3. CASE Resolve
  BY <1>3 DEF Resolve, PlanFails, PlanUnresolved, PlanCrashes, PlanEmpty, Plan, PlanDeclined, Close
<1>4. CASE Execute
  BY <1>4 DEF Execute, Run, RunRefused, MarkOpens, Flags, Mark, MarkEnds, Restore, RestoreEnds
<1>5. CASE Failure \/ Return
  BY <1>1, <1>5 DEF Failure, FillFails, RunFails, FlagsFail, MarkFails, RestoreFails, Crash, Return
<1>6. CASE External \/ UNCHANGED vars
  BY <1>6 DEF External, vars
<1>7. QED
  BY <1>2, <1>3, <1>4, <1>5, <1>6 DEF Next, Client

(* The rows of the transactions up to Base stay what they are.             *)
LEMMA FlagsFixed ==
  ASSUME RefineInv, ArgsInv, PlanInv, ProgressInv, Planned, ~disk.open, Undisturbed, [Next]_vars
  PROVE  \A t \in 1..Base : \A n : FlagAt(flags', t, n) = FlagAt(flags, t, n)
<1>1. CASE flags' = flags
  BY <1>1
<1>2. CASE flags' # flags
  <2>1. /\ TypeOK /\ Last \in Nat /\ pc \in {"mark", "restore"} /\ stage \in {"before", "after"}
    BY <1>2, FlagsChange, LastType DEF RefineInv, JournalInv, Planned, Stages
  <2>2. Last = saved + 1 /\ Base = saved /\ saved \in Nat
    BY <2>1 DEF ProgressInv, Base, Finished
  <2>3. PICK n \in Names, v \in Value :
          flags' = Append(flags, [trans |-> Last, name |-> n, value |-> v])
    BY <1>2, DbGrows
  <2>4. [trans |-> Last, name |-> n, value |-> v] \in FlagRow /\ flags \in Seq(FlagRow)
    BY <2>1 DEF FlagRow
  <2>5. \A t \in 1..Base : t \in Nat /\ t < Last
    BY <2>1, <2>2
  <2>6. QED
    BY <2>3, <2>4, <2>5, FlagElsewhere
<1>3. QED
  BY <1>1, <1>2

(* A transaction starts with the flags of the one before it.               *)
LEMMA FlagsCarried ==
  ASSUME RefineInv, ~disk.open, Undisturbed, [Next]_vars, flags' = flags
  PROVE  \A n : FlagAt(flags', Last', n) = FlagAt(flags, Last, n)
<1>1. Last \in Nat /\ Last' \in Nat /\ Last <= Last'
  BY LastGrows
<1>2. flags \in Seq(FlagRow) /\ Owned(flags, trans)
  BY DEF RefineInv, JournalInv, FlagInv
<1>3. QED
  BY <1>1, <1>2, FlagInherited DEF Last

(* What history_restore_auto_flags compares, in the terms of the journal.  *)
LEMMA RestoreReads ==
  ASSUME RefineInv, ArgsInv, PlanInv, ProgressInv, Planned, stage = "after", pc = "restore"
  PROVE  /\ ctx.trans = Last /\ Last = Base + 1
         /\ \/ \A n : FlagIn(RangeFrom, n) = FlagIn(Origin, n) /\ FlagIn(RangeTo, n) = FlagIn(Goal, n)
            \/ /\ Origin = Base
               /\ \A n : FlagIn(RangeFrom, n) = FlagIn(Last, n) /\ FlagIn(RangeTo, n) = FlagIn(Goal, n)
            \/ /\ Goal = Base
               /\ \A n : FlagIn(RangeTo, n) = FlagIn(Last, n)
<1>1. TypeOK /\ ctx.trans = Last /\ Last \in Nat /\ cmd.to \in Nat /\ cmd.op \in HistoryOps
  BY LastType DEF RefineInv, JournalInv, ScanInv, Synced, Command, Planned
<1>2. Base = saved /\ Last = Base + 1 /\ Base \in Nat
  BY <1>1 DEF Base, ProgressInv
<1>3. CASE cmd.op = "rollback"
  <2>1. cmd.to <= Base
    BY <1>3 DEF PlanInv
  <2>2. Goal = cmd.to /\ Origin = Base /\ RangeFrom = Last /\ RangeTo = cmd.to
    BY <1>1, <1>2, <1>3, <2>1 DEF Goal, Origin, UpTo, RangeFrom, RangeTo
  <2>3. QED
    BY <1>1, <1>2, <2>2
<1>4. CASE cmd.op # "rollback" /\ cmd.to <= Base
  <2>1. UpTo(cmd.to) = cmd.to
    BY <1>1, <1>2, <1>4 DEF UpTo
  <2>2. Goal = RangeTo /\ Origin = RangeFrom
    BY <1>1, <1>4, <2>1 DEF Goal, Origin, RangeFrom, RangeTo, HistoryOps
  <2>3. QED
    BY <1>1, <1>2, <2>2
<1>5. CASE cmd.op # "rollback" /\ ~(cmd.to <= Base)
  <2>1. UpTo(cmd.to) = Base /\ Last <= cmd.to
    BY <1>1, <1>2, <1>5 DEF UpTo
  <2>2. \A n : FlagIn(cmd.to, n) = FlagIn(Last, n)
    BY <1>1, <2>1, BeyondLast
  <2>3. CASE cmd.op = "undo"
    <3>1. RangeFrom = cmd.to /\ RangeTo = Goal /\ Origin = Base
      BY <2>1, <2>3 DEF RangeFrom, RangeTo, Goal, Origin
    <3>2. QED
      BY <1>1, <1>2, <2>2, <3>1
  <2>4. CASE cmd.op = "redo"
    <3>1. RangeTo = cmd.to /\ Goal = Base
      BY <2>1, <2>4 DEF RangeTo, Goal
    <3>2. QED
      BY <1>1, <1>2, <2>2, <3>1
  <2>5. QED
    BY <1>1, <1>5, <2>3, <2>4 DEF HistoryOps
<1>6. QED
  BY <1>3, <1>4, <1>5

(* One name of the table.                                                  *)
LEMMA FlagRestored ==
  ASSUME RefineInv, ArgsInv, PlanInv, ProgressInv, Planned, stage = "after", ~disk.open, Undisturbed,
         [Next]_vars, Restore, pc' = "restore",
         NEW n, FlagIn(Last, n) = Wanted(n) \/ FlagIn(Last, n) = FlagIn(Base, n)
  PROVE  IF n = names[idx] THEN FlagAt(flags', Last, n) = Wanted(n)
                           ELSE FlagAt(flags', Last, n) = FlagAt(flags, Last, n)
<1>1. TypeOK /\ pc = "restore" /\ idx <= Len(names) /\ Last \in Nat
  BY LastType DEF Restore, RefineInv, JournalInv
<1>2. names[idx] \in Names
  BY <1>1, ElementOfSeq
<1> DEFINE m == names[idx]
           D == m \in FlagsDelta(flags, {m}, ctx.trans, RangeFrom, RangeTo)
<1>3. flags' = IF D THEN Append(flags, NewFlag(m, FlagAt(flags, RangeTo, m))) ELSE flags
  BY <1>1 DEF Restore
<1>4. /\ ctx.trans = Last
      /\ \/ FlagIn(RangeFrom, n) = FlagIn(Origin, n) /\ FlagIn(RangeTo, n) = FlagIn(Goal, n)
         \/ /\ Origin = Base
            /\ FlagIn(RangeFrom, n) = FlagIn(Last, n) /\ FlagIn(RangeTo, n) = FlagIn(Goal, n)
         \/ /\ Goal = Base
            /\ FlagIn(RangeTo, n) = FlagIn(Last, n)
  BY <1>1, RestoreReads
<1>5. n = m => (D <=> /\ FlagIn(RangeFrom, n) # FlagIn(RangeTo, n)
                      /\ FlagIn(RangeTo, n) # FlagIn(Last, n))
  BY <1>4 DEF FlagsDelta, FlagIn
<1>6. FlagAt(flags, RangeTo, m) \in Value
  BY DEF FlagAt, Value
<1>7. D => /\ FlagAt(flags', Last, m) = FlagAt(flags, RangeTo, m)
           /\ n # m => FlagAt(flags', Last, n) = FlagAt(flags, Last, n)
  BY <1>1, <1>2, <1>3, <1>4, <1>6, FlagWritten
<1>8. FlagIn(Last, n) \in {0, 1} /\ FlagIn(Base, n) \in {0, 1} /\ FlagIn(Goal, n) \in {0, 1}
        /\ FlagIn(Origin, n) \in {0, 1}
  BY DEF FlagIn, FlagAt
<1>9. Wanted(n) = IF FlagIn(Origin, n) # FlagIn(Goal, n) THEN FlagIn(Goal, n) ELSE FlagIn(Base, n)
  BY DEF Wanted
<1> HIDE DEF D, m
<1>10. CASE n = m /\ D
  <2>1. FlagAt(flags', Last, n) = FlagIn(RangeTo, n)
    BY <1>7, <1>10 DEF FlagIn
  <2>2. FlagIn(RangeTo, n) = Wanted(n)
    BY <1>4, <1>5, <1>9, <1>10
  <2>3. QED
    BY <1>10, <2>1, <2>2 DEF m
<1>11. CASE n = m /\ ~D
  <2>1. FlagAt(flags', Last, n) = FlagIn(Last, n)
    BY <1>3, <1>11 DEF FlagIn
  <2>2. FlagIn(Last, n) = Wanted(n)
    BY <1>4, <1>5, <1>8, <1>9, <1>11
  <2>3. QED
    BY <1>11, <2>1, <2>2 DEF m
<1>12. CASE n # m
  BY <1>3, <1>7, <1>12 DEF m
<1>13. QED
  BY <1>10, <1>11, <1>12

LEMMA FlagOKStep ==
  ASSUME RefineInv, RefineInv', StageInv, StageInv', CurrentInv, ArgsInv, PlanInv, ProgressInv,
         NamesInTable, Undisturbed, [Next]_vars, ~Plan, Planned', stage = "after",
         NEW n \in Names \ NamesOf(PulledIn), FlagOK(n)
  PROVE  FlagOK(n)'
<1> USE DEF rpmdb, flagdb, db, locals
<1>0. /\ TypeOK /\ Planned /\ ~User /\ pc' # "idle" /\ cmd' = cmd
      /\ Base' = Base /\ Goal' = Goal /\ Origin' = Origin /\ PulledIn' = PulledIn
      /\ pc \in {"update", "count", "fill", "delta", "flags", "mark", "restore"} \cup Finished
      /\ AfterSync = "flags" /\ ~disk.open /\ cmd.op \in HistoryOps
  BY PlanFixed DEF RefineInv, JournalInv, ProgressInv, AfterSync, CurrentInv, Planned
<1>1. Last \in Nat /\ Base \in 1..Base /\ Goal \in 1..Base /\ Origin \in 1..Base
  <2>1. Last \in Nat /\ Base \in 1..Last /\ Goal \in 1..Base /\ Origin \in 1..Base
    BY <1>0, PlanRange
  <2>2. QED
    BY <2>1
<1>2. \A t \in 1..Base : FlagAt(flags', t, n) = FlagAt(flags, t, n)
  BY <1>0, FlagsFixed
<1>3. FlagIn(Base, n)' = FlagIn(Base, n)
  BY <1>0, <1>1, <1>2 DEF FlagIn
<1>4. Wanted(n)' = Wanted(n)
  <2>1. FlagIn(Goal, n)' = FlagIn(Goal, n) /\ FlagIn(Origin, n)' = FlagIn(Origin, n)
    BY <1>0, <1>1, <1>2 DEF FlagIn
  <2>2. Wanted(n) = IF FlagIn(Origin, n) # FlagIn(Goal, n) THEN FlagIn(Goal, n) ELSE FlagIn(Base, n)
    BY DEF Wanted
  <2>3. Wanted(n)' = IF FlagIn(Origin, n)' # FlagIn(Goal, n)' THEN FlagIn(Goal, n)'
                     ELSE FlagIn(Base, n)'
    BY DEF Wanted, FlagIn
  <2>4. QED
    BY <1>3, <2>1, <2>2, <2>3
<1>5. flags' = flags => FlagIn(Last, n)' = FlagIn(Last, n)
  BY <1>0, FlagsCarried DEF FlagIn
<1>6. CASE UNCHANGED vars
  <2>1. UNCHANGED <<pc, idx, names, todo, flags, trans>>
    BY <1>6 DEF vars
  <2>2. QED
    BY <1>0, <1>3, <1>4, <1>5, <2>1 DEF FlagOK
<1>7. CASE Sync
  <2>1. pc \in {"update", "count", "fill", "delta"} /\ flags' = flags
    BY <1>0, <1>7 DEF Sync, Open, Update, Count, Fill, FillAborts, Record, AddDelta, RollBack, Close,
                      Finished
  <2>2. pc' \in {"count", "fill", "record", "delta", "flags", "error"}
    BY <1>0, <1>7, <2>1 DEF Sync, Open, Update, Count, Fill, FillAborts, Record, AddDelta, RollBack,
                            Scan
  <2>3. QED
    BY <1>3, <1>5, <2>1, <2>2 DEF FlagOK
<1>8. CASE Flags
  <2>1. pc = "flags" /\ flags' = flags /\ idx' = idx /\ idx = 1 /\ cmd.op # "alter"
    BY <1>0, <1>8 DEF Flags, StageInv, Finished, HistoryOps
  <2>2. pc' = "restore" \/ (pc' = "mark" /\ todo' = NewNames(cmd.add, cmd.rem) \ cmd.user)
    BY <1>8, <2>1 DEF Flags
  <2>3. NewNames(cmd.add, cmd.rem) \ cmd.user \subseteq NamesOf(PulledIn)
    BY DEF NewNames, NamesOf, PulledIn
  <2>4. FlagIn(Last, n)' = FlagIn(Base, n)'
    BY <1>3, <1>5, <2>1 DEF FlagOK
  <2>5. \A i \in 1..(idx' - 1) : FALSE
    BY <2>1
  <2>6. QED
    BY <1>0, <2>2, <2>3, <2>4, <2>5 DEF FlagOK, NamesOf
<1>9. ASSUME NEW m \in Names, Mark(m) PROVE FlagOK(n)'
  <2>1. pc = "mark" /\ m \in todo /\ pc' \in {"mark", "error"} /\ trans' = trans
    BY <1>9 DEF Mark
  <2>2. CASE pc' = "error"
    BY <2>2 DEF FlagOK
  <2>3. CASE pc' = "mark"
    <3>1. todo \subseteq NamesOf(PulledIn) /\ n # m /\ FlagIn(Last, n) = FlagIn(Base, n)
      BY <2>1 DEF FlagOK
    <3>2. todo' \subseteq NamesOf(PulledIn)
      BY <1>9, <2>3, <3>1 DEF Mark
    <3>3. FlagIn(Last, n)' = FlagIn(Last, n)
      <4>1. CASE flags' = flags
        BY <1>5, <4>1
      <4>2. CASE flags' = Append(flags, NewFlag(m, ValueFor(m)))
        <5>1. ctx.trans = Last /\ ValueFor(m) \in Value
          BY <1>0, <2>1, ValueForType DEF RefineInv, FlagInv
        <5>2. FlagAt(flags', Last, n) = FlagAt(flags, Last, n)
          BY <1>0, <1>1, <3>1, <4>2, <5>1, FlagWritten
        <5>3. QED
          BY <2>1, <5>2 DEF FlagIn, Last
      <4>3. QED
        BY <1>9, <2>3, <4>1, <4>2 DEF Mark, SetAutoFlag
    <3>4. NamesOf(PulledIn)' = NamesOf(PulledIn)
      BY <1>0 DEF NamesOf
    <3>5. QED
      BY <1>3, <2>3, <3>1, <3>2, <3>3, <3>4 DEF FlagOK
  <2>4. QED
    BY <2>1, <2>2, <2>3
<1>10. CASE MarkEnds
  <2>1. pc = "mark" /\ pc' = "restore" /\ flags' = flags /\ idx' = idx /\ idx = 1
    BY <1>0, <1>10 DEF MarkEnds, StageInv, Finished
  <2>2. FlagIn(Last, n)' = FlagIn(Base, n)'
    BY <1>3, <1>5, <2>1 DEF FlagOK
  <2>3. \A i \in 1..(idx' - 1) : FALSE
    BY <2>1
  <2>4. QED
    BY <2>1, <2>2, <2>3 DEF FlagOK
<1>11. CASE Restore
  <2>1. pc = "restore" /\ pc' \in {"restore", "error"} /\ trans' = trans /\ names' = names
          /\ idx \in Nat /\ idx <= Len(names)
    BY <1>0, <1>11 DEF Restore
  <2>2. CASE pc' = "error"
    BY <2>2 DEF FlagOK
  <2>3. CASE pc' = "restore"
    <3>1. FlagIn(Last, n) = Wanted(n) \/ FlagIn(Last, n) = FlagIn(Base, n)
      BY <2>1 DEF FlagOK
    <3>2. IF n = names[idx] THEN FlagAt(flags', Last, n) = Wanted(n)
                            ELSE FlagAt(flags', Last, n) = FlagAt(flags, Last, n)
      BY <1>0, <1>11, <2>3, <3>1, FlagRestored
    <3>3. FlagIn(Last, n)' = FlagAt(flags', Last, n) /\ FlagIn(Last, n) = FlagAt(flags, Last, n)
      BY <2>1 DEF FlagIn, Last
    <3>4. idx' = idx + 1
      BY <1>11, <2>3 DEF Restore
    <3>5. n # names[idx] /\ (\A i \in 1..(idx - 1) : names[i] # n) =>
            \A i \in 1..(idx' - 1) : names'[i] # n
      <4>1. \A i \in 1..(idx' - 1) : i = idx \/ i \in 1..(idx - 1)
        BY <2>1, <3>4
      <4>2. QED
        BY <2>1, <4>1
    <3>6. QED
      BY <1>3, <1>4, <2>1, <2>3, <3>2, <3>3, <3>5 DEF FlagOK
  <2>4. QED
    BY <2>1, <2>2, <2>3
<1>12. CASE RestoreEnds
  <2>1. pc = "restore" /\ pc' = "ok" /\ flags' = flags /\ Len(names) < idx
    BY <1>0, <1>12, LenProperties DEF RestoreEnds
  <2>2. CASE FlagIn(Last, n) = Wanted(n)
    BY <1>4, <1>5, <2>1, <2>2 DEF FlagOK
  <2>3. CASE \A i \in 1..(idx - 1) : names[i] # n
    <3>1. n \notin NamesKnown
      <4>1. \A i \in DOMAIN names : i \in 1..(idx - 1)
        BY <1>0, <2>1, LenProperties
      <4>2. QED
        BY <2>3, <4>1 DEF NamesKnown
    <3>2. FlagIn(Last, n) = Wanted(n)
      BY <1>0, <3>1, NoRow DEF FlagIn, Wanted
    <3>3. QED
      BY <2>2, <3>2
  <2>4. QED
    BY <2>1, <2>2, <2>3 DEF FlagOK
<1>13. CASE RunRefused \/ Failure
  <2>1. Crash => pc' = "idle"
    BY DEF Crash, Quit
  <2>2. pc' = "error"
    BY <1>0, <1>13, <2>1
       DEF RunRefused, Failure, FillFails, RunFails, FlagsFail, MarkFails, RestoreFails
  <2>3. QED
    BY <2>2 DEF FlagOK
<1>14. CASE Return
  BY <1>0, <1>14 DEF Return, Quit
<1>15. CASE External
  BY <1>0, <1>15, ExternalIsIdle
<1>16. CASE Resolve \/ Run \/ MarkOpens
  BY <1>0, <1>16 DEF Resolve, PlanFails, PlanUnresolved, PlanCrashes, PlanEmpty, Plan, PlanDeclined,
                     Run, MarkOpens, Finished
<1>17. QED
  BY <1>0, <1>6, <1>7, <1>8, <1>9, <1>10, <1>11, <1>12, <1>13, <1>14, <1>15, <1>16
     DEF Next, Client, Execute

LEMMA FlagsStep ==
  ASSUME RefineInv, RefineInv', StageInv, StageInv', CurrentInv, ArgsInv, PlanInv, ProgressInv,
         NamesInTable, FlagsInv, Undisturbed, [Next]_vars
  PROVE  FlagsInv'
<1>1. SUFFICES ASSUME Planned', stage' = "after" PROVE \A n \in Names \ NamesOf(PulledIn)' : FlagOK(n)'
  BY DEF FlagsInv
<1>2. ~Plan /\ TypeOK
  BY <1>1 DEF Plan, RefineInv, JournalInv
<1>3. /\ Planned /\ ~User /\ pc' # "idle" /\ cmd' = cmd
      /\ Base' = Base /\ PulledIn' = PulledIn
  BY <1>1, <1>2, PlanFixed
<1>4. NamesOf(PulledIn)' = NamesOf(PulledIn)
  BY <1>3 DEF NamesOf
<1>5. CASE stage = "after"
  <2>1. \A n \in Names \ NamesOf(PulledIn) : FlagOK(n)
    BY <1>3, <1>5 DEF FlagsInv
  <2>2. QED
    BY <1>1, <1>2, <1>4, <1>5, <2>1, FlagOKStep
<1>6. CASE stage # "after"
  <2>1. Run
    BY <1>1, <1>2, <1>3, <1>6, CommandKept
  <2>2. pc' = "update" /\ Base = Last /\ trans' = trans
    BY <1>3, <2>1 DEF Run, StageInv, ProgressInv, db
  <2>3. Base' = Last'
    BY <1>3, <2>2 DEF Last
  <2>4. QED
    BY <2>2, <2>3 DEF FlagOK
<1>7. QED
  BY <1>5, <1>6
-----------------------------------------------------------------------------
(***************************************************************************)
(* The theorems.                                                           *)
(***************************************************************************)
LEMMA CommandInit == Init => CommandInv
<1> SUFFICES ASSUME Init PROVE CommandInv
  OBVIOUS
<1>1. pc = "idle" /\ cmd.op = "none" /\ idx = 1 /\ ~disk.open /\ 0 < nextInst /\ flags = <<>>
  BY DEF Init, NoCmd, NoTxn
<1>2. RefineInv
  BY RefineInit
<1>3. StageInv /\ CurrentInv /\ AlterInv
  BY <1>1 DEF StageInv, CurrentInv, AlterInv, SyncSteps, HistoryOps, Finished
<1>4. ArgsInv /\ PlanInv /\ ProgressInv /\ FlagsInv
  BY <1>1 DEF ArgsInv, PlanInv, ProgressInv, FlagsInv, Planned, HistoryOps
<1>5. NamesInTable /\ NothingLeftToDo
  BY <1>1 DEF NamesInTable, NothingLeftToDo
<1>6. QED
  BY <1>2, <1>3, <1>4, <1>5 DEF CommandInv

LEMMA CommandStep ==
  ASSUME Undisturbed
  PROVE  CommandInv /\ [Next]_vars => CommandInv'
<1> SUFFICES ASSUME CommandInv, [Next]_vars PROVE CommandInv'
  OBVIOUS
<1>1. /\ RefineInv /\ StageInv /\ CurrentInv /\ AlterInv
      /\ ArgsInv /\ PlanInv /\ ProgressInv /\ NamesInTable /\ FlagsInv /\ NothingLeftToDo
      /\ TypeOK /\ ScanInv /\ JournalInv /\ ~disk.open
  BY DEF CommandInv, RefineInv, JournalInv, CurrentInv
<1>2. RefineInv'
  BY <1>1, RefineStep DEF Undisturbed
<1>3. StageInv'
  BY <1>1, StageStep
<1>4. CurrentInv'
  BY <1>1, <1>2, <1>3, CurrentStep DEF RefineInv
<1>5. AlterInv' /\ ArgsInv'
  BY <1>1, <1>3, AlterStep, ArgsStep
<1>6. PlanInv' /\ ProgressInv'
  BY <1>1, <1>2, <1>3, PlanStep, ProgressStep
<1>7. NamesInTable' /\ NothingLeftToDo'
  BY <1>1, TableStep, NothingStep
<1>8. FlagsInv'
  BY <1>1, <1>2, <1>3, FlagsStep
<1>9. QED
  BY <1>2, <1>3, <1>4, <1>5, <1>6, <1>7, <1>8 DEF CommandInv

LEMMA CommandAlways ==
  ASSUME Undisturbed
  PROVE  Spec => []CommandInv
<1>1. CommandInv /\ [Next]_vars => CommandInv'
  BY CommandStep
<1>2. QED
  BY <1>1, CommandInit, PTL DEF Spec

(* The last state of the history, when a command succeeds.                 *)
LEMMA LastIsInstalled ==
  ASSUME CommandInv, pc = "ok", cmd.op \in HistoryOps \cup {"alter"}
  PROVE  StateAt(Last) = Installed(inst)
<1>1. Current /\ TypeOK
  BY DEF CommandInv, CurrentInv, RefineInv, JournalInv
<1>2. Last \in DOMAIN trans
  BY <1>1, LastType DEF Current, Synced, Last
<1>3. QED
  BY <1>1, <1>2 DEF StateAt, Current, Synced, CommandInv, RefineInv, JournalInv, DbInv,
                    JournalFaithful, Faithful

(* What the invariants say of a history command that succeeds.             *)
LEMMA CommandDone ==
  ASSUME CommandInv, pc = "ok", cmd.op \in HistoryOps
  PROVE  /\ Base \in Nat /\ Last = Base + 1 /\ Before = Base
         /\ cmd.to \in Nat /\ cmd.pool = StateAt(Base)
         /\ Installed(inst) = (cmd.pool \ cmd.rem) \cup cmd.add
         /\ Wished \subseteq PubKeys \cup Available
         /\ cmd.user = NamesOf(Asked) /\ Asked \subseteq cmd.add
         /\ cmd.op = "rollback" => cmd.to <= Base /\ cmd.add = Asked
         /\ cmd.rem = ((Unwished \ PubKeys) \cap cmd.pool) \cup
                      {q \in cmd.pool : NameOf[q] \in NamesOf(Asked)}
         /\ \A n \in Names \ NamesOf(PulledIn) : FlagIn(Last, n) = Wanted(n)
<1>1. stage = "after" /\ Planned /\ TypeOK
  BY DEF CommandInv, StageInv, Planned, RefineInv, JournalInv
<1>2. Base = saved /\ Last = saved + 1 /\ saved \in Nat /\ cmd.to \in Nat
        /\ Installed(inst) = (cmd.pool \ cmd.rem) \cup cmd.add
  BY <1>1 DEF CommandInv, ProgressInv, Base, Command
<1>3. Before = Base
  BY <1>2 DEF Before
<1>4. \A n \in Names \ NamesOf(PulledIn) : FlagIn(Last, n) = Wanted(n)
  BY <1>1 DEF CommandInv, FlagsInv, FlagOK
<1>5. QED
  BY <1>1, <1>2, <1>3, <1>4 DEF CommandInv, PlanInv

LEMMA DoneRollback == CommandInv => RollbackExact
<1> SUFFICES ASSUME CommandInv, pc = "ok", cmd.op = "rollback", OneVersionEach(StateAt(cmd.to))
             PROVE  /\ Installed(inst) \ PubKeys = StateAt(cmd.to) \ PubKeys
                    /\ \A n \in Names : FlagIn(Last, n) = FlagIn(cmd.to, n)
  BY DEF RollbackExact
<1>1. /\ Base \in Nat /\ cmd.to \in Nat /\ cmd.pool = StateAt(Base)
      /\ Installed(inst) = (cmd.pool \ cmd.rem) \cup cmd.add
      /\ Wished \subseteq PubKeys \cup Available
      /\ cmd.user = NamesOf(Asked)
      /\ cmd.to <= Base /\ cmd.add = Asked
      /\ cmd.rem = ((Unwished \ PubKeys) \cap cmd.pool) \cup
                   {q \in cmd.pool : NameOf[q] \in NamesOf(Asked)}
      /\ \A n \in Names \ NamesOf(PulledIn) : FlagIn(Last, n) = Wanted(n)
  BY CommandDone DEF HistoryOps
<1>2. Goal = cmd.to /\ Origin = Base
  BY <1>1 DEF Goal, Origin, UpTo
<1>3. /\ Wished = StateAt(cmd.to) \ cmd.pool /\ Unwished = cmd.pool \ StateAt(cmd.to)
      /\ Asked = Wished \cap Available
  BY <1>1, <1>2 DEF Wished, Unwished, Asked
<1>4. \A q \in cmd.pool \cap StateAt(cmd.to) : NameOf[q] \notin NamesOf(Asked)
  BY <1>3 DEF OneVersionEach, NamesOf
<1>5. Installed(inst) \ PubKeys = StateAt(cmd.to) \ PubKeys
  BY <1>1, <1>3, <1>4
<1>6. NamesOf(PulledIn) = {}
  BY <1>1 DEF PulledIn, NamesOf
<1>7. \A n \in Names : FlagIn(Last, n) = FlagIn(cmd.to, n)
  BY <1>1, <1>2, <1>6 DEF Wanted
<1>8. QED
  BY <1>5, <1>7

(* The range of an undo or a redo, in the terms of the plan.               *)
LEMMA DoneRange ==
  ASSUME CommandInv, pc = "ok", cmd.op \in {"undo", "redo"}
  PROVE  /\ Target = Goal /\ ChangedPkgs = (Wished \cup Unwished) \ PubKeys
         /\ (cmd.op = "undo" /\ Goal = cmd.from - 1 /\ Origin = RangeEnd) \/
            (cmd.op = "redo" /\ Goal = RangeEnd /\ Origin = cmd.from - 1)
<1>1. Before = Base
  BY CommandDone DEF HistoryOps
<1>2. RangeEnd = UpTo(cmd.to)
  BY <1>1 DEF RangeEnd, UpTo
<1>3. QED
  BY <1>2 DEF Target, Goal, Origin, Wished, Unwished, ChangedPkgs, Changed, Diff

LEMMA DonePackages == CommandInv => RangeReapplied
<1> SUFFICES ASSUME CommandInv, pc = "ok", cmd.op \in {"undo", "redo"},
                    OneVersionEach(StateAt(Target))
             PROVE  /\ \A p \in ChangedPkgs \ PulledIn : p \in Installed(inst) <=> p \in StateAt(Target)
                    /\ \A p \in Pkgs \ (ChangedPkgs \cup PulledIn) :
                         NameOf[p] \notin NamesOf(ChangedPkgs) =>
                           (p \in StateAt(Last) <=> p \in StateAt(Before))
  BY DEF RangeReapplied
<1>1. /\ Before = Base /\ cmd.pool = StateAt(Base)
      /\ Installed(inst) = (cmd.pool \ cmd.rem) \cup cmd.add
      /\ Wished \subseteq PubKeys \cup Available
      /\ cmd.user = NamesOf(Asked) /\ Asked \subseteq cmd.add
      /\ cmd.rem = ((Unwished \ PubKeys) \cap cmd.pool) \cup
                   {q \in cmd.pool : NameOf[q] \in NamesOf(Asked)}
  BY CommandDone DEF HistoryOps
<1>2. Target = Goal /\ ChangedPkgs = (Wished \cup Unwished) \ PubKeys
  BY DoneRange
<1>3. StateAt(Last) = Installed(inst)
  BY LastIsInstalled DEF HistoryOps
<1>4. Asked = (Wished \cap Available) \ cmd.pool
  BY DEF Asked
<1>5. Wished \subseteq StateAt(Target) /\ Unwished \cap StateAt(Target) = {}
  BY <1>2 DEF Wished, Unwished
<1>6. Asked \subseteq ChangedPkgs
  BY <1>2, <1>4, HistoryAssumption
<1>7. \A p \in cmd.add : p \in Asked \/ p \in PulledIn \/ NameOf[p] \in NamesOf(Asked)
  BY <1>1 DEF PulledIn
<1>8. \A p \in cmd.add \ Asked : NameOf[p] \notin NamesOf(Asked)
  <2>1. Planned
    BY DEF CommandInv, StageInv, Planned, HistoryOps
  <2>2. QED
    BY <2>1 DEF CommandInv, PlanInv, NamesOf
<1>9. \A q \in cmd.pool \cap StateAt(Target) : NameOf[q] \notin NamesOf(Asked)
  BY <1>4, <1>5 DEF OneVersionEach, NamesOf
<1>10. ASSUME NEW p \in ChangedPkgs \ PulledIn
       PROVE  p \in Installed(inst) <=> p \in StateAt(Target)
  <2>1. CASE p \in Wished
    BY <1>1, <1>2, <1>4, <1>5, <1>9, <1>10, <2>1
  <2>2. CASE p \in Unwished
    BY <1>1, <1>2, <1>4, <1>5, <1>7, <1>8, <1>10, <2>2
  <2>3. QED
    BY <1>2, <1>10, <2>1, <2>2
<1>11. ASSUME NEW p \in Pkgs \ (ChangedPkgs \cup PulledIn), NameOf[p] \notin NamesOf(ChangedPkgs)
       PROVE  p \in StateAt(Last) <=> p \in StateAt(Before)
  <2>1. NameOf[p] \notin NamesOf(Asked) /\ p \notin Asked /\ p \notin Unwished \ PubKeys
    BY <1>2, <1>6, <1>11 DEF NamesOf
  <2>2. QED
    BY <1>1, <1>3, <1>7, <1>11, <2>1
<1>12. QED
  BY <1>10, <1>11

LEMMA DoneFlags == CommandInv => RangeFlags
<1> SUFFICES ASSUME CommandInv, pc = "ok", cmd.op \in {"undo", "redo"},
                    NEW n \in Names \ NamesOf(PulledIn)
             PROVE  FlagIn(Last, n) = FlagIn(IF FlagIn(cmd.from - 1, n) # FlagIn(RangeEnd, n)
                                             THEN Target ELSE Before, n)
  BY DEF RangeFlags
<1>1. Before = Base /\ FlagIn(Last, n) = Wanted(n)
  BY CommandDone DEF HistoryOps
<1>2. /\ Target = Goal
      /\ (Goal = cmd.from - 1 /\ Origin = RangeEnd) \/ (Goal = RangeEnd /\ Origin = cmd.from - 1)
  BY DoneRange
<1>3. QED
  BY <1>1, <1>2 DEF Wanted

LEMMA DoneInstall == CommandInv => InstallRecorded
<1> SUFFICES ASSUME CommandInv, pc = "ok", cmd.op = "alter"
             PROVE  /\ StateAt(Last) = Installed(inst)
                    /\ \A n \in NewNames(cmd.add, cmd.rem) :
                         FlagIn(Last, n) = (IF n \in cmd.user THEN 0 ELSE 1)
  BY DEF InstallRecorded
<1>1. StateAt(Last) = Installed(inst)
  BY LastIsInstalled
<1>2. \A n \in NewNames(cmd.add, cmd.rem) : FlagIn(Last, n) = ValueFor(n)
  BY DEF CommandInv, AlterInv
<1>3. QED
  BY <1>1, <1>2 DEF ValueFor

(* After an installation the history knows the state of the system, and    *)
(* the marks say what the user asked for (TDNFMarkAutoInstalled), whatever *)
(* the marks were and whatever failed before, if no other program used rpm *)
(* during a command and no COMMIT failed silently.                         *)
THEOREM InstallRecordedAlways ==
  ASSUME Undisturbed
  PROVE  Spec => []InstallRecorded
  BY CommandAlways, DoneInstall, PTL

(* "Nothing to do" is only said when it is so: the packages, keys          *)
(* excepted, and the marks are those of the target (TDNFHistoryResolve,    *)
(* history_get_flags_delta), under the same assumption.                    *)
THEOREM NothingLeftToDoAlways ==
  ASSUME Undisturbed
  PROVE  Spec => []NothingLeftToDo
<1>1. CommandInv => NothingLeftToDo
  BY DEF CommandInv
<1>2. QED
  BY <1>1, CommandAlways, PTL

(* A rollback that succeeds has restored the packages, keys excepted, and  *)
(* the marks of its target (TDNFHistoryResolve,                            *)
(* history_restore_auto_flags), however many transactions lie between and  *)
(* whichever of them failed, were interrupted or were rollbacks.           *)
THEOREM RollbackExactAlways ==
  ASSUME Undisturbed
  PROVE  Spec => []RollbackExact
  BY CommandAlways, DoneRollback, PTL

(* An undo or a redo that succeeds has taken every package that its range  *)
(* changed to where it was before or after the range, and has left the     *)
(* others alone (TDNFHistoryResolve), for every range of every history.    *)
THEOREM RangeReappliedAlways ==
  ASSUME Undisturbed
  PROVE  Spec => []RangeReapplied
  BY CommandAlways, DonePackages, PTL

(* And so have the marks (history_replay_auto_flags): a name whose mark    *)
(* the range changed has the mark of the target, the others keep theirs,   *)
(* although the command reads the marks while it writes them.              *)
THEOREM RangeFlagsAlways ==
  ASSUME Undisturbed
  PROVE  Spec => []RangeFlags
  BY CommandAlways, DoneFlags, PTL
=============================================================================
