--------------------------- MODULE HistoryProofs ---------------------------
(***************************************************************************)
(* What is proved about History, for every set of packages and of names    *)
(* and every bound.                                                        *)
(***************************************************************************)
EXTENDS HistoryProps, FiniteSetTheorems, SequenceTheorems, TLAPS

USE DEF RpmDbOK, HistoryDbOK, CommandOK, TypeOK
-----------------------------------------------------------------------------
(* The types of what the actions compute.                                  *)

LEMMA ConstantTypes ==
  NoDb \in RpmDb /\ NoCtx \in Context /\ NoScan \in Scan /\ NoTxn \in Contents /\ NoCmd \in Command
<1>1. NoDb \in RpmDb
  BY DEF NoDb, RpmDb
<1>2. NoCtx \in Context /\ NoScan \in Scan
  BY <1>1 DEF NoCtx, NoScan, Context, Scan
<1>3. NoTxn \in Contents
  BY DEF NoTxn, Contents
<1>4. NoCmd \in Command
  BY DEF NoCmd, Command, Ops, Value
<1>5. QED
  BY <1>1, <1>2, <1>3, <1>4

LEMMA InstalledType == \A d \in RpmDb : Installed(d) \subseteq Pkgs
  BY DEF Installed

LEMMA ReplayType == \A tr, t : Replay(tr, t) \subseteq Ids
  BY DEF Replay

LEMMA NamesOfType == \A S \in SUBSET Pkgs : NamesOf(S) \subseteq Names
  BY NameOfAssumption DEF NamesOf

LEMMA ApplyType ==
  ASSUME RpmDbOK, NEW A \in SUBSET Pkgs, NEW R \in SUBSET Pkgs
  PROVE  Apply(A, R) \in RpmDb
  BY DEF Apply, RpmDb

LEMMA AfterSyncType ==
  ASSUME CommandOK
  PROVE  AfterSync \in {"ok", "plan", "run", "flags"}
  BY DEF AfterSync, Stages

LEMMA LastType ==
  ASSUME HistoryDbOK
  PROVE  /\ Last \in Nat
         /\ trans # <<>> => Last > 0 /\ trans[Last] \in Transaction /\ trans[Last].cookie \in RpmDb
<1>1. Last \in Nat
  BY DEF Last
<1>2. ASSUME trans # <<>> PROVE Last > 0
  BY <1>1, <1>2, EmptySeq DEF Last
<1>3. ASSUME trans # <<>> PROVE trans[Last] \in Transaction
  BY <1>1, <1>2, <1>3, ElementOfSeq DEF Last
<1>4. QED
  BY <1>1, <1>2, <1>3 DEF Transaction

LEMMA CloseType ==
  ASSUME HistoryDbOK, Close, file' \in BOOLEAN
  PROVE  HistoryDbOK'
  BY ConstantTypes DEF Close, Contents

LEMMA QuitType ==
  ASSUME TypeOK, Quit
  PROVE  TypeOK'
<1>1. HistoryDbOK'
  BY CloseType DEF Quit
<1>2. CommandOK'
  BY ConstantTypes DEF Quit, Stages
<1>3. QED
  BY <1>1, <1>2 DEF Quit, rpmdb
-----------------------------------------------------------------------------
LEMMA TypeInit == Init => TypeOK
<1> SUFFICES ASSUME Init PROVE TypeOK
  OBVIOUS
<1>1. RpmDbOK
  BY DEF Init, RpmDb
<1>2. HistoryDbOK
  BY ConstantTypes, EmptySeq DEF Init
<1>3. CommandOK
  BY ConstantTypes DEF Init, Stages
<1>4. QED
  BY <1>1, <1>2, <1>3

LEMMA TypeUser == TypeOK /\ User => TypeOK'
<1> SUFFICES ASSUME TypeOK, User PROVE TypeOK'
  OBVIOUS
<1>1. ASSUME NEW c \in Command, NEW s \in {"open", "addtrans"}, NEW st \in Stages, Begin(c, s, st)
      PROVE  TypeOK'
  BY <1>1 DEF Begin, rpmdb, db, Steps
<1> USE DEF Command, NoCmd, Ops, HistoryOps, Value, Stages
<1>2. CASE BeginAlter
  <2>1. PICK add \in SUBSET Available, rem \in SUBSET Pkgs : \E user \in SUBSET NewNames(add, rem) :
          Begin([NoCmd EXCEPT !.op = "alter", !.add = add, !.rem = rem, !.user = user],
                "open", "before")
    BY <1>2 DEF BeginAlter
  <2>2. PICK user \in SUBSET NewNames(add, rem) :
          Begin([NoCmd EXCEPT !.op = "alter", !.add = add, !.rem = rem, !.user = user],
                "open", "before")
    BY <2>1
  <2>3. add \subseteq Pkgs /\ user \subseteq Names
    BY HistoryAssumption, NamesOfType DEF NewNames
  <2>4. [NoCmd EXCEPT !.op = "alter", !.add = add, !.rem = rem, !.user = user] \in Command
    BY <2>3
  <2>5. QED
    BY <1>1, <2>2, <2>4
<1>3. CASE BeginSingle
  <2>1. PICK p \in Installed(inst) :
          Begin([NoCmd EXCEPT !.op = "single", !.user = {NameOf[p]}], "addtrans", "before")
    BY <1>3 DEF BeginSingle
  <2>2. NameOf[p] \in Names
    BY NameOfAssumption DEF Installed
  <2>3. [NoCmd EXCEPT !.op = "single", !.user = {NameOf[p]}] \in Command
    BY <2>2
  <2>4. QED
    BY <1>1, <2>1, <2>3
<1>4. CASE BeginMark
  <2>1. PICK S \in SUBSET NamesOf(Installed(inst)), v \in Value :
          Begin([NoCmd EXCEPT !.op = "mark", !.user = S, !.value = v], "addtrans", "before")
    BY <1>4 DEF BeginMark
  <2>2. S \subseteq Names
    BY NamesOfType, InstalledType
  <2>3. [NoCmd EXCEPT !.op = "mark", !.user = S, !.value = v] \in Command
    BY <2>2
  <2>4. QED
    BY <1>1, <2>1, <2>3
<1>5. CASE BeginInit
  <2>1. [NoCmd EXCEPT !.op = "init"] \in Command
    OBVIOUS
  <2>2. QED
    BY <1>1, <1>5, <2>1 DEF BeginInit
<1>6. CASE BeginHistory
  <2>1. PICK op \in HistoryOps, from \in 0..(Last + 1), to \in 0..(Last + 1) :
          Begin([NoCmd EXCEPT !.op = op, !.from = from, !.to = to, !.pool = Installed(inst)],
                "open", "resolve")
    BY <1>6 DEF BeginHistory
  <2>2. from \in Nat /\ to \in Nat /\ Installed(inst) \subseteq Pkgs
    BY InstalledType, LastType
  <2>3. [NoCmd EXCEPT !.op = op, !.from = from, !.to = to, !.pool = Installed(inst)] \in Command
    BY <2>2
  <2>4. QED
    BY <1>1, <2>1, <2>3
<1>7. QED
  BY <1>2, <1>3, <1>4, <1>5, <1>6 DEF User

LEMMA CommitsType ==
  ASSUME HistoryDbOK, NEW x \in Transaction, Commits(Append(trans, x))
  PROVE  trans' \in Seq(Transaction) /\ disk' \in Contents
<1>1. Append(trans, x) \in Seq(Transaction)
  BY AppendProperties
<1>2. Txn \in Contents
  BY DEF Txn, Contents
<1>3. QED
  BY <1>1, <1>2 DEF Commits

LEMMA TypeSync == TypeOK /\ Sync => TypeOK'
<1> SUFFICES ASSUME TypeOK, Sync PROVE TypeOK'
  OBVIOUS
<1>0. Last \in Nat /\ Last + 1 \in Nat
  BY LastType
<1> USE DEF rpmdb, flagdb, db, locals, Steps, Finished
<1>1. CASE Open
  <2>1. saved' \in Nat
    BY <1>1, LastType DEF Open
  <2>2. scan' \in Scan
    BY <1>1, ConstantTypes DEF Open, Scan, NoScan
  <2>3. ctx' \in Context
    <3>1. CASE trans = <<>>
      BY <1>1, <3>1, ConstantTypes DEF Open, Context
    <3>2. CASE trans # <<>>
      <4>1. trans[Last].cookie \in RpmDb /\ Replay(trans, Last) \in SUBSET Ids
        BY <3>2, LastType, ReplayType
      <4>2. {} \in SUBSET Ids /\ NoDb \in RpmDb
        BY ConstantTypes
      <4>3. ctx' \in { [installed |-> {}, cookie |-> trans[Last].cookie, trans |-> Last],
                       [installed |-> Replay(trans, Last), cookie |-> trans[Last].cookie,
                        trans |-> Last],
                       [installed |-> {}, cookie |-> NoDb, trans |-> Last] }
        BY <1>1, <3>2 DEF Open, NoCtx
      <4>4. QED
        BY <4>1, <4>2, <4>3, <1>0 DEF Context
    <3>3. QED
      BY <3>1, <3>2
  <2>4. QED
    BY <1>1, <2>1, <2>2, <2>3 DEF Open
<1>2. CASE Update
  <2>1. scan' \in Scan
    BY <1>2, ConstantTypes DEF Update, CookieNow, Scan, NoScan
  <2>2. QED
    BY <1>2, <2>1, AfterSyncType DEF Update
<1>3. CASE Count
  <2>1. Cardinality(Installed(inst)) \in Nat
    BY PkgsAssumption, InstalledType, FS_Subset, FS_CardinalityType
  <2>2. QED
    BY <1>3, <2>1 DEF Count, Scan
<1>4. CASE Fill
  <2>1. PICK T \in Slots(Installed(inst), scan.count) :
          /\ scan' = [scan EXCEPT !.ids = T]
          /\ ctx' = IF scan.then = "delta" THEN ctx ELSE [ctx EXCEPT !.installed = T]
    BY <1>4 DEF Fill
  <2>2. T \subseteq Ids
    BY InstalledType DEF Slots, Ids
  <2>3. scan' \in Scan /\ ctx' \in Context
    BY <2>1, <2>2 DEF Scan, Context
  <2>4. pc' \in Steps \cup Finished
    BY <1>4, AfterSyncType DEF Fill, Scan
  <2>5. rpms' \subseteq Pkgs
    BY <1>4, InstalledType DEF Fill, RowsAdded
  <2>6. QED
    BY <1>4, <2>3, <2>4, <2>5 DEF Fill
<1>5. CASE FillAborts
  BY <1>5, InstalledType DEF FillAborts, RowsAdded
<1>6. CASE Record
  <2>1. Baseline \in Transaction
    BY DEF Baseline, Transaction, Context
  <2>2. ctx' \in Context
    BY <1>6, <1>0 DEF Record, Context
  <2>3. QED
    BY <1>6, <2>1, <2>2, CommitsType, AfterSyncType DEF Record
<1>7. CASE AddDelta
  <2>1. DeltaFor(scan.cookie, ctx.installed, scan.ids) \in Transaction
    BY DEF DeltaFor, Diff, Transaction, Context, Scan
  <2>2. ctx' \in Context
    BY <1>7, <1>0 DEF AddDelta, Context, Scan
  <2>3. QED
    BY <1>7, <2>1, <2>2, CommitsType, AfterSyncType DEF AddDelta
<1>8. CASE RollBack
  <2>1. HistoryDbOK'
    BY <1>8, CloseType DEF RollBack
  <2>2. QED
    BY <1>8, <2>1 DEF RollBack
<1>9. QED
  BY <1>1, <1>2, <1>3, <1>4, <1>5, <1>6, <1>7, <1>8 DEF Sync

LEMMA TypeResolve == TypeOK /\ Resolve => TypeOK'
<1> SUFFICES ASSUME TypeOK, Resolve PROVE TypeOK'
  OBVIOUS
<1> USE DEF rpmdb, flagdb, db, locals, Steps, Finished
<1>1. CASE PlanFails \/ PlanUnresolved \/ PlanCrashes \/ PlanEmpty \/ PlanDeclined
  BY <1>1 DEF PlanFails, PlanUnresolved, PlanCrashes, PlanEmpty, PlanDeclined
<1>2. CASE Plan
  <2>1. PICK X \in IF NothingToAlter THEN {{}} ELSE Extras :
          cmd' = [cmd EXCEPT !.add = ToInstall \cup X, !.rem = ToErase \cup Replaced,
                             !.user = NamesOf(ToInstall)]
    BY <1>2 DEF Plan
  <2>2. X \subseteq Pkgs
    BY HistoryAssumption DEF Extras
  <2>3. ToInstall \subseteq Pkgs
    BY HistoryAssumption DEF ToInstall
  <2>4. (ToErase \cup Replaced) \subseteq Pkgs
    BY DEF ToErase, Replaced, Command
  <2>5. cmd' \in Command
    BY <2>1, <2>2, <2>3, <2>4, NamesOfType DEF Command
  <2>6. HistoryDbOK'
    BY <1>2, CloseType DEF Plan
  <2>7. QED
    BY <1>2, <2>5, <2>6, ConstantTypes DEF Plan, Stages
<1>3. QED
  BY <1>1, <1>2 DEF Resolve

LEMMA FlagWriteType ==
  ASSUME TypeOK, NEW n \in Names, NEW v \in Value, NEW j \in Nat, SetAutoFlag(n, v, j)
  PROVE  /\ tables' \subseteq {"names", "flag_set"}
         /\ names' \in Seq(Names)
         /\ flags' \in Seq(FlagRow)
<1>1. NewFlag(n, v) \in FlagRow
  BY DEF NewFlag, FlagRow, Context
<1>2. Append(flags, NewFlag(n, v)) \in Seq(FlagRow) /\ Append(names, n) \in Seq(Names)
  BY <1>1, AppendProperties
<1>3. QED
  BY <1>2 DEF SetAutoFlag

LEMMA ValueForType == ASSUME TypeOK, NEW n PROVE ValueFor(n) \in Value
  BY DEF ValueFor, Value, Command

LEMMA TypeExecute == TypeOK /\ Execute => TypeOK'
<1> SUFFICES ASSUME TypeOK, Execute PROVE TypeOK'
  OBVIOUS
<1>0. Last \in Nat /\ Last + 1 \in Nat
  BY LastType
<1> USE DEF rpmdb, flagdb, db, locals, Steps, Finished
<1>1. CASE Run
  <2>1. inst' \in RpmDb
    BY <1>1, ApplyType DEF Run, Command
  <2>2. QED
    BY <1>1, <2>1 DEF Run, Stages
<1>2. CASE RunRefused \/ MarkEnds \/ RestoreEnds
  BY <1>2 DEF RunRefused, MarkEnds, RestoreEnds
<1>3. ASSUME NEW c \in RpmDb
      PROVE  Append(trans, [EmptyTransaction EXCEPT !.cookie = c]) \in Seq(Transaction)
  <2>1. [EmptyTransaction EXCEPT !.cookie = c] \in Transaction
    BY DEF EmptyTransaction, Transaction
  <2>2. QED
    BY <2>1, AppendProperties
<1>4. CASE MarkOpens
  <2> DEFINE cookie == IF trans = <<>> THEN NoDb ELSE trans[Last].cookie
  <2>1. cookie \in RpmDb
    BY ConstantTypes, LastType
  <2>2. trans' \in Seq(Transaction)
    BY <1>4, <1>3, <2>1 DEF MarkOpens
  <2>3. ctx' \in Context
    BY <1>4, <2>1, <1>0, ConstantTypes DEF MarkOpens, Context
  <2>4. todo' \subseteq Names
    BY <1>4 DEF MarkOpens, Command
  <2>5. QED
    BY <1>4, <2>2, <2>3, <2>4 DEF MarkOpens
<1>5. CASE Flags
  <2>1. NewNames(cmd.add, cmd.rem) \subseteq Names
    BY NamesOfType DEF NewNames, Command
  <2>2. EmptyTransaction \in Transaction
    BY DEF EmptyTransaction, Transaction, Context
  <2>3. Append(trans, EmptyTransaction) \in Seq(Transaction)
    BY <2>2, AppendProperties
  <2>4. trans' \in Seq(Transaction) /\ ctx' \in Context
    BY <1>5, <2>3, <1>0 DEF Flags, Context
  <2>5. todo' \subseteq Names
    BY <1>5, <2>1 DEF Flags
  <2>6. pc' \in Steps
    BY <1>5 DEF Flags
  <2>7. QED
    BY <1>5, <2>4, <2>5, <2>6 DEF Flags
<1>6. ASSUME NEW n \in Names, Mark(n) PROVE TypeOK'
  <2>1. CASE SetAutoFlag(n, ValueFor(n), 4)
    BY <1>6, <2>1, FlagWriteType, ValueForType DEF Mark
  <2>2. CASE UNCHANGED flagdb
    BY <1>6, <2>2 DEF Mark
  <2>3. QED
    BY <1>6, <2>1, <2>2 DEF Mark
<1>7. CASE Restore
  <2>1. names[idx] \in Names
    BY <1>7, ElementOfSeq DEF Restore
  <2>2. NewFlag(names[idx], FlagAt(flags, RangeTo, names[idx])) \in FlagRow
    BY <2>1 DEF NewFlag, FlagRow, FlagAt, Value, Context
  <2>3. Append(flags, NewFlag(names[idx], FlagAt(flags, RangeTo, names[idx]))) \in Seq(FlagRow)
    BY <2>2, AppendProperties
  <2>4. flags' \in Seq(FlagRow)
    BY <1>7, <2>3 DEF Restore
  <2>5. idx' \in Nat \ {0}
    BY <1>7 DEF Restore
  <2>6. QED
    BY <1>7, <2>4, <2>5 DEF Restore
<1>8. QED
  BY <1>1, <1>2, <1>4, <1>5, <1>6, <1>7 DEF Execute

LEMMA TypeFailure == TypeOK /\ Failure => TypeOK'
<1> SUFFICES ASSUME TypeOK, Failure PROVE TypeOK'
  OBVIOUS
<1> USE DEF rpmdb, flagdb, db, locals, Steps, Finished
<1>1. CASE FillFails
  BY <1>1, InstalledType DEF FillFails, RowsAdded
<1>2. CASE RunFails
  <2>1. inst' \in RpmDb
    BY <1>2, ApplyType DEF RunFails, Command
  <2>2. QED
    BY <1>2, <2>1 DEF RunFails
<1>3. CASE FlagsFail \/ RestoreFails
  BY <1>3 DEF FlagsFail, RestoreFails
<1>4. ASSUME NEW n \in Names, MarkFails(n) PROVE TypeOK'
  <2>1. PICK j \in 0..3 : SetAutoFlag(n, ValueFor(n), j)
    BY <1>4 DEF MarkFails
  <2>2. QED
    BY <1>4, <2>1, FlagWriteType, ValueForType DEF MarkFails
<1>5. CASE Crash
  BY <1>5, QuitType DEF Crash
<1>6. QED
  BY <1>1, <1>2, <1>3, <1>4, <1>5 DEF Failure

LEMMA TypeExternal == TypeOK /\ External => TypeOK'
  BY ApplyType DEF External, db, locals

LEMMA TypeStep == TypeOK /\ [Next]_vars => TypeOK'
<1>1. TypeOK /\ UNCHANGED vars => TypeOK'
  BY DEF vars
<1>2. TypeOK /\ Return => TypeOK'
  BY QuitType DEF Return
<1>3. QED
  BY <1>1, <1>2, TypeUser, TypeSync, TypeResolve, TypeExecute, TypeFailure, TypeExternal
  DEF Next, Client

(* Every variable has its type, whatever fails and whoever else uses rpm.  *)
(* In particular what a torn scan of the rpm database leaves in the arrays *)
(* of history_sync are ids or zeros (db_update_rpms).                      *)
THEOREM TypeCorrect == Spec => []TypeOK
  BY TypeInit, TypeStep, PTL DEF Spec
-----------------------------------------------------------------------------
(* The journal is faithful.  The inductive invariant says what the context *)
(* and the scan of a command are worth at each of its steps, and that the  *)
(* database which an open transaction hides is faithful too.               *)

OneBase(tr) == \A i \in DOMAIN tr : tr[i].type = "base" <=> i = 1

Synced ==
  /\ trans # <<>>
  /\ ctx.trans = Last /\ ctx.cookie = trans[Last].cookie
  /\ ctx.installed = Installed(ctx.cookie)

ScanInv ==
  /\ pc \in {"count", "fill"} =>
       /\ scan.cookie = inst
       /\ scan.then = "record" => trans = <<>> /\ ctx.cookie = inst
       /\ scan.then = "synced" =>
            trans # <<>> /\ ctx.trans = Last /\ ctx.cookie = trans[Last].cookie /\ ctx.cookie = inst
       /\ scan.then = "delta" => Synced
  /\ pc = "fill" => scan.count = Cardinality(Installed(inst))
  /\ pc = "record" => trans = <<>> /\ ctx.installed = Installed(ctx.cookie) /\ ctx.installed \subseteq rpms
  /\ pc = "delta" => Synced /\ scan.ids = Installed(scan.cookie) /\ scan.ids \subseteq rpms
  /\ pc \in {"update", "plan", "run", "flags", "restore"} => Synced
  /\ pc = "addtrans" => cmd.op \in {"mark", "single"}
  /\ pc = "mark" /\ cmd.op \notin {"mark", "single"} => Synced

DbInv ==
  /\ JournalFaithful /\ OneBase(trans)
  /\ disk.open => Faithful(disk.trans, disk.rpms) /\ OneBase(disk.trans)

JournalInv == TypeOK /\ DbInv /\ ScanInv

LEMMA BaselineIsFirst ==
  ASSUME NEW tr \in Seq(Transaction), OneBase(tr), NEW t \in DOMAIN tr
  PROVE  BaselinesTo(tr, t) = {1} /\ MaxOf(BaselinesTo(tr, t)) = 1
<1>1. t \in 1..Len(tr) /\ DOMAIN tr = 1..Len(tr)
  OBVIOUS
<1>2. BaselinesTo(tr, t) = {1}
  BY <1>1 DEF BaselinesTo, OneBase
<1>3. 1 \in {1} /\ \A x \in {1} : x <= 1
  OBVIOUS
<1>4. MaxOf({1}) = 1
  BY <1>3 DEF MaxOf
<1>5. QED
  BY <1>2, <1>4

(* db_play_transaction with the baseline in the first transaction.         *)
LEMMA ReplayFromFirst ==
  ASSUME NEW tr \in Seq(Transaction), OneBase(tr), NEW t \in DOMAIN tr, NEW known
  PROVE  /\ CanReplay(tr, known, t) <=> \A i \in 1..t : (tr[i].add \cup tr[i].rem) \subseteq known
         /\ Replay(tr, t) = {p \in Ids : \E i \in 1..t :
              p \in tr[i].add /\ \A j \in (i + 1)..t : p \notin tr[j].rem}
<1>1. BaselinesTo(tr, t) # {} /\ MaxOf(BaselinesTo(tr, t)) = 1
  BY BaselineIsFirst
<1>2. t \in 1..Len(tr) /\ DOMAIN tr = 1..Len(tr)
  OBVIOUS
<1>3. CanReplay(tr, known, t) <=> \A i \in 1..t : (tr[i].add \cup tr[i].rem) \subseteq known
  BY <1>1, <1>2 DEF CanReplay
<1>4. Replay(tr, t) = {p \in Ids : \E i \in 1..t :
              p \in tr[i].add /\ \A j \in (i + 1)..t : p \notin tr[j].rem}
  BY <1>1, <1>2 DEF Replay
<1>5. QED
  BY <1>3, <1>4

LEMMA MoreKnown ==
  ASSUME NEW tr, NEW known, NEW more, known \subseteq more, Faithful(tr, known)
  PROVE  Faithful(tr, more)
  BY DEF Faithful, CanReplay

(* A transaction that describes the step from the last state to the state  *)
(* of its cookie keeps a history faithful.                                 *)
LEMMA FaithfulAppend ==
  ASSUME NEW tr \in Seq(Transaction), NEW known, NEW x \in Transaction,
         OneBase(tr), Faithful(tr, known), (x.add \cup x.rem) \subseteq known,
         x.type = "base" <=> tr = <<>>,
         Installed(x.cookie) =
           (IF tr = <<>> THEN {} ELSE Installed(tr[Len(tr)].cookie) \ x.rem) \cup x.add
  PROVE  OneBase(Append(tr, x)) /\ Faithful(Append(tr, x), known)
<1> DEFINE n  == Len(tr)
           ap == Append(tr, x)
<1>1. /\ n \in Nat /\ DOMAIN tr = 1..n
      /\ ap \in Seq(Transaction) /\ DOMAIN ap = 1..(n + 1)
      /\ ap[n + 1] = x /\ \A i \in 1..n : ap[i] = tr[i]
  BY AppendProperties, LenProperties
<1>2. tr = <<>> <=> n = 0
  BY EmptySeq, <1>1
<1> HIDE DEF ap
<1>3. OneBase(ap)
  BY <1>1, <1>2 DEF OneBase
<1>4. ASSUME NEW t \in 1..n
      PROVE  CanReplay(ap, known, t) /\ Replay(ap, t) = Installed(ap[t].cookie)
  <2>1. /\ CanReplay(ap, known, t) <=> \A i \in 1..t : (ap[i].add \cup ap[i].rem) \subseteq known
        /\ Replay(ap, t) = {p \in Ids : \E i \in 1..t :
              p \in ap[i].add /\ \A j \in (i + 1)..t : p \notin ap[j].rem}
    <3>1. t \in DOMAIN ap
      BY <1>1
    <3>2. QED
      BY <1>1, <1>3, <3>1, ReplayFromFirst
  <2>2. /\ CanReplay(tr, known, t) <=> \A i \in 1..t : (tr[i].add \cup tr[i].rem) \subseteq known
        /\ Replay(tr, t) = {p \in Ids : \E i \in 1..t :
              p \in tr[i].add /\ \A j \in (i + 1)..t : p \notin tr[j].rem}
    BY <1>1, ReplayFromFirst
  <2>3. \A i \in 1..t : i \in 1..n /\ ap[i] = tr[i] /\ \A j \in (i + 1)..t : ap[j] = tr[j]
    BY <1>1
  <2>4. CanReplay(ap, known, t) <=> CanReplay(tr, known, t)
    BY <2>1, <2>2, <2>3
  <2>5. Replay(ap, t) = Replay(tr, t)
    BY <2>1, <2>2, <2>3
  <2>6. QED
    BY <1>1, <2>4, <2>5 DEF Faithful
<1>5. CanReplay(ap, known, n + 1) /\ Replay(ap, n + 1) = Installed(ap[n + 1].cookie)
  <2>1. /\ CanReplay(ap, known, n + 1) <=>
             \A i \in 1..(n + 1) : (ap[i].add \cup ap[i].rem) \subseteq known
        /\ Replay(ap, n + 1) = {p \in Ids : \E i \in 1..(n + 1) :
              p \in ap[i].add /\ \A j \in (i + 1)..(n + 1) : p \notin ap[j].rem}
    <3>1. n + 1 \in DOMAIN ap
      BY <1>1
    <3>2. ap \in Seq(Transaction)
      BY <1>1
    <3> HIDE DEF n
    <3>3. QED
      BY <1>3, <3>1, <3>2, ReplayFromFirst, Zenon
  <2>2. CASE n = 0
    <3>1. x.add \subseteq Ids
      BY DEF Transaction
    <3>2. /\ n + 1 \in 1..(n + 1) /\ \A i \in 1..(n + 1) : i = n + 1
          /\ \A j \in (n + 1 + 1)..(n + 1) : FALSE
      BY <2>2
    <3>3. CanReplay(ap, known, n + 1)
      BY <1>1, <2>1, <3>2
    <3>4. Replay(ap, n + 1) = x.add
      BY <1>1, <2>1, <3>1, <3>2
    <3>5. Installed(x.cookie) = x.add
      BY <1>2, <2>2
    <3>6. QED
      BY <1>1, <3>3, <3>4, <3>5
  <2>3. CASE n # 0
    <3>1. /\ CanReplay(tr, known, n) <=> \A i \in 1..n : (tr[i].add \cup tr[i].rem) \subseteq known
          /\ Replay(tr, n) = {p \in Ids : \E i \in 1..n :
                p \in tr[i].add /\ \A j \in (i + 1)..n : p \notin tr[j].rem}
      <4>1. n \in DOMAIN tr
        BY <1>1, <2>3
      <4>2. QED
        BY <4>1, ReplayFromFirst
    <3>2. CanReplay(tr, known, n) /\ Replay(tr, n) = Installed(tr[n].cookie)
      BY <1>1, <2>3 DEF Faithful
    <3>3. CanReplay(ap, known, n + 1)
      BY <1>1, <2>1, <3>1, <3>2
    <3>4. Replay(ap, n + 1) = (Replay(tr, n) \ x.rem) \cup x.add
      <4>1. x.add \subseteq Ids
        BY DEF Transaction
      <4>2. ASSUME NEW p \in Ids
            PROVE  (\E i \in 1..(n + 1) : p \in ap[i].add /\ \A j \in (i + 1)..(n + 1) : p \notin ap[j].rem)
                   <=> \/ p \in x.add
                       \/ p \notin x.rem /\ \E i \in 1..n : p \in tr[i].add /\ \A j \in (i + 1)..n : p \notin tr[j].rem
        <5>1. ASSUME NEW i \in 1..n
              PROVE  (\A j \in (i + 1)..(n + 1) : p \notin ap[j].rem)
                     <=> p \notin x.rem /\ \A j \in (i + 1)..n : p \notin tr[j].rem
          <6>1. \A j \in (i + 1)..(n + 1) : j = n + 1 \/ (j \in (i + 1)..n /\ j \in 1..n)
            BY <1>1
          <6>2. n + 1 \in (i + 1)..(n + 1) /\ \A j \in (i + 1)..n : j \in (i + 1)..(n + 1) /\ j \in 1..n
            BY <1>1
          <6>3. QED
            BY <1>1, <6>1, <6>2
        <5>2. \A i \in 1..(n + 1) : i = n + 1 \/ i \in 1..n
          BY <1>1
        <5>3. n + 1 \in 1..(n + 1) /\ \A i \in 1..n : i \in 1..(n + 1) /\ ap[i].add = tr[i].add
          BY <1>1
        <5>4. \A j \in (n + 1 + 1)..(n + 1) : FALSE
          BY <1>1
        <5>5. QED
          BY <1>1, <5>1, <5>2, <5>3, <5>4
      <4>3. QED
        BY <2>1, <3>1, <4>1, <4>2
    <3>5. QED
      BY <1>1, <1>2, <2>3, <3>2, <3>3, <3>4
  <2>4. QED
    BY <2>2, <2>3
<1>6. \A t \in DOMAIN ap : t = n + 1 \/ t \in 1..n
  BY <1>1
<1>7. Faithful(ap, known)
  BY <1>4, <1>5, <1>6 DEF Faithful
<1>8. QED
  BY <1>3, <1>7 DEF ap

LEMMA DbKept ==
  ASSUME DbInv, rpms \subseteq rpms', UNCHANGED <<trans, disk>>
  PROVE  DbInv'
<1>1. Faithful(trans, rpms')
  BY MoreKnown DEF DbInv, JournalFaithful
<1>2. QED
  BY <1>1 DEF DbInv, JournalFaithful

LEMMA DbClosed == ASSUME DbInv, Close PROVE DbInv'
<1>1. CASE disk.open
  BY <1>1 DEF DbInv, Close, JournalFaithful, NoTxn
<1>2. CASE ~disk.open
  BY <1>2 DEF DbInv, Close, JournalFaithful, NoTxn
<1>3. QED
  BY <1>1, <1>2

LEMMA DbAppended ==
  ASSUME TypeOK, DbInv, NEW x \in Transaction, (x.add \cup x.rem) \subseteq rpms,
         x.type = "base" <=> trans = <<>>,
         Installed(x.cookie) =
           (IF trans = <<>> THEN {} ELSE Installed(trans[Last].cookie) \ x.rem) \cup x.add,
         trans' = Append(trans, x), rpms' = rpms, disk' \in {disk, Txn}
  PROVE  /\ DbInv'
         /\ trans' # <<>> /\ Len(trans') = Last + 1 /\ trans'[Last + 1] = x
<1>1. OneBase(trans') /\ Faithful(trans', rpms)
  BY FaithfulAppend DEF DbInv, JournalFaithful, Last
<1>2. trans' # <<>> /\ Len(trans') = Last + 1 /\ trans'[Last + 1] = x
  BY AppendProperties DEF Last
<1>3. disk'.open => Faithful(disk'.trans, disk'.rpms) /\ OneBase(disk'.trans)
  BY DEF DbInv, JournalFaithful, Txn
<1>4. QED
  BY <1>1, <1>2, <1>3 DEF DbInv, JournalFaithful

(* An empty transaction repeats the cookie of the last one.                *)
LEMMA DbAppendedEmpty ==
  ASSUME TypeOK, DbInv, trans # <<>>, NEW x,
         x = [type |-> "delta", cookie |-> trans[Last].cookie, add |-> {}, rem |-> {}],
         trans' = Append(trans, x), rpms' = rpms, disk' = disk
  PROVE  /\ DbInv'
         /\ trans' # <<>> /\ Len(trans') = Last + 1 /\ trans'[Last + 1] = x
<1>1. x \in Transaction
  BY LastType DEF Transaction
<1>2. QED
  BY <1>1, DbAppended

(* The two passes over the rpm database see the same packages.             *)
LEMMA SlotsExact ==
  ASSUME inst \in RpmDb, NEW T \in Slots(Installed(inst), Cardinality(Installed(inst)))
  PROVE  T = Installed(inst)
<1>1. IsFiniteSet(Installed(inst))
  BY PkgsAssumption, InstalledType, FS_Subset
<1>2. Cardinality(Installed(inst)) \in Nat
  BY <1>1, FS_CardinalityType
<1>3. T \in SUBSET Installed(inst) /\ Cardinality(T) = Cardinality(Installed(inst))
  BY <1>2 DEF Slots
<1>4. QED
  BY <1>1, <1>3, FS_Subset

LEMMA ScanDone ==
  ASSUME pc' \in Finished \cup {"idle", "open"}
  PROVE  ScanInv'
  BY DEF ScanInv, Finished

LEMMA ScanAfterSync ==
  ASSUME TypeOK, pc' = AfterSync, Synced'
  PROVE  ScanInv'
<1>1. pc' \in {"ok", "plan", "run", "flags"}
  BY AfterSyncType
<1>2. QED
  BY <1>1 DEF ScanInv

LEMMA SyncedKept ==
  ASSUME Synced, UNCHANGED <<trans, ctx>>
  PROVE  Synced'
  BY DEF Synced, Last

LEMMA JournalInit == Init => JournalInv
<1> SUFFICES ASSUME Init PROVE JournalInv
  OBVIOUS
<1>1. DbInv
  BY DEF Init, DbInv, JournalFaithful, Faithful, OneBase, NoTxn
<1>2. ScanInv
  BY DEF Init, ScanInv
<1>3. QED
  BY <1>1, <1>2, TypeInit DEF JournalInv

LEMMA JournalUser == JournalInv /\ User => DbInv' /\ ScanInv'
<1> SUFFICES ASSUME JournalInv, User PROVE DbInv' /\ ScanInv'
  OBVIOUS
<1>1. UNCHANGED <<rpms, trans, disk>>
  BY DEF User, BeginAlter, BeginSingle, BeginMark, BeginInit, BeginHistory, Begin, db
<1>2. pc' = "open" \/ (pc' = "addtrans" /\ cmd'.op \in {"mark", "single"})
  BY DEF User, BeginAlter, BeginSingle, BeginMark, BeginInit, BeginHistory, Begin, NoCmd
<1>3. QED
  BY <1>1, <1>2, DbKept DEF JournalInv, ScanInv

LEMMA JournalSync ==
  ASSUME "full" \notin Failures
  PROVE  JournalInv /\ Sync => DbInv' /\ ScanInv'
<1> SUFFICES ASSUME JournalInv, Sync PROVE DbInv' /\ ScanInv'
  OBVIOUS
<1> USE DEF rpmdb, flagdb, db, locals
<1>0. TypeOK /\ DbInv /\ Last \in Nat /\ Last + 1 \in Nat
  BY LastType DEF JournalInv
<1>1. CASE Open
  <2>1. DbInv'
    BY <1>0, <1>1, DbKept DEF Open
  <2>2. CASE trans = <<>>
    <3>1. scan'.cookie = inst /\ scan'.then = "record" /\ ctx'.cookie = inst
      BY <1>1, <2>2, ConstantTypes DEF Open, Scan, Context
    <3>2. pc' = "count" /\ UNCHANGED <<inst, trans>>
      BY <1>1, <2>2 DEF Open
    <3>3. QED
      BY <2>1, <2>2, <3>1, <3>2 DEF ScanInv
  <2>3. CASE trans # <<>> /\ trans[Last].cookie = inst
    <3>1. /\ scan'.cookie = inst /\ scan'.then = "synced"
          /\ ctx'.cookie = inst /\ ctx'.trans = Last
      BY <1>1, <2>3, ConstantTypes DEF Open, Scan, Context
    <3>2. pc' = "count" /\ UNCHANGED <<inst, trans>>
      BY <1>1, <2>3 DEF Open
    <3>3. QED
      BY <2>1, <2>3, <3>1, <3>2 DEF ScanInv, Last
  <2>4. CASE trans # <<>> /\ trans[Last].cookie # inst /\ CanReplay(trans, rpms, Last)
    <3>1. Replay(trans, Last) = Installed(trans[Last].cookie)
      <4>1. Last \in DOMAIN trans
        BY <1>0, <2>4, LastType DEF Last
      <4>2. QED
        BY <1>0, <4>1 DEF DbInv, JournalFaithful, Faithful
    <3>2. pc' = "update" /\ Synced'
      BY <1>1, <2>4, <3>1 DEF Open, Synced, Last
    <3>3. QED
      BY <2>1, <3>2 DEF ScanInv
  <2>5. CASE trans # <<>> /\ trans[Last].cookie # inst /\ ~CanReplay(trans, rpms, Last)
    BY <1>1, <2>1, <2>5, ScanDone DEF Open, Finished
  <2>6. QED
    BY <2>1, <2>2, <2>3, <2>4, <2>5
<1>2. CASE Update
  <2>1. DbInv' /\ Synced'
    BY <1>0, <1>2, DbKept, SyncedKept DEF Update, JournalInv, ScanInv
  <2>2. CASE ctx.cookie = CookieNow
    BY <1>0, <1>2, <2>1, <2>2, ScanAfterSync DEF Update
  <2>3. CASE ctx.cookie # CookieNow
    BY <1>2, <2>1, <2>3 DEF Update, ScanInv, NoScan, CookieNow
  <2>4. QED
    BY <2>1, <2>2, <2>3
<1>3. CASE Count
  <2>1. DbInv'
    BY <1>0, <1>3, DbKept DEF Count
  <2>2. scan'.count = Cardinality(Installed(inst)) /\ scan'.then = scan.then /\ scan'.cookie = scan.cookie
    BY <1>0, <1>3 DEF Count, Scan
  <2>3. scan.then = "delta" => Synced'
    BY <1>3, SyncedKept DEF Count, JournalInv, ScanInv
  <2>4. QED
    BY <1>3, <2>1, <2>2, <2>3 DEF Count, JournalInv, ScanInv, Last
<1>4. CASE Fill
  <2>1. PICK T \in Slots(Installed(inst), scan.count) :
          /\ scan' = [scan EXCEPT !.ids = T]
          /\ ctx' = IF scan.then = "delta" THEN ctx ELSE [ctx EXCEPT !.installed = T]
    BY <1>4 DEF Fill
  <2>2. T = Installed(inst)
    BY <1>0, <1>4, <2>1, SlotsExact DEF Fill, JournalInv, ScanInv
  <2>3. DbInv' /\ T \subseteq rpms'
    BY <1>0, <1>4, <2>2, DbKept DEF Fill, RowsAdded
  <2>4. CASE scan.then = "synced"
    <3>1. Synced'
      BY <1>0, <1>4, <2>1, <2>2, <2>4 DEF Fill, JournalInv, ScanInv, Synced, Context, Last
    <3>2. QED
      BY <1>0, <1>4, <2>3, <2>4, <3>1, ScanAfterSync DEF Fill
  <2>5. CASE scan.then = "record"
    <3>1. trans' = <<>> /\ ctx'.installed = Installed(ctx'.cookie) /\ ctx'.installed \subseteq rpms'
      BY <1>0, <1>4, <2>1, <2>2, <2>3, <2>5 DEF Fill, JournalInv, ScanInv, Context
    <3>2. QED
      BY <1>4, <2>3, <2>5, <3>1 DEF Fill, ScanInv
  <2>6. CASE scan.then = "delta"
    <3>1. Synced'
      BY <1>4, <2>1, <2>6, SyncedKept DEF Fill, JournalInv, ScanInv
    <3>2. scan'.ids = Installed(scan'.cookie) /\ scan'.ids \subseteq rpms'
      BY <1>0, <1>4, <2>1, <2>2, <2>3, <2>6 DEF Fill, JournalInv, ScanInv, Scan
    <3>3. QED
      BY <1>4, <2>3, <2>6, <3>1, <3>2 DEF Fill, ScanInv
  <2>7. QED
    BY <1>0, <2>4, <2>5, <2>6 DEF Scan
<1>5. CASE FillAborts
  BY <1>0, <1>5, DbKept, ScanDone DEF FillAborts, Finished
<1>6. CASE Record
  <2>1. trans = <<>> /\ ctx.installed = Installed(ctx.cookie) /\ ctx.installed \subseteq rpms
    BY <1>6 DEF Record, JournalInv, ScanInv
  <2>2. Baseline \in Transaction
    BY <1>0 DEF Baseline, Transaction, Context
  <2>3. trans' = Append(trans, Baseline) /\ disk' \in {disk, Txn}
    BY <1>6 DEF Record, Commits
  <2>4. /\ DbInv'
        /\ trans' # <<>> /\ Len(trans') = Last + 1 /\ trans'[Last + 1] = Baseline
    BY <1>0, <1>6, <2>1, <2>2, <2>3, DbAppended DEF Record, Baseline
  <2>5. Synced'
    BY <1>0, <1>6, <2>1, <2>4 DEF Record, Synced, Baseline, Context, Last
  <2>6. QED
    BY <1>0, <1>6, <2>4, <2>5, ScanAfterSync DEF Record
<1>7. CASE AddDelta
  <2> DEFINE x == DeltaFor(scan.cookie, ctx.installed, scan.ids)
  <2>1. Synced /\ scan.ids = Installed(scan.cookie) /\ scan.ids \subseteq rpms
    BY <1>7 DEF AddDelta, JournalInv, ScanInv
  <2>2. x \in Transaction
    BY <1>0 DEF DeltaFor, Diff, Transaction, Context, Scan
  <2>3. x.type = "delta" /\ x.cookie = scan.cookie /\ x.add = scan.ids \ ctx.installed
          /\ x.rem = ctx.installed \ scan.ids
    BY DEF DeltaFor, Diff
  <2>4. trans' = Append(trans, x) /\ disk' \in {disk, Txn}
    BY <1>7 DEF AddDelta, Commits
  <2>5. ctx.installed \subseteq rpms
    <3>1. Last \in DOMAIN trans
      BY <1>0, <2>1, LastType DEF Last, Synced
    <3>2. /\ CanReplay(trans, rpms, Last) <=>
               \A i \in 1..Last : (trans[i].add \cup trans[i].rem) \subseteq rpms
          /\ Replay(trans, Last) = {p \in Ids : \E i \in 1..Last :
               p \in trans[i].add /\ \A j \in (i + 1)..Last : p \notin trans[j].rem}
      BY <1>0, <3>1, ReplayFromFirst DEF DbInv
    <3>3. CanReplay(trans, rpms, Last) /\ Replay(trans, Last) = ctx.installed
      BY <1>0, <2>1, <3>1 DEF DbInv, JournalFaithful, Faithful, Synced
    <3>4. QED
      BY <3>2, <3>3
  <2>6. Installed(x.cookie) = (Installed(trans[Last].cookie) \ x.rem) \cup x.add
    BY <2>1, <2>3 DEF Synced
  <2> HIDE DEF x
  <2>7. /\ DbInv'
        /\ trans' # <<>> /\ Len(trans') = Last + 1 /\ trans'[Last + 1] = x
    BY <1>0, <1>7, <2>1, <2>2, <2>3, <2>4, <2>5, <2>6, DbAppended DEF AddDelta, Synced
  <2>8. Synced'
    BY <1>0, <1>7, <2>1, <2>3, <2>7 DEF AddDelta, Synced, Last
  <2>9. QED
    BY <1>0, <1>7, <2>7, <2>8, ScanAfterSync DEF AddDelta
<1>8. CASE RollBack
  BY <1>0, <1>8, DbClosed, ScanDone DEF RollBack, Finished
<1>9. QED
  BY <1>1, <1>2, <1>3, <1>4, <1>5, <1>6, <1>7, <1>8 DEF Sync

LEMMA JournalResolve == JournalInv /\ Resolve => DbInv' /\ ScanInv'
<1> SUFFICES ASSUME JournalInv, Resolve PROVE DbInv' /\ ScanInv'
  OBVIOUS
<1>1. CASE PlanFails \/ PlanUnresolved \/ PlanCrashes \/ PlanEmpty \/ PlanDeclined
  <2>1. UNCHANGED db /\ pc' \in Finished
    BY <1>1 DEF PlanFails, PlanUnresolved, PlanCrashes, PlanEmpty, PlanDeclined, Finished
  <2>2. QED
    BY <2>1, DbKept, ScanDone DEF JournalInv, db
<1>2. CASE Plan
  BY <1>2, DbClosed, ScanDone DEF Plan, JournalInv
<1>3. QED
  BY <1>1, <1>2 DEF Resolve

LEMMA JournalExecute == JournalInv /\ Execute => DbInv' /\ ScanInv'
<1> SUFFICES ASSUME JournalInv, Execute PROVE DbInv' /\ ScanInv'
  OBVIOUS
<1> USE DEF rpmdb, flagdb, db, locals
<1>0. TypeOK /\ DbInv /\ Last \in Nat /\ Last + 1 \in Nat
  BY LastType DEF JournalInv
<1>1. CASE Run
  <2>1. Synced'
    BY <1>1, SyncedKept DEF Run, JournalInv, ScanInv
  <2>2. QED
    BY <1>0, <1>1, <2>1, DbKept DEF Run, ScanInv
<1>2. CASE RunRefused
  BY <1>0, <1>2, DbKept, ScanDone DEF RunRefused, Finished
<1>3. CASE MarkOpens
  <2>1. cmd'.op \in {"mark", "single"} /\ pc' \in {"mark", "error"}
    BY <1>3 DEF MarkOpens, JournalInv, ScanInv
  <2>2. ScanInv'
    BY <2>1 DEF ScanInv
  <2>3. CASE trans' = trans
    BY <1>0, <1>3, <2>2, <2>3, DbKept DEF MarkOpens
  <2>4. CASE trans' # trans
    <3>1. /\ trans # <<>>
          /\ trans' = Append(trans, [EmptyTransaction EXCEPT !.cookie = trans[Last].cookie])
      BY <1>3, <2>4 DEF MarkOpens
    <3>2. [EmptyTransaction EXCEPT !.cookie = trans[Last].cookie]
            = [type |-> "delta", cookie |-> trans[Last].cookie, add |-> {}, rem |-> {}]
      BY DEF EmptyTransaction
    <3>3. QED
      BY <1>0, <1>3, <2>2, <3>1, <3>2, DbAppendedEmpty DEF MarkOpens
  <2>5. QED
    BY <2>3, <2>4
<1>4. CASE Flags
  <2>1. Synced
    BY <1>4 DEF Flags, JournalInv, ScanInv
  <2>2. CASE trans' = trans /\ ctx' = ctx /\ pc' = "mark"
    BY <1>0, <1>4, <2>1, <2>2, DbKept, SyncedKept DEF Flags, ScanInv
  <2>3. CASE /\ trans' = Append(trans, EmptyTransaction)
             /\ ctx' = [ctx EXCEPT !.trans = Last + 1]
             /\ pc' = "restore"
    <3>1. EmptyTransaction = [type |-> "delta", cookie |-> trans[Last].cookie, add |-> {}, rem |-> {}]
      BY <2>1 DEF EmptyTransaction, Synced
    <3>2. /\ DbInv'
          /\ trans' # <<>> /\ Len(trans') = Last + 1 /\ trans'[Last + 1] = EmptyTransaction
      BY <1>0, <1>4, <2>1, <2>3, <3>1, DbAppendedEmpty DEF Flags, Synced
    <3>3. /\ ctx'.installed = ctx.installed /\ ctx'.cookie = ctx.cookie
          /\ ctx'.trans = Last + 1
      BY <1>0, <2>3 DEF Context
    <3>4. Synced'
      BY <2>1, <3>2, <3>3 DEF Synced, EmptyTransaction, Last
    <3>5. QED
      BY <2>3, <3>2, <3>4 DEF ScanInv
  <2>4. QED
    BY <1>4, <2>2, <2>3 DEF Flags
<1>5. ASSUME NEW n \in Names, Mark(n) PROVE DbInv' /\ ScanInv'
  <2>1. DbInv'
    BY <1>0, <1>5, DbKept DEF Mark
  <2>2. pc' \in {"mark", "error"} /\ UNCHANGED <<cmd, trans, ctx>> /\ pc = "mark"
    BY <1>5 DEF Mark
  <2>3. QED
    BY <2>1, <2>2, SyncedKept DEF JournalInv, ScanInv
<1>6. CASE MarkEnds
  <2>1. DbInv'
    BY <1>0, <1>6, DbKept DEF MarkEnds
  <2>2. cmd.op \in HistoryOps => Synced'
    BY <1>6, SyncedKept DEF MarkEnds, JournalInv, ScanInv, HistoryOps
  <2>3. QED
    BY <1>6, <2>1, <2>2 DEF MarkEnds, ScanInv
<1>7. CASE Restore
  <2>1. DbInv' /\ Synced'
    BY <1>0, <1>7, DbKept, SyncedKept DEF Restore, JournalInv, ScanInv
  <2>2. pc' \in {"restore", "error"}
    BY <1>7 DEF Restore
  <2>3. QED
    BY <2>1, <2>2 DEF ScanInv
<1>8. CASE RestoreEnds
  BY <1>0, <1>8, DbKept, ScanDone DEF RestoreEnds, Finished
<1>9. QED
  BY <1>1, <1>2, <1>3, <1>4, <1>5, <1>6, <1>7, <1>8 DEF Execute

LEMMA JournalQuit == JournalInv /\ Quit => DbInv' /\ ScanInv'
  BY DbClosed, ScanDone DEF Quit, JournalInv

LEMMA JournalFailure == JournalInv /\ Failure => DbInv' /\ ScanInv'
<1> SUFFICES ASSUME JournalInv, Failure PROVE DbInv' /\ ScanInv'
  OBVIOUS
<1>1. CASE Crash
  BY <1>1, JournalQuit DEF Crash
<1>2. CASE ~Crash
  <2>1. rpms \subseteq rpms' /\ UNCHANGED <<trans, disk>> /\ pc' \in Finished
    BY <1>2 DEF Failure, FillFails, RunFails, FlagsFail, MarkFails, RestoreFails, db, Finished
  <2>2. QED
    BY <2>1, DbKept, ScanDone DEF JournalInv
<1>3. QED
  BY <1>1, <1>2

LEMMA JournalExternal ==
  ASSUME ExternalAt \cap {"count", "fill"} = {}
  PROVE  JournalInv /\ External => DbInv' /\ ScanInv'
<1> SUFFICES ASSUME JournalInv, External PROVE DbInv' /\ ScanInv'
  OBVIOUS
<1>1. pc \notin {"count", "fill"} /\ UNCHANGED <<rpms, trans, disk, pc, cmd, ctx, scan>>
  BY DEF External, db, locals
<1>2. Synced' <=> Synced
  BY <1>1 DEF Synced, Last
<1>3. QED
  BY <1>1, <1>2, DbKept DEF JournalInv, ScanInv

LEMMA JournalStep ==
  ASSUME ExternalAt \cap {"count", "fill"} = {}, "full" \notin Failures
  PROVE  JournalInv /\ [Next]_vars => JournalInv'
<1>1. JournalInv /\ UNCHANGED vars => DbInv' /\ ScanInv'
  <2> SUFFICES ASSUME JournalInv, UNCHANGED vars PROVE DbInv' /\ ScanInv'
    OBVIOUS
  <2>1. UNCHANGED <<rpms, trans, disk, pc, cmd, ctx, scan, inst>>
    BY DEF vars
  <2>2. Synced' <=> Synced
    BY <2>1 DEF Synced, Last
  <2>3. DbInv'
    BY <2>1, DbKept DEF JournalInv
  <2>4. Last' = Last
    BY <2>1 DEF Last
  <2>5. ScanInv'
    BY <2>1, <2>2, <2>4 DEF JournalInv, ScanInv
  <2>6. QED
    BY <2>3, <2>5
<1>2. JournalInv /\ Return => DbInv' /\ ScanInv'
  BY JournalQuit DEF Return
<1>3. JournalInv /\ [Next]_vars => DbInv' /\ ScanInv'
  BY <1>1, <1>2, JournalUser, JournalSync, JournalResolve, JournalExecute, JournalFailure,
     JournalExternal DEF Next, Client
<1>4. QED
  BY <1>3, TypeStep DEF JournalInv

(* The history is faithful: every transaction can be replayed and gives    *)
(* the packages that were installed when its cookie was taken, whatever    *)
(* statement fails and wherever a command dies, as long as nothing else    *)
(* uses rpm inside of a scan (db_update_rpms) and no COMMIT is rolled back *)
(* behind the code's back (history_update_state).                          *)
THEOREM HistoryIsFaithful ==
  ASSUME ExternalAt \cap {"count", "fill"} = {}, "full" \notin Failures
  PROVE  Spec => []JournalFaithful
<1>1. JournalInv => JournalFaithful
  BY DEF JournalInv, DbInv
<1>2. QED
  BY JournalInit, JournalStep, <1>1, PTL DEF Spec

(* Under the same conditions, a command works on the last transaction of   *)
(* the database and on its packages from the synchronisation to the end    *)
(* (history_sync, history_update_state, history_add_transaction).          *)
THEOREM ContextIsCurrent ==
  ASSUME ExternalAt \cap {"count", "fill"} = {}, "full" \notin Failures
  PROVE  Spec => []ContextIsLast
<1>1. JournalInv => ContextIsLast
  <2> SUFFICES ASSUME JournalInv, pc \in {"plan", "run", "flags", "restore"}
               PROVE  ctx.trans = Last /\ ctx.cookie = trans[Last].cookie /\ ctx.installed = StateAt(Last)
    BY DEF ContextIsLast
  <2>1. Synced
    BY DEF JournalInv, ScanInv
  <2>2. Last \in DOMAIN trans
    BY <2>1, LastType DEF JournalInv, Synced, Last
  <2>3. QED
    BY <2>1, <2>2 DEF JournalInv, DbInv, JournalFaithful, Faithful, Synced, StateAt
<1>2. QED
  BY JournalInit, JournalStep, <1>1, PTL DEF Spec
=============================================================================
