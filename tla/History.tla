------------------------------ MODULE History ------------------------------
(***************************************************************************)
(* The life of the transaction history: one tdnf command at a time works   *)
(* on the history database (history/history.c, client/history.c) and on    *)
(* the rpm database, while other programs use rpm behind its back and any  *)
(* statement may fail or be the last one before a crash.                   *)
(*                                                                         *)
(* A command is a sequence of the steps named by pc.  A write that SQLite  *)
(* commits on its own is a step, or a prefix of the writes of a step when  *)
(* the step fails; what the code wraps in BEGIN and COMMIT is one step.    *)
(* Two steps separate every two reads of the rpm database, because rpm     *)
(* does not know the lock that serialises tdnf commands.                   *)
(***************************************************************************)
EXTENDS HistoryDb

CONSTANTS
  Available,    \* the NEVRAs that the enabled repositories offer
  PubKeys,      \* the gpg-pubkey packages, which a history command skips
  ExternalAt,   \* the values of pc at which another program may use rpm
  Failures,     \* what may go wrong, a subset of FailureKinds
  MaxPlan,      \* bound: packages touched by one command of a user or of rpm
  MaxExtra,     \* bound: dependencies that an undo or a redo pulls in
  MaxTrans,     \* bound: no command starts with more transactions than this
  MaxFlags,     \* bound: no command starts with more flag rows than this
  MaxInst       \* bound: rpm transactions

(* sql: a statement fails; full: a COMMIT fails and SQLite rolls back;     *)
(* busy: a COMMIT fails because somebody reads, and the transaction stays  *)
(* open; rpm: the run stops half way; solver: no solution; crash.          *)
FailureKinds == {"sql", "full", "busy", "rpm", "solver", "crash"}

ASSUME HistoryAssumption ==
  /\ Available \subseteq Pkgs \ PubKeys
  /\ Failures \subseteq FailureKinds
  /\ MaxPlan \in Nat /\ MaxExtra \in Nat
  /\ MaxTrans \in Nat /\ MaxFlags \in Nat /\ MaxInst \in Nat

VARIABLES
  inst, nextInst,                      \* the rpm database
  file, rpms, trans, tables, names, flags,   \* the history database, as its user sees it
  disk,                                \* what closing it gives, if a transaction is open
  pc, stage, cmd,                      \* the command and where it is
  ctx, scan, saved, todo, idx          \* its history_ctx and its locals

rpmdb   == <<inst, nextInst>>
flagdb  == <<tables, names, flags>>
db      == <<file, rpms, trans, tables, names, flags, disk>>
locals  == <<stage, cmd, ctx, scan, saved, todo, idx>>
vars    == <<inst, nextInst, file, rpms, trans, tables, names, flags, disk,
             pc, stage, cmd, ctx, scan, saved, todo, idx>>

Finished == {"ok", "error", "nothing", "declined", "unresolved", "segv"}
Steps    == {"open", "count", "fill", "record", "update", "delta", "plan", "run",
             "flags", "addtrans", "mark", "restore"}
HistoryOps == {"rollback", "undo", "redo"}
Ops        == HistoryOps \cup {"none", "init", "alter", "mark", "single"}
Stages     == {"resolve", "before", "after"}

Command == [op : Ops, from : Nat, to : Nat, pool : SUBSET Pkgs,
            add : SUBSET Pkgs, rem : SUBSET Pkgs, user : SUBSET Names, value : Value]

NoCmd  == [op |-> "none", from |-> 0, to |-> 0, pool |-> {},
           add |-> {}, rem |-> {}, user |-> {}, value |-> 0]
NoDb   == [p \in Pkgs |-> 0]
NoCtx  == [installed |-> {}, cookie |-> NoDb, trans |-> 0]
NoScan == [cookie |-> NoDb, count |-> 0, ids |-> {}, then |-> "synced"]

NoTxn  == [open |-> FALSE, rpms |-> {}, trans |-> <<>>, tables |-> {}, names |-> <<>>,
           flags |-> <<>>]
Txn    == [open |-> TRUE, rpms |-> rpms, trans |-> trans, tables |-> tables, names |-> names,
           flags |-> flags]

Last == Len(trans)

(* The connection is closed: a transaction that is open is rolled back.    *)
Close ==
  /\ disk' = NoTxn
  /\ IF disk.open
     THEN /\ rpms' = disk.rpms /\ trans' = disk.trans /\ tables' = disk.tables
          /\ names' = disk.names /\ flags' = disk.flags
     ELSE UNCHANGED <<rpms, trans, tables, names, flags>>
-----------------------------------------------------------------------------
(* The rpm database.                                                       *)

NamesOf(S) == {NameOf[p] : p \in S}

(* What rpm accepts: it installs what is not installed, or replaces it,    *)
(* and no two versions of a package are installed together.                *)
Feasible(add, rem) ==
  /\ add \cup rem # {}
  /\ rem \subseteq Installed(inst)
  /\ add \cap Installed(inst) \subseteq rem
  /\ \A p, q \in (Installed(inst) \ rem) \cup add : NameOf[p] = NameOf[q] => p = q

(* Every header that is written gets a number that was never used before.  *)
Apply(add, rem) ==
  [p \in Pkgs |-> IF p \in add THEN nextInst ELSE IF p \in rem THEN 0 ELSE inst[p]]

(* Somebody runs rpm, or imports or removes a key, outside of tdnf.        *)
External ==
  /\ pc \in ExternalAt
  /\ nextInst <= MaxInst
  /\ \E add \in SUBSET Pkgs, rem \in SUBSET Pkgs :
       /\ Cardinality(add \cup rem) <= MaxPlan
       /\ Feasible(add, rem)
       /\ inst' = Apply(add, rem)
  /\ nextInst' = nextInst + 1
  /\ UNCHANGED <<db, pc, locals>>
-----------------------------------------------------------------------------
(* The commands.                                                           *)

Init ==
  /\ inst \in [Pkgs -> {0, 1}]
  /\ \A p, q \in Installed(inst) : NameOf[p] = NameOf[q] => p = q
  /\ nextInst = 2
  /\ file = FALSE /\ rpms = {} /\ trans = <<>>
  /\ tables = {} /\ names = <<>> /\ flags = <<>> /\ disk = NoTxn
  /\ pc = "idle"
  /\ stage = "resolve" /\ cmd = NoCmd /\ ctx = NoCtx /\ scan = NoScan
  /\ saved = 0 /\ todo = {} /\ idx = 1

Begin(command, step, st) ==
  /\ pc = "idle"
  /\ Last < MaxTrans /\ Len(flags) < MaxFlags /\ nextInst <= MaxInst
  /\ pc' = step /\ cmd' = command /\ stage' = st
  /\ UNCHANGED <<rpmdb, db, ctx, scan, saved, todo, idx>>

NewNames_Ids(add, rem) == add \ rem    \* mutated: ids where names are meant

(* The names TDNFMarkAutoInstalled finds in pPkgsToInstall: an upgrade, a  *)
(* downgrade or a reinstallation is in another list.                       *)
NewNames(add, rem) == NamesOf(add) \ NamesOf(rem)

(* install, erase, update, downgrade, reinstall, autoremove: the solver    *)
(* has chosen what to add and to remove, the user named some of it.        *)
BeginAlter ==
  \E add \in SUBSET Available, rem \in SUBSET Pkgs :
    /\ Cardinality(add \cup rem) <= MaxPlan
    /\ Feasible(add, rem)
    /\ \E user \in SUBSET NewNames(add, rem) :
         Begin([NoCmd EXCEPT !.op = "alter", !.add = add, !.rem = rem, !.user = user],
               "open", "before")

(* install of a package that is already installed.                         *)
BeginSingle ==
  \E p \in Installed(inst) :
    Begin([NoCmd EXCEPT !.op = "single", !.user = {NameOf[p]}], "addtrans", "before")

(* mark install and mark remove, for some installed packages.              *)
BeginMark ==
  \E S \in SUBSET NamesOf(Installed(inst)), v \in Value :
    /\ S # {}
    /\ Begin([NoCmd EXCEPT !.op = "mark", !.user = S, !.value = v], "addtrans", "before")

(* history init and history update.                                        *)
BeginInit == Begin([NoCmd EXCEPT !.op = "init"], "open", "resolve")

(* The arguments that TDNFHistoryResolve lets through.  The pool of the    *)
(* solver is loaded before the history is synchronised.                    *)
ValidArgs(op, from, to) ==
  IF op = "rollback" THEN from = 0 /\ to > 0 ELSE from > 1 /\ from <= to

BeginHistory ==
  \E op \in HistoryOps, from \in 0..(Last + 1), to \in 0..(Last + 1) :
    /\ ValidArgs(op, from, to)
    /\ file
    /\ Begin([NoCmd EXCEPT !.op = op, !.from = from, !.to = to, !.pool = Installed(inst)],
             "open", "resolve")

Quit ==
  /\ pc' = "idle"
  /\ stage' = "resolve" /\ cmd' = NoCmd /\ ctx' = NoCtx /\ scan' = NoScan
  /\ saved' = 0 /\ todo' = {} /\ idx' = 1
  /\ Close
  /\ UNCHANGED <<rpmdb, file>>

(* The command returns: the context is destroyed.                          *)
Return ==
  /\ pc \in Finished
  /\ Quit
-----------------------------------------------------------------------------
(* history_sync and history_update_state.                                  *)

(* Where a command goes when its context is up to date.                    *)
AfterSync ==
  IF stage = "before" THEN "run"
  ELSE IF stage = "after" THEN "flags"
  ELSE IF cmd.op = "init" THEN "ok" ELSE "plan"

(* create_history_ctx, then the comparison of cookies in history_sync.     *)
(* TDNFRpmExecHistoryTransaction saves the transaction id in between.      *)
Open ==
  /\ pc = "open"
  /\ file' = TRUE
  /\ saved' = Last
  /\ IF trans = <<>>
     THEN /\ ctx'  = [NoCtx EXCEPT !.cookie = inst]
          /\ scan' = [NoScan EXCEPT !.cookie = inst, !.then = "record"]
          /\ pc'   = "count"
     ELSE IF trans[Last].cookie = inst
     THEN /\ ctx'  = [NoCtx EXCEPT !.cookie = trans[Last].cookie, !.trans = Last]
          /\ scan' = [NoScan EXCEPT !.cookie = inst, !.then = "synced"]
          /\ pc'   = "count"
     ELSE /\ ctx'  = IF CanReplay(trans, rpms, Last)
                     THEN [installed |-> Replay(trans, Last), cookie |-> trans[Last].cookie,
                           trans |-> Last]
                     ELSE [NoCtx EXCEPT !.trans = Last]
          /\ scan' = [NoScan EXCEPT !.cookie = inst]
          /\ pc'   = IF CanReplay(trans, rpms, Last) THEN "update" ELSE "error"
  /\ UNCHANGED <<rpmdb, rpms, trans, flagdb, disk, stage, cmd, todo, idx>>

CookieNow_Reused == scan.cookie    \* mutated: the one that history_sync read

(* history_update_state reads the cookie again.                            *)
CookieNow == inst

Update ==
  /\ pc = "update"
  /\ IF ctx.cookie = CookieNow
     THEN pc' = AfterSync /\ scan' = scan
     ELSE pc' = "count" /\ scan' = [NoScan EXCEPT !.cookie = CookieNow, !.then = "delta"]
  /\ UNCHANGED <<rpmdb, db, stage, cmd, ctx, saved, todo, idx>>

(* db_update_rpms goes over the rpm database twice: to size the array ...  *)
Count ==
  /\ pc = "count"
  /\ scan' = [scan EXCEPT !.count = Cardinality(Installed(inst))]
  /\ pc' = "fill"
  /\ UNCHANGED <<rpmdb, db, stage, cmd, ctx, saved, todo, idx>>

(* ... and to fill it.  A slot that is not filled keeps the id 0; what     *)
(* does not fit is written past the array, which is sorted without it.     *)
Slots(S, n) ==
  IF Cardinality(S) < n THEN {S \cup {NoRpm}} ELSE {T \in SUBSET S : Cardinality(T) = n}

(* db_add_nevra adds a row for every package that has none.                *)
RowsAdded == Installed(inst)

Fill ==
  /\ pc = "fill"
  /\ rpms' = rpms \cup RowsAdded
  /\ \E T \in Slots(Installed(inst), scan.count) :
       /\ scan' = [scan EXCEPT !.ids = T]
       /\ ctx' = IF scan.then = "delta" THEN ctx ELSE [ctx EXCEPT !.installed = T]
  /\ pc' = IF scan.then = "synced" THEN AfterSync ELSE scan.then
  /\ UNCHANGED <<rpmdb, file, trans, flagdb, disk, stage, cmd, saved, todo, idx>>

(* The array is too small: the overrun of the heap may also end the run.   *)
FillAborts ==
  /\ pc = "fill"
  /\ Cardinality(Installed(inst)) > scan.count
  /\ rpms' = rpms \cup RowsAdded
  /\ pc' = "error"
  /\ UNCHANGED <<rpmdb, file, trans, flagdb, disk, locals>>

(* Every row of 'rpms' is committed alone: some are there after a failure. *)
FillFails ==
  /\ pc = "fill" /\ "sql" \in Failures
  /\ \E T \in SUBSET RowsAdded : rpms' = rpms \cup T
  /\ pc' = "error"
  /\ UNCHANGED <<rpmdb, file, trans, flagdb, disk, locals>>

(* The result of COMMIT is ignored.                                        *)
Commits(new) ==
  \/ trans' = new /\ disk' = disk
  \/ "full" \in Failures /\ trans' = trans /\ disk' = disk
  \/ "busy" \in Failures /\ trans' = new /\ disk' = Txn

(* history_record_state: the first transaction is the baseline.            *)
Baseline == [type |-> "base", cookie |-> ctx.cookie, add |-> ctx.installed, rem |-> {}]

Record ==
  /\ pc = "record" /\ ~disk.open
  /\ Commits(Append(trans, Baseline))
  /\ ctx' = [ctx EXCEPT !.trans = Last + 1]
  /\ pc' = AfterSync
  /\ UNCHANGED <<rpmdb, file, rpms, flagdb, stage, cmd, scan, saved, todo, idx>>

(* The end of history_update_state: the difference between the context and *)
(* the rpm database is one transaction, and the context becomes the latter.*)
DeltaFor(cookie, from, to) ==
  [type |-> "delta", cookie |-> cookie, add |-> Diff(from, to).added, rem |-> Diff(from, to).removed]

AddDelta_KeepsIds ==    \* mutated: the ids of the context are not replaced
  /\ pc = "delta"
  /\ ~disk.open
  /\ Commits(Append(trans, DeltaFor(scan.cookie, ctx.installed, scan.ids)))
  /\ ctx' = [ctx EXCEPT !.cookie = scan.cookie, !.trans = Last + 1]
  /\ pc' = AfterSync
  /\ UNCHANGED <<rpmdb, file, rpms, flagdb, stage, cmd, scan, saved, todo, idx>>

AddDelta ==
  /\ pc = "delta"
  /\ ~disk.open
  /\ Commits(Append(trans, DeltaFor(scan.cookie, ctx.installed, scan.ids)))
  /\ ctx' = [installed |-> scan.ids, cookie |-> scan.cookie, trans |-> Last + 1]
  /\ pc' = AfterSync
  /\ UNCHANGED <<rpmdb, file, rpms, flagdb, stage, cmd, scan, saved, todo, idx>>

(* A statement between BEGIN and COMMIT fails, or BEGIN does because the   *)
(* last transaction is still open: ROLLBACK.                               *)
RollBack ==
  /\ pc \in {"record", "delta"} /\ (disk.open \/ "sql" \in Failures)
  /\ pc' = "error"
  /\ Close
  /\ UNCHANGED <<rpmdb, file, locals>>
-----------------------------------------------------------------------------
(* TDNFHistoryResolve, after it has synchronised the history.              *)

RangeFrom_Inclusive ==    \* mutated: off by one, the range includes its start
  IF cmd.op = "rollback" THEN ctx.trans
  ELSE IF cmd.op = "undo" THEN cmd.to ELSE cmd.from
RangeTo_OffByOne ==    \* mutated: the state before a rollback's target, after an undo's
  IF cmd.op = "rollback" THEN cmd.to - 1
  ELSE IF cmd.op = "undo" THEN cmd.from ELSE cmd.to

(* The transaction whose flags or packages are there and the one whose     *)
(* flags or packages are wanted.                                           *)
RangeFrom ==
  IF cmd.op = "rollback" THEN ctx.trans
  ELSE IF cmd.op = "undo" THEN cmd.to ELSE cmd.from - 1
RangeTo ==
  IF cmd.op = "rollback" THEN cmd.to
  ELSE IF cmd.op = "undo" THEN cmd.from - 1 ELSE cmd.to

PackageDelta ==
  IF cmd.op = "rollback" THEN Diff(ctx.installed, Replay(trans, cmd.to))
  ELSE DeltaRange(trans, RangeTo, RangeFrom)

DeltaReadable ==
  /\ CanReplay(trans, rpms, RangeTo)
  /\ cmd.op # "rollback" => CanReplay(trans, rpms, RangeFrom)
  /\ (PackageDelta.added \cup PackageDelta.removed) \subseteq rpms

ToErase_None == {}    \* mutated: what was added since stays

Unresolved == PackageDelta.added \ (PubKeys \cup Available)
ToInstall  == (PackageDelta.added \cap Available) \ cmd.pool
ToErase    == (PackageDelta.removed \ PubKeys) \cap cmd.pool
Replaced   == {q \in cmd.pool : NameOf[q] \in NamesOf(ToInstall)}

(* history_get_flags_delta gives no structure when a table is missing.     *)
NoFlagsDelta ==
  "names" \notin tables \/ (names # <<>> /\ "flag_set" \notin tables)
NamesKnown == {names[i] : i \in DOMAIN names}
FlagsToChange == FlagsDelta(flags, NamesKnown, ctx.trans, RangeFrom, RangeTo)

(* An undo or a redo may need dependencies that were removed since.        *)
Extras ==
  IF cmd.op = "rollback" THEN {{}}
  ELSE {X \in SUBSET (Available \ cmd.pool) :
          /\ Cardinality(X) <= MaxExtra
          /\ NamesOf(X) \cap NamesOf(ToInstall \cup cmd.pool) = {}
          /\ \A p, q \in X : NameOf[p] = NameOf[q] => p = q}

NothingToAlter == ToInstall = {} /\ ToErase = {}

PlanFails ==
  /\ pc = "plan"
  /\ \/ ~DeltaReadable
     \/ "solver" \in Failures
  /\ pc' = "error"
  /\ UNCHANGED <<rpmdb, db, locals>>

PlanUnresolved ==
  /\ pc = "plan"
  /\ DeltaReadable /\ Unresolved # {}
  /\ ~(NothingToAlter /\ NoFlagsDelta)
  /\ pc' = "unresolved"
  /\ UNCHANGED <<rpmdb, db, locals>>

(* hfd->count is read when no package has to change.                       *)
PlanCrashes ==
  /\ pc = "plan"
  /\ DeltaReadable /\ NothingToAlter /\ NoFlagsDelta
  /\ pc' = "segv"
  /\ UNCHANGED <<rpmdb, db, locals>>

PlanEmpty ==
  /\ pc = "plan"
  /\ DeltaReadable /\ Unresolved = {} /\ NothingToAlter
  /\ ~NoFlagsDelta /\ FlagsToChange = {}
  /\ pc' = "nothing"
  /\ UNCHANGED <<rpmdb, db, locals>>

(* The plan is shown and accepted, or else the command ends.  To carry it  *)
(* out, a new context is opened.                                           *)
Plan ==
  /\ pc = "plan"
  /\ DeltaReadable /\ Unresolved = {}
  /\ IF NothingToAlter THEN ~NoFlagsDelta /\ FlagsToChange # {} ELSE TRUE
  /\ \E X \in IF NothingToAlter THEN {{}} ELSE Extras :
       cmd' = [cmd EXCEPT !.add = ToInstall \cup X, !.rem = ToErase \cup Replaced,
                          !.user = NamesOf(ToInstall)]
  /\ pc' = "open" /\ stage' = "before"
  /\ ctx' = NoCtx /\ scan' = NoScan /\ saved' = 0
  /\ Close
  /\ UNCHANGED <<rpmdb, file, todo, idx>>

PlanDeclined ==
  /\ pc = "plan"
  /\ DeltaReadable /\ Unresolved = {}
  /\ IF NothingToAlter THEN ~NoFlagsDelta /\ FlagsToChange # {} ELSE TRUE
  /\ pc' = "declined"
  /\ UNCHANGED <<rpmdb, db, locals>>
-----------------------------------------------------------------------------
(* TDNFRunTransaction: the test run refuses what rpm does not accept, the  *)
(* run itself may fail after some of its elements.                         *)

Runnable == (cmd.add = {} /\ cmd.rem = {}) \/ Feasible(cmd.add, cmd.rem)

Run ==
  /\ pc = "run" /\ Runnable
  /\ inst' = Apply(cmd.add, cmd.rem)
  /\ nextInst' = IF cmd.add = {} THEN nextInst ELSE nextInst + 1
  /\ pc' = "update" /\ stage' = "after"
  /\ UNCHANGED <<db, cmd, ctx, scan, saved, todo, idx>>

RunRefused ==
  /\ pc = "run" /\ ~Runnable
  /\ pc' = "error"
  /\ UNCHANGED <<rpmdb, db, locals>>

RunFails ==
  /\ pc = "run" /\ "rpm" \in Failures
  /\ \E add \in SUBSET cmd.add, rem \in SUBSET cmd.rem :
       inst' = Apply(add, rem)
  /\ nextInst' = nextInst + 1
  /\ pc' = "error"
  /\ UNCHANGED <<db, locals>>
-----------------------------------------------------------------------------
(* The auto installed flags.                                               *)

(* history_add_transaction reuses the cookie of the context.               *)
EmptyTransaction == [type |-> "delta", cookie |-> ctx.cookie, add |-> {}, rem |-> {}]

(* TDNFMark and TDNFMarkAutoInstalledSinglePkg: a context that is not      *)
(* synchronised.  Only the former adds a transaction, and goes on when     *)
(* that fails.                                                             *)
MarkOpens ==
  /\ pc = "addtrans"
  /\ IF ~file THEN pc' = "error" /\ UNCHANGED <<trans, ctx, todo>>
     ELSE /\ LET cookie == IF trans = <<>> THEN NoDb ELSE trans[Last].cookie
             IN \/ /\ cmd.op = "mark" /\ trans # <<>>
                   /\ trans' = Append(trans, [EmptyTransaction EXCEPT !.cookie = cookie])
                   /\ ctx' = [NoCtx EXCEPT !.cookie = cookie, !.trans = Last + 1]
                \/ /\ cmd.op = "single" \/ trans = <<>> \/ "sql" \in Failures
                   /\ trans' = trans
                   /\ ctx' = [NoCtx EXCEPT !.cookie = cookie, !.trans = Last]
          /\ todo' = cmd.user
          /\ pc' = "mark"
  /\ UNCHANGED <<rpmdb, file, rpms, flagdb, disk, stage, cmd, scan, saved, idx>>

(* After the packages: which flags have to be set, and in which            *)
(* transaction.  A history command that changed no package adds one.       *)
Flags ==
  /\ pc = "flags"
  /\ IF cmd.op = "alter"
     THEN /\ todo' = NewNames(cmd.add, cmd.rem)
          /\ pc' = "mark" /\ UNCHANGED <<trans, ctx>>
     ELSE IF saved = ctx.trans
     THEN /\ trans' = Append(trans, EmptyTransaction)
          /\ ctx' = [ctx EXCEPT !.trans = Last + 1]
          /\ todo' = {} /\ pc' = "restore"
     ELSE /\ todo' = NewNames(cmd.add, cmd.rem) \ cmd.user
          /\ pc' = "mark" /\ UNCHANGED <<trans, ctx>>
  /\ UNCHANGED <<rpmdb, file, rpms, flagdb, disk, stage, cmd, scan, saved, idx>>

FlagsFail ==
  /\ pc = "flags" /\ cmd.op # "alter" /\ saved = ctx.trans /\ "sql" \in Failures
  /\ pc' = "error"
  /\ UNCHANGED <<rpmdb, db, locals>>

NewFlag_Saved(n, v) ==    \* mutated: the flag of the transaction saved before
  [trans |-> saved, name |-> n, value |-> v]

(* db_set_auto_flag_byid: a row for the transaction of the context.        *)
NewFlag(n, v) == [trans |-> ctx.trans, name |-> n, value |-> v]

(* The first k statements of db_set_auto_flag, each committed alone.       *)
SetAutoFlag(n, v, k) ==
  /\ tables' = tables \cup (IF k >= 1 THEN {"names"} ELSE {})
                      \cup (IF k >= 3 THEN {"flag_set"} ELSE {})
  /\ names'  = IF k >= 2 /\ n \notin NamesKnown THEN Append(names, n) ELSE names
  /\ flags'  = IF k >= 4 THEN Append(flags, NewFlag(n, v)) ELSE flags

ValueFor_NeverClears(n) ==    \* mutated: the user's choice does not clear a flag
  IF cmd.op = "mark" THEN cmd.value
  ELSE IF cmd.op = "single" THEN 0
  ELSE IF n \in cmd.user THEN FlagAt(flags, ctx.trans, n) ELSE 1

(* The flag of a name that a command marks.                                *)
ValueFor(n) ==
  IF cmd.op = "mark" THEN cmd.value
  ELSE IF cmd.op = "single" \/ n \in cmd.user THEN 0 ELSE 1

Mark_Stays(n) ==    \* mutated: a name whose flag is right is not passed over
  /\ pc = "mark" /\ n \in todo /\ ctx.trans # 0
  /\ FlagAt(flags, ctx.trans, n) # ValueFor(n)
  /\ SetAutoFlag(n, ValueFor(n), 4)
  /\ todo' = todo \ {n} /\ pc' = pc
  /\ UNCHANGED <<rpmdb, file, rpms, trans, disk, stage, cmd, ctx, scan, saved, idx>>

(* history_set_auto_flag writes only what changes.                         *)
Mark(n) ==
  /\ pc = "mark" /\ n \in todo
  /\ IF ctx.trans = 0
     THEN pc' = "error" /\ UNCHANGED <<flagdb, todo>>
     ELSE /\ IF FlagAt(flags, ctx.trans, n) = ValueFor(n)
             THEN UNCHANGED flagdb
             ELSE SetAutoFlag(n, ValueFor(n), 4)
          /\ todo' = todo \ {n}
          /\ pc' = pc
  /\ UNCHANGED <<rpmdb, file, rpms, trans, disk, stage, cmd, ctx, scan, saved, idx>>

MarkFails(n) ==
  /\ pc = "mark" /\ n \in todo /\ "sql" \in Failures
  /\ ctx.trans # 0 /\ FlagAt(flags, ctx.trans, n) # ValueFor(n)
  /\ \E k \in 0..3 : SetAutoFlag(n, ValueFor(n), k)
  /\ pc' = "error"
  /\ UNCHANGED <<rpmdb, file, rpms, trans, disk, locals>>

MarkEnds ==
  /\ pc = "mark" /\ todo = {}
  /\ pc' = IF cmd.op \in HistoryOps THEN "restore" ELSE "ok"
  /\ UNCHANGED <<rpmdb, db, locals>>

(* history_restore_auto_flags and history_replay_auto_flags: one name, in  *)
(* the order of the table.                                                 *)
Restore ==
  /\ pc = "restore" /\ idx <= Len(names)
  /\ IF "flag_set" \notin tables
     THEN pc' = "error" /\ UNCHANGED <<flags, idx>>
     ELSE /\ flags' =
               IF names[idx] \in FlagsDelta(flags, {names[idx]}, ctx.trans, RangeFrom, RangeTo)
               THEN Append(flags, NewFlag(names[idx], FlagAt(flags, RangeTo, names[idx])))
               ELSE flags
          /\ idx' = idx + 1 /\ pc' = pc
  /\ UNCHANGED <<rpmdb, file, rpms, trans, tables, names, disk, stage, cmd, ctx, scan, saved, todo>>

RestoreFails ==
  /\ pc = "restore" /\ idx <= Len(names) /\ "sql" \in Failures
  /\ pc' = "error"
  /\ UNCHANGED <<rpmdb, db, locals>>

RestoreEnds ==
  /\ pc = "restore" /\ idx > Len(names)
  /\ pc' = "ok"
  /\ UNCHANGED <<rpmdb, db, locals>>

(* The process dies: its locals are gone, what was committed stays.        *)
Crash ==
  /\ pc \in Steps /\ "crash" \in Failures
  /\ Quit
-----------------------------------------------------------------------------
User == BeginAlter \/ BeginSingle \/ BeginMark \/ BeginInit \/ BeginHistory

Sync == Open \/ Update \/ Count \/ Fill \/ FillAborts \/ Record \/ AddDelta \/ RollBack

Resolve == PlanFails \/ PlanUnresolved \/ PlanCrashes \/ PlanEmpty \/ Plan \/ PlanDeclined

Execute == Run \/ RunRefused \/ MarkOpens \/ Flags \/ (\E n \in Names : Mark(n)) \/ MarkEnds
             \/ Restore \/ RestoreEnds

Failure == FillFails \/ RunFails \/ FlagsFail \/ (\E n \in Names : MarkFails(n))
             \/ RestoreFails \/ Crash

Client == Sync \/ Resolve \/ Execute \/ Return

Next == User \/ Client \/ Failure \/ External

Spec == Init /\ [][Next]_vars

(* A command that runs is never stopped for ever: it is one thread, and    *)
(* the question it asks is answered.                                       *)
FairSpec == Spec /\ WF_vars(Client)
=============================================================================
