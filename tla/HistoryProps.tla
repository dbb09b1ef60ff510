---------------------------- MODULE HistoryProps ----------------------------
(***************************************************************************)
(* What the history is for, stated over the states of History.             *)
(***************************************************************************)
EXTENDS History

StateAt(t) == Replay(trans, t)
FlagIn(t, n) == FlagAt(flags, t, n)

(* Types, in parts: the two databases and the command.                     *)
Contents == [open : BOOLEAN, rpms : SUBSET Pkgs, trans : Seq(Transaction),
             tables : SUBSET {"names", "flag_set"}, names : Seq(Names), flags : Seq(FlagRow)]
Context  == [installed : SUBSET Ids, cookie : RpmDb, trans : Nat]
Scan     == [cookie : RpmDb, count : Nat, ids : SUBSET Ids,
             then : {"record", "delta", "synced"}]

RpmDbOK == inst \in RpmDb /\ nextInst \in Nat
HistoryDbOK ==
  /\ file \in BOOLEAN
  /\ rpms \subseteq Pkgs
  /\ trans \in Seq(Transaction)
  /\ tables \subseteq {"names", "flag_set"}
  /\ names \in Seq(Names)
  /\ flags \in Seq(FlagRow)
  /\ disk \in Contents
CommandOK ==
  /\ pc \in Steps \cup Finished \cup {"idle"}
  /\ stage \in Stages
  /\ cmd \in Command
  /\ ctx \in Context
  /\ scan \in Scan
  /\ saved \in Nat /\ todo \subseteq Names /\ idx \in Nat \ {0}

(* Every variable has its type; in particular what history_sync reads into *)
(* its arrays are ids.                                                     *)
TypeOK == RpmDbOK /\ HistoryDbOK /\ CommandOK
-----------------------------------------------------------------------------
(* Every transaction can be replayed, and replaying it                     *)
(* (db_play_transaction) gives the packages that were installed when its   *)
(* cookie was taken: what list shows and rollback restores is what was.    *)
Faithful(tr, known) ==
  \A t \in DOMAIN tr : CanReplay(tr, known, t) /\ Replay(tr, t) = Installed(tr[t].cookie)
JournalFaithful == Faithful(trans, rpms)

(* history_update_state brings the database "to actual RPM state on system"*)
(* (history.c:1410).  When a command reports success and the last cookie is*)
(* that of the rpm database, so that no later command will look again, the *)
(* history has the packages that are installed.                            *)
NoLostChange ==
  pc = "ok" /\ cmd.op \in HistoryOps \cup {"init", "alter"} /\ trans[Last].cookie = inst
    => StateAt(Last) = Installed(inst)

(* From the synchronisation to the end of a command, the context is the    *)
(* last transaction of the database: the next difference is taken from it, *)
(* and the flags are written for it (history_sync, history_update_state).  *)
ContextIsLast ==
  pc \in {"plan", "run", "flags", "restore"} =>
    /\ ctx.trans = Last
    /\ ctx.cookie = trans[Last].cookie
    /\ ctx.installed = StateAt(Last)

(* The history on disk, as a journal of states.  Journal says that the     *)
(* past does not change: neither what a new transaction adds nor the flags *)
(* of a rollback reach an earlier state, whatever fails.                   *)
OnDisk == IF disk.open THEN disk ELSE [trans |-> trans, flags |-> flags]
JournalLog ==
  [t \in DOMAIN OnDisk.trans |->
     [pkgs |-> Replay(OnDisk.trans, t),
      auto |-> {n \in Names : FlagAt(OnDisk.flags, t, n) = 1}]]
J == INSTANCE Journal WITH log <- JournalLog
RefinesJournal == J!Spec
-----------------------------------------------------------------------------
(* What a command that reports success has done, when nothing else used    *)
(* rpm meanwhile.                                                          *)

(* Two versions of a package are installed when an upgrade stopped half    *)
(* way; the solver never does that again.                                  *)
OneVersionEach(S) == \A p, q \in S : NameOf[p] = NameOf[q] => p = q

(* A rollback restores the packages and the flags of its target exactly    *)
(* (rpmtrans.c:309-312, history_restore_auto_flags), keys excepted.        *)
RollbackExact ==
  pc = "ok" /\ cmd.op = "rollback" /\ OneVersionEach(StateAt(cmd.to)) =>
    /\ Installed(inst) \ PubKeys = StateAt(cmd.to) \ PubKeys
    /\ \A n \in Names : FlagIn(Last, n) = FlagIn(cmd.to, n)

(* What an undo or a redo of a range is about, and where it leads.  The    *)
(* range ends before the transaction of the command itself.                *)
Before   == IF pc = "ok" THEN Last - 1 ELSE Last
RangeEnd == IF cmd.to < Before THEN cmd.to ELSE Before
Target   == IF cmd.op = "undo" THEN cmd.from - 1 ELSE RangeEnd
Changed  == Diff(StateAt(cmd.from - 1), StateAt(RangeEnd))
ChangedPkgs == (Changed.added \cup Changed.removed) \ PubKeys
PulledIn == {p \in cmd.add : NameOf[p] \notin cmd.user}

(* An undo takes every package that the transactions of its range added or *)
(* removed back to where it was before them, a redo to where it was after; *)
(* the others stay, except for other versions of what is installed and for *)
(* the dependencies the solver pulls in (TDNFHistoryResolve).              *)
RangeReapplied ==
  pc = "ok" /\ cmd.op \in {"undo", "redo"} /\ OneVersionEach(StateAt(Target)) =>
    /\ \A p \in ChangedPkgs \ PulledIn : p \in Installed(inst) <=> p \in StateAt(Target)
    /\ \A p \in Pkgs \ (ChangedPkgs \cup PulledIn) :
         NameOf[p] \notin NamesOf(ChangedPkgs) =>
           (p \in StateAt(Last) <=> p \in StateAt(Before))

(* The flags follow: a name whose flag the range had changed has the flag  *)
(* of the target (history_replay_auto_flags).                              *)
RangeFlags ==
  pc = "ok" /\ cmd.op \in {"undo", "redo"} =>
    \A n \in Names \ NamesOf(PulledIn) :
      FlagIn(Last, n) = FlagIn(IF FlagIn(cmd.from - 1, n) # FlagIn(RangeEnd, n)
                               THEN Target ELSE Before, n)

(* A history command that says there is nothing to do is right: packages   *)
(* and flags are where it would have taken them (TDNFHistoryResolve,       *)
(* history_get_flags_delta).                                               *)
NothingLeftToDo ==
  pc = "nothing" =>
    IF cmd.op = "rollback"
    THEN /\ Installed(inst) \ PubKeys = StateAt(cmd.to) \ PubKeys
         /\ \A n \in Names : FlagIn(Last, n) = FlagIn(cmd.to, n)
    ELSE /\ \A p \in ChangedPkgs : p \in Installed(inst) <=> p \in StateAt(Target)
         /\ \A n \in Names :
              FlagIn(cmd.from - 1, n) # FlagIn(RangeEnd, n) => FlagIn(Last, n) = FlagIn(Target, n)

(* After an installation, the packages that the user did not name are      *)
(* marked as auto installed and those that the user named are not, however *)
(* they were marked before (TDNFMarkAutoInstalled); and the history knows  *)
(* the state of the system.                                                *)
InstallRecorded ==
  pc = "ok" /\ cmd.op = "alter" =>
    /\ StateAt(Last) = Installed(inst)
    /\ \A n \in NewNames(cmd.add, cmd.rem) : FlagIn(Last, n) = (IF n \in cmd.user THEN 0 ELSE 1)

(* Every command ends, whatever the state it starts from.                  *)
CommandEnds == pc # "idle" ~> pc = "idle"
=============================================================================
