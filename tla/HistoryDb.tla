----------------------------- MODULE HistoryDb -----------------------------
(***************************************************************************)
(* The contents of the history database (history/history.c) as data, and   *)
(* the pure functions the code computes from them.                         *)
(*                                                                         *)
(* A row of the table 'rpms' is identified with its NEVRA and a row of     *)
(* 'names' with its package name: db_get_dict_entry never creates a second *)
(* row for a string it already has, so ids and strings are in bijection.   *)
(* NoRpm stands for the id 0, which no row ever has.                       *)
(*                                                                         *)
(* A transaction is one row of 'transactions' with its 'trans_items': the  *)
(* items of a baseline (HISTORY_ITEM_TYPE_SET) are its field add.  A flag  *)
(* is one row of 'flag_set', in the order of its id.                       *)
(***************************************************************************)
EXTENDS Integers, Sequences, FiniteSets

CONSTANTS
  Pkgs,      \* the NEVRAs that can be installed
  Names,     \* the package names
  NameOf,    \* the name of each NEVRA
  NoRpm      \* the rpm id 0: a slot of an id array that was never filled

ASSUME PkgsAssumption   == IsFiniteSet(Pkgs)
ASSUME NameOfAssumption == NameOf \in [Pkgs -> Names]
ASSUME NoRpmAssumption  == NoRpm \notin Pkgs

Ids   == Pkgs \cup {NoRpm}
Value == {0, 1}
MaxOf(S) == CHOOSE m \in S : \A x \in S : x <= m

(* The rpm database maps every NEVRA to the number of the header that      *)
(* installed it, 0 when it is not installed.  rpmdbCookie() is a digest of *)
(* the pairs of names and header numbers, so the cookie is this mapping.   *)
RpmDb == [Pkgs -> Nat]
Installed(db) == {p \in Pkgs : db[p] # 0}

Transaction == [type : {"base", "delta"}, cookie : RpmDb, add : SUBSET Ids, rem : SUBSET Ids]
FlagRow     == [trans : Nat, name : Names, value : Value]

(* The baselines at or before transaction t.  The code scans the baselines *)
(* from the newest to the oldest and stops at the first one it may use.    *)
BaselinesTo(tr, t) == {i \in DOMAIN tr : i <= t /\ tr[i].type = "base"}

(* Every check_cond that db_play_transaction, db_play_set and              *)
(* db_play_delta apply to the rows they read: a baseline exists and every  *)
(* item names an rpm of the map.                                           *)
CanReplay(tr, known, t) ==
  /\ BaselinesTo(tr, t) # {}
  /\ \A i \in DOMAIN tr :
       MaxOf(BaselinesTo(tr, t)) <= i /\ i <= t => (tr[i].add \cup tr[i].rem) \subseteq known

(* db_play_transaction: the baseline's set, then every delta up to t.  A   *)
(* package is installed at t when some transaction from the baseline on    *)
(* added it and no later one up to t removed it.                           *)
Replay(tr, t) ==
  {p \in Ids : \E i \in DOMAIN tr :
      /\ MaxOf(BaselinesTo(tr, t)) <= i /\ i <= t
      /\ p \in tr[i].add
      /\ \A j \in DOMAIN tr : i < j /\ j <= t => p \notin tr[j].rem}

(* The rows db_get_auto_flag_byid selects, and the value of the newest one;*)
(* a package with no row is not auto installed.                            *)
FlagRows(fl, t, n) == {i \in DOMAIN fl : fl[i].name = n /\ fl[i].trans <= t}
FlagAt(fl, t, n) ==
  IF \E i \in FlagRows(fl, t, n) :
       fl[i].value = 1 /\ \A j \in FlagRows(fl, t, n) : j <= i
  THEN 1 ELSE 0

(* The pair that diff_arrays computes for two sorted arrays of ids.        *)
Diff(from, to) == [removed |-> from \ to, added |-> to \ from]

(* history_get_delta_range: from the state of transaction t1 to the state  *)
(* of transaction t0.                                                      *)
DeltaRange(tr, t0, t1) == Diff(Replay(tr, t1), Replay(tr, t0))

(* history_get_flags_delta: the names whose flag changes from transaction  *)
(* 'from' to transaction 'to' and is not already what it has to become.    *)
FlagsDelta(fl, known, now, from, to) ==
  {n \in known : /\ FlagAt(fl, from, n) # FlagAt(fl, to, n)
                 /\ FlagAt(fl, to, n) # FlagAt(fl, now, n)}
=============================================================================
