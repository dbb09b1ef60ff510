---------------------------- MODULE SessionProofs ----------------------------
(***************************************************************************)
(* What is proved about Session, for any plugins, .repo files, options and *)
(* servers.                                                                *)
(*                                                                         *)
(* The loops over the options keep what the last of those they have passed *)
(* said; the list of repositories keeps what the options and files it has  *)
(* passed have; the refresh keeps what it has loaded, and an event what    *)
(* the plugins it has passed have checked.                                 *)
(***************************************************************************)
EXTENDS SessionProps, SequenceTheorems, WellFoundedInduction, TLAPS

Busy == pc \in {"start", "download", "end", "parse"}
Refreshing == pc = "refresh" \/ Busy
Unique(rs) == \A i \in DOMAIN rs, j \in DOMAIN rs : rs[i].id = rs[j].id => i = j
Unread == UNION {Ids(files[i]) : i \in DOMAIN files}

Repository == [id : Names \cup {CmdLine}, enabled : BOOLEAN, skip : BOOLEAN, hasmd : BOOLEAN,
               priority : Int]
Known == {"metalink", "repogpgcheck"}
Overrides == {"enableplugin", "disableplugin"}
Creating == {"repofrompath", "repofromdir"}
Altering == {"enablerepo", "disablerepo", "repo"}

\* the options that a loop has passed come before the ones it has left
Passed(names) == Opts(names) \ opts
InTurn(names) == opts \subseteq Opts(names) /\ \A i \in Passed(names), j \in opts : i < j

\* what the options in done say
SaidOn(p, done) ==
    LET about == About(p.name, Overrides) \cap done
    IN  IF about = {} THEN p.state = "on" ELSE run.opts[Greatest(about)].name = "enableplugin"

Default(id) == id \in FromOptions \/ Section[id].enabled
FirstThis(done) == {i \in Opts({"repo"}) \cap done : \A j \in Opts({"repo"}) \cap done : i <= j}
RepoOnBy(done, id) ==
    LET first == FirstThis(done)
        about == About(id, Altering) \cap done
        last == Greatest(about \cup first)
    IN  IF about \cup first = {} THEN Default(id)
        ELSE last \in about /\ run.opts[last].name # "disablerepo"

-----------------------------------------------------------------------------
RunInv == run \in Sessions

FreshInv ==
    /\ pc \in {"idle", "plugins"} => plugins = <<>>
    /\ pc \in {"plugins", "overrides", "init", "repos"} => files = run.files
    /\ pc \in {"idle", "plugins", "overrides", "init", "repos"} => lost = FALSE
    /\ pc \in {"idle", "plugins", "overrides", "init", "repos", "list"} => seen = FALSE
    /\ pc \in {"idle", "plugins", "overrides", "init", "repos", "list", "finalize"} =>
         at = NoRepo /\ loaded = {}

Plugin == [name : STRING, lib : {"loads", "missing", "fails"}, enabled : BOOLEAN]

PluginsInv ==
    /\ pc \in {"overrides", "init"} =>
         /\ run.conf = "dir" /\ ~Has("noplugins")
         /\ plugins \in [DOMAIN run.plugins -> Plugin]
         /\ \A i \in DOMAIN plugins : /\ plugins[i].name = run.plugins[i].name
                                      /\ plugins[i].lib = run.plugins[i].lib
    /\ pc = "overrides" =>
         /\ InTurn(Overrides)
         /\ \A i \in DOMAIN plugins :
              plugins[i].enabled <=> SaidOn(run.plugins[i], Passed(Overrides))
    /\ pc = "init" =>
         \A i \in DOMAIN plugins :
           plugins[i].enabled <=> SaidOn(run.plugins[i], Opts(Overrides)) /\ plugins[i].lib # "missing"
    /\ pc \in {"repos", "list", "finalize"} \/ Refreshing =>
         \A name \in Known : Active(name) <=> name \in PluginsOn

File == [readable : BOOLEAN, ids : Seq(DOMAIN Section)]

ListType ==
    /\ repos \in Seq(Repository) /\ lost \in BOOLEAN
    /\ opts \subseteq Opts(Creating)
    /\ files \in Seq(File) /\ Unread \subseteq FromFiles
    /\ lost => Opts({"repofromdir"}) # {}

\* where a repository of the list comes from
ListFrom ==
    \A i \in DOMAIN repos :
      \/ repos[i].id = CmdLine
      \/ repos[i].id \in FromOptions /\ repos[i].enabled
      \/ ~lost /\ repos[i].id \in FromFiles /\ repos[i].enabled = Section[repos[i].id].enabled

\* what the list has of the options and files that were read
ListHas ==
    /\ \E j \in DOMAIN repos : repos[j].id = CmdLine
    /\ \A o \in Passed(Creating) : \E j \in DOMAIN repos : repos[j].id = run.opts[o].arg /\ repos[j].enabled
    /\ \A r \in FromFiles \ Unread : \E j \in DOMAIN repos : repos[j].id = r

ListInv == pc = "list" => ListType /\ ListFrom /\ (~lost => ListHas)

Complete ==
    Opts({"repofromdir"}) = {} =>
      {repos[i].id : i \in DOMAIN repos} =
        {CmdLine} \cup FromFiles \cup {run.opts[i].arg : i \in Opts({"repofrompath"})}

FinalInv ==
    pc = "finalize" =>
      /\ repos \in Seq(Repository) /\ Unique(repos) /\ Complete
      /\ InTurn(Altering)
      /\ seen \in BOOLEAN
      /\ seen <=> Opts({"repo"}) \cap Passed(Altering) # {}
      /\ Plain => \A i \in DOMAIN repos : repos[i].id # CmdLine =>
           (repos[i].enabled <=> RepoOnBy(Passed(Altering), repos[i].id))

OpenedInv == LastOptionDecides /\ NothingIsLost

\* the plugins know the repositories of the files that were read
DataInv ==
    pc \in {"list", "finalize"} \/ Refreshing =>
      /\ \A r \in FromFiles \ Unread :
           /\ Active("metalink") /\ Section[r].metalink => [plugin |-> "metalink", id |-> r] \in data
           /\ Active("repogpgcheck") /\ Section[r].gpg => [plugin |-> "repogpgcheck", id |-> r] \in data
      /\ pc # "list" => Unread = {}

RefreshInv ==
    Refreshing =>
      /\ repos \in Seq(Repository) /\ Unique(repos)
      /\ todo \subseteq wanted /\ loaded \subseteq wanted \ todo
      /\ \A r \in wanted : r \in Names /\ \E i \in DOMAIN repos : repos[i].id = r
      /\ Busy => at \in wanted \ (todo \cup loaded)
      /\ \A r \in wanted \ todo : r \in loaded \/ The(r).skip \/ (Busy /\ r = at)
      /\ \A r \in loaded : The(r).hasmd => store[r].md # None /\ store[r].parts = store[r].md

EndInv ==
    pc = "end" =>
      \A i \in DOMAIN plugins \ left : Registered(plugins[i].name, at) =>
        /\ plugins[i].name = "repogpgcheck" => tmp.version # Foreign
        /\ plugins[i].name = "metalink" => HashError(Link[store[at].ml].hashes, tmp.version) = "none"

StoreInv ==
    store = [r \in Names |-> [md |-> store[r].md, parts |-> store[r].parts, ml |-> store[r].ml,
                              marker |-> store[r].marker]]

Inv == /\ RunInv /\ FreshInv /\ PluginsInv /\ ListInv /\ FinalInv /\ OpenedInv /\ DataInv
       /\ RefreshInv /\ EndInv /\ StoreInv /\ LoadedOrSkipped

-----------------------------------------------------------------------------
(***************************************************************************)
(* Operators.                                                              *)
(***************************************************************************)
LEMMA LeastNumber ==
  ASSUME NEW T, T \subseteq Nat, T # {}
  PROVE  \E x \in T : \A y \in T : x <= y
<1> DEFINE R == OpToRel(<, Nat)
<1>1. IsWellFoundedOn(R, Nat)
  BY NatLessThanWellFounded
<1>2. \A x, y \in Nat : y < x => <<y, x>> \in R
  BY DEF OpToRel
<1> HIDE DEF R
<1>3. PICK x \in T : \A y \in T : ~ (<<y, x>> \in R)
  BY <1>1, WFMin
<1>4. \A y \in T : x \in Nat /\ y \in Nat /\ ~(y < x)
  BY <1>2, <1>3
<1>5. \A y \in T : x <= y
  BY <1>4
<1>6. QED
  BY <1>5

LEMMA FirstIs ==
  ASSUME NEW T, T \subseteq Nat, T # {}
  PROVE  First(T) \in T /\ \A j \in T : First(T) <= j
BY LeastNumber DEF First

LEMMA GreatestIs ==
  ASSUME NEW T, NEW k \in T, T \subseteq Nat, \A j \in T : j <= k
  PROVE  Greatest(T) = k
<1>1. \A i \in T : (\A j \in T : j <= i) => i = k
  OBVIOUS
<1>2. QED
  BY <1>1 DEF Greatest

LEMMA RunType ==
  ASSUME RunInv
  PROVE  /\ SessionType(run)
         /\ DOMAIN run.opts \subseteq Nat
         /\ \A names : Opts(names) \subseteq Nat
<1>1. SessionType(run)
  BY SessionConstants DEF RunInv
<1>2. DOMAIN run.opts \subseteq Nat
  BY <1>1, LenProperties DEF SessionType
<1>3. QED
  BY <1>1, <1>2 DEF Opts

LEMMA PluginsType ==
  ASSUME RunInv
  PROVE  \A i \in DOMAIN run.plugins : /\ run.plugins[i].name \in STRING
                                       /\ run.plugins[i].lib \in {"loads", "missing", "fails"}
<1> DEFINE T == [name : STRING, state : {"on", "off", "unreadable"}, lib : {"loads", "missing", "fails"}]
<1>1. run.plugins \in Seq(T)
  BY RunType DEF SessionType
<1> HIDE DEF T
<1>2. \A i \in DOMAIN run.plugins : run.plugins[i] \in T
  BY <1>1, LenProperties, ElementOfSeq
<1>3. QED
  BY <1>2 DEF T

(* A step of a loop takes the first option that it has left.               *)
LEMMA Turn ==
  ASSUME RunInv, NEW names, InTurn(names), opts # {}, NextOption, run' = run
  PROVE  /\ First(opts) \in opts /\ First(opts) \in Opts(names)
         /\ First(opts) \in Nat /\ Passed(names) \subseteq Nat
         /\ \A i \in Passed(names) : i < First(opts)
         /\ InTurn(names)'
         /\ Passed(names)' = Passed(names) \cup {First(opts)}
<1> DEFINE k == First(opts)
<1>1. opts \subseteq Opts(names) /\ Opts(names) \subseteq Nat
  BY RunType DEF InTurn
<1>2. k \in opts /\ \A j \in opts : k <= j
  BY <1>1, FirstIs
<1> HIDE DEF k
<1>3. opts' = opts \ {k} /\ Opts(names)' = Opts(names)
  BY DEF k, NextOption, Opts
<1>4. Passed(names)' = Passed(names) \cup {k}
  BY <1>1, <1>2, <1>3 DEF Passed
<1>5. \A i \in Passed(names) : i < k
  BY <1>2 DEF InTurn
<1>6. InTurn(names)'
  <2>1. SUFFICES ASSUME NEW i \in Passed(names)', NEW j \in opts'
                 PROVE  i < j
    BY <1>1, <1>3 DEF InTurn
  <2>2. CASE i = k
    BY <2>2, <1>1, <1>2, <1>3
  <2>3. CASE i \in Passed(names)
    BY <2>3, <1>3 DEF InTurn
  <2>4. QED
    BY <1>4, <2>2, <2>3
<1>7. QED
  BY <1>1, <1>2, <1>4, <1>5, <1>6 DEF k, Passed

LEMMA SaidOnNext ==
  ASSUME RunInv, NEW p, NEW P, NEW k, P \subseteq Nat, k \in Nat, k \in Opts(Overrides),
         \A i \in P : i < k
  PROVE  SaidOn(p, P \cup {k}) <=> IF p.name \in Matching(run.opts[k].arg)
                                     THEN run.opts[k].name = "enableplugin" ELSE SaidOn(p, P)
<1> DEFINE A == About(p.name, Overrides)
<1>1. CASE p.name \in Matching(run.opts[k].arg)
  <2>0. k \in About(p.name, Overrides)
    BY <1>1 DEF About
  <2>5. \A j \in P \cup {k} : j \in Nat /\ j <= k
    OBVIOUS
  <2>1. k \in A \cap (P \cup {k}) /\ A \cap (P \cup {k}) \subseteq Nat /\ \A j \in A \cap (P \cup {k}) : j <= k
    BY <2>0, <2>5
  <2>2. Greatest(A \cap (P \cup {k})) = k
    BY <2>1, GreatestIs
  <2>3. QED
    BY <1>1, <2>1, <2>2 DEF SaidOn
<1>2. CASE p.name \notin Matching(run.opts[k].arg)
  <2>1. A \cap (P \cup {k}) = A \cap P
    BY <1>2 DEF About
  <2>2. QED
    BY <1>2, <2>1 DEF SaidOn
<1>3. QED
  BY <1>1, <1>2

(* The first --repo is about every repository, any other one about those   *)
(* it names.                                                               *)
LEMMA RepoOnNext ==
  ASSUME RunInv, NEW id, NEW P, NEW k, P \subseteq Nat, k \in Nat,
         k \in Opts(Altering), \A i \in P : i < k
  PROVE  RepoOnBy(P \cup {k}, id) <=>
           IF id \in Matching(run.opts[k].arg) THEN run.opts[k].name # "disablerepo"
           ELSE IF run.opts[k].name = "repo" /\ Opts({"repo"}) \cap P = {} THEN FALSE
           ELSE RepoOnBy(P, id)
<1> DEFINE R == Opts({"repo"})
           F(S) == {i \in R \cap S : \A j \in R \cap S : i <= j}
           A == About(id, Altering)
           Q == P \cup {k}
<1>1. \A j \in Q : j \in Nat /\ j <= k
  OBVIOUS
<1>2. k \in A <=> id \in Matching(run.opts[k].arg)
  BY DEF About
<1>3. k \in R <=> run.opts[k].name = "repo"
  BY DEF Opts
<1>4. RepoOnBy(Q, id) <=>
        IF (A \cap Q) \cup F(Q) = {} THEN Default(id)
        ELSE LET last == Greatest((A \cap Q) \cup F(Q))
             IN  last \in A \cap Q /\ run.opts[last].name # "disablerepo"
  BY DEF RepoOnBy, FirstThis
<1>5. RepoOnBy(P, id) <=>
        IF (A \cap P) \cup F(P) = {} THEN Default(id)
        ELSE LET last == Greatest((A \cap P) \cup F(P))
             IN  last \in A \cap P /\ run.opts[last].name # "disablerepo"
  BY DEF RepoOnBy, FirstThis
<1>6. F(Q) = IF k \in R /\ R \cap P = {} THEN {k} ELSE F(P)
  <2>1. \A i \in R \cap P : i < k /\ i <= k /\ ~(k <= i) /\ k <= k
    BY <1>1
  <2>2. CASE k \in R /\ R \cap P = {}
    <3>1. R \cap Q = {k}
      BY <2>2
    <3>2. QED
      BY <2>2, <3>1, <1>1
  <2>3. CASE k \notin R
    <3>1. R \cap Q = R \cap P
      BY <2>3
    <3>2. QED
      BY <2>3, <3>1
  <2>4. CASE k \in R /\ R \cap P # {}
    <3>1. R \cap Q = (R \cap P) \cup {k}
      BY <2>4
    <3>2. QED
      BY <2>4, <3>1, <2>1
  <2>5. QED
    BY <2>2, <2>3, <2>4
<1>7. F(P) \subseteq P
  OBVIOUS
<1> HIDE DEF R, F, A
<1>8. \A S : S \subseteq Q /\ k \in S => Greatest(S) = k
  BY <1>1, GreatestIs
<1>9. CASE k \in A
  <2>1. (A \cap Q) \cup F(Q) \subseteq Q /\ k \in (A \cap Q) \cup F(Q) /\ k \in A \cap Q
    BY <1>9, <1>6, <1>7
  <2>2. Greatest((A \cap Q) \cup F(Q)) = k
    BY <2>1, <1>8
  <2>3. QED
    BY <1>9, <2>1, <2>2, <1>4, <1>2
<1>10. CASE k \notin A /\ k \in R /\ R \cap P = {}
  <2>1. F(Q) = {k} /\ (A \cap Q) \cup F(Q) \subseteq Q /\ k \in (A \cap Q) \cup F(Q)
    BY <1>10, <1>6, <1>7
  <2>2. Greatest((A \cap Q) \cup F(Q)) = k
    BY <2>1, <1>8
  <2>3. QED
    BY <1>10, <2>1, <2>2, <1>4, <1>2, <1>3 DEF R
<1>11. CASE k \notin A /\ ~(k \in R /\ R \cap P = {})
  <2>1. F(Q) = F(P) /\ A \cap Q = A \cap P
    BY <1>11, <1>6
  <2>2. QED
    BY <1>11, <2>1, <1>4, <1>5, <1>2, <1>3 DEF R
<1>12. QED
  BY <1>9, <1>10, <1>11

(* What altering the list leaves alone, and what it does for a name or *.  *)
LEMMA Altered ==
  ASSUME NEW rs \in Seq(Repository), NEW on \in BOOLEAN, NEW pat
  PROVE  LET new == AlterRepoState(rs, on, pat)
         IN  /\ new \in Seq(Repository) /\ DOMAIN new = DOMAIN rs
             /\ \A i \in DOMAIN rs : /\ new[i].id = rs[i].id
                                     /\ pat = "*" \/ pat \notin DOMAIN Glob =>
                                          new[i].enabled = IF rs[i].id \in Matching(pat) THEN on
                                                           ELSE rs[i].enabled
<1> DEFINE hits == {i \in DOMAIN rs : rs[i].id \in Matching(pat)}
           altered == IF pat \in DOMAIN Glob THEN {i \in DOMAIN rs : \E j \in hits : j <= i} ELSE hits
           new == [i \in DOMAIN rs |-> IF i \in altered THEN [rs[i] EXCEPT !.enabled = on] ELSE rs[i]]
<1>1. DOMAIN rs = 1..Len(rs) /\ Len(rs) \in Nat /\ \A i \in DOMAIN rs : rs[i] \in Repository
  BY LenProperties, ElementOfSeq
<1>2. AlterRepoState(rs, on, pat) = new
  BY DEF AlterRepoState
<1>3. pat = "*" \/ pat \notin DOMAIN Glob => altered = hits
  <2>1. ASSUME pat = "*"
        PROVE  hits = DOMAIN rs
    BY <2>1, <1>1, SessionConstants DEF Matching, Repository
  <2>2. \A i \in DOMAIN rs : i <= i
    BY <1>1
  <2>3. QED
    BY <2>1, <2>2
<1> HIDE DEF altered
<1>4. \A i \in DOMAIN rs : /\ new[i] \in Repository /\ new[i].id = rs[i].id
                           /\ new[i].enabled = IF i \in altered THEN on ELSE rs[i].enabled
  BY <1>1 DEF Repository
<1>5. new \in Seq(Repository)
  <2>1. new = [i \in 1..Len(rs) |-> IF i \in altered THEN [rs[i] EXCEPT !.enabled = on] ELSE rs[i]]
    BY <1>1
  <2>2. \A i \in 1..Len(rs) :
          (IF i \in altered THEN [rs[i] EXCEPT !.enabled = on] ELSE rs[i]) \in Repository
    BY <1>1 DEF Repository
  <2>3. QED
    BY <2>1, <2>2, <1>1, IsASeq
<1>6. QED
  BY <1>2, <1>3, <1>4, <1>5

-----------------------------------------------------------------------------
(***************************************************************************)
(* The steps before the refresh.                                           *)
(***************************************************************************)
Early == {"idle", "plugins", "overrides", "init", "repos"}

LEMMA EarlyInv ==
  ASSUME pc' \in Early, RunInv', FreshInv', PluginsInv', StoreInv'
  PROVE  Inv'
<1>1. ListInv' /\ FinalInv' /\ OpenedInv'
  BY DEF Early, ListInv, FinalInv, OpenedInv, LastOptionDecides, NothingIsLost, Opened
<1>2. DataInv' /\ RefreshInv' /\ EndInv' /\ LoadedOrSkipped'
  BY DEF Early, DataInv, RefreshInv, EndInv, LoadedOrSkipped, Refreshing, Busy
<1>3. QED
  BY <1>1, <1>2 DEF Inv

LEMMA DoneInv ==
  ASSUME pc' = "done", RunInv', StoreInv', LoadedOrSkipped'
  PROVE  Inv'
<1>1. FreshInv' /\ PluginsInv' /\ ListInv' /\ FinalInv' /\ OpenedInv'
  BY DEF FreshInv, PluginsInv, ListInv, FinalInv, OpenedInv, LastOptionDecides, NothingIsLost,
         Opened, Refreshing, Busy
<1>2. DataInv' /\ RefreshInv' /\ EndInv'
  BY DEF DataInv, RefreshInv, EndInv, Refreshing, Busy
<1>3. QED
  BY <1>1, <1>2 DEF Inv

LEMMA AbortInv ==
  ASSUME Inv, NEW e, e # "none", Abort(e), run' = run, store' = store
  PROVE  Inv'
<1>1. RunInv' /\ StoreInv' /\ LoadedOrSkipped'
  BY DEF Inv, RunInv, StoreInv, LoadedOrSkipped, Abort
<1>2. QED
  BY <1>1, DoneInv DEF Abort

LEMMA InitInv == Init => Inv
<1>1. ASSUME Init
      PROVE  Inv
  <2>1. FirstSession \in Sessions
    BY SessionConstants DEF FirstSession
  <2>2. RunInv /\ FreshInv /\ PluginsInv
    BY <1>1, <2>1 DEF Init, RunInv, FreshInv, PluginsInv, Refreshing, Busy
  <2>3. ListInv /\ FinalInv /\ OpenedInv
    BY <1>1 DEF Init, ListInv, FinalInv, OpenedInv, LastOptionDecides, NothingIsLost, Opened
  <2>4. DataInv /\ RefreshInv /\ EndInv /\ LoadedOrSkipped
    BY <1>1 DEF Init, DataInv, RefreshInv, EndInv, LoadedOrSkipped, Refreshing, Busy
  <2>5. StoreInv
    BY <1>1 DEF Init, StoreInv, Nothing
  <2>6. QED
    BY <2>2, <2>3, <2>4, <2>5 DEF Inv
<1>2. QED
  BY <1>1

LEMMA OpenInv ==
  ASSUME Inv, NEW s \in Sessions, Open(s)
  PROVE  Inv'
<1>1. RunInv' /\ FreshInv' /\ PluginsInv' /\ StoreInv'
  BY DEF Open, opening, refresh, Inv, RunInv, FreshInv, PluginsInv, StoreInv, Refreshing, Busy
<1>2. QED
  BY <1>1, EarlyInv DEF Open, Early

LEMMA IdleInv ==
  ASSUME Inv, Closed, pc' = "idle", store' = store
  PROVE  Inv'
<1>1. FirstSession \in Sessions
  BY SessionConstants DEF FirstSession
<1>2. RunInv' /\ FreshInv' /\ PluginsInv' /\ StoreInv'
  BY <1>1 DEF Closed, Inv, RunInv, FreshInv, PluginsInv, StoreInv, Refreshing, Busy
<1>3. QED
  BY <1>2, EarlyInv DEF Early

LEMMA ReadPluginConfsInv ==
  ASSUME Inv, ReadPluginConfs
  PROVE  Inv'
<1> USE DEF refresh
<1>1. RunInv' /\ StoreInv' /\ run' = run /\ store' = store
  BY DEF ReadPluginConfs, Inv, RunInv, StoreInv
<1>2. CASE run.conf # "dir" \/ Has("noplugins")
  <2>1. FreshInv'
    BY <1>2 DEF ReadPluginConfs, Inv, FreshInv
  <2>2. plugins' = <<>> /\ PluginsOn' = {} /\ pc' = "repos"
    BY <1>2 DEF ReadPluginConfs, Inv, FreshInv, PluginsOn, Has
  <2>3. \A name : ~Active(name)'
    BY <2>2 DEF Active
  <2>4. PluginsInv'
    BY <2>2, <2>3 DEF PluginsInv
  <2>5. QED
    BY <1>1, <2>1, <2>2, <2>4, EarlyInv DEF Early
<1>3. CASE Abort("CONF_FILE_LOAD") \/ Abort("INVALID_PARAMETER")
  BY <1>1, <1>3, AbortInv
<1>4. CASE /\ ~(run.conf # "dir" \/ Has("noplugins"))
           /\ plugins' = [i \in DOMAIN run.plugins |->
                            [name |-> run.plugins[i].name, lib |-> run.plugins[i].lib,
                             enabled |-> run.plugins[i].state = "on"]]
           /\ opts' = Opts(Overrides) /\ pc' = "overrides"
  <2>1. FreshInv'
    BY <1>4 DEF ReadPluginConfs, Inv, FreshInv
  <2>2. Opts(Overrides)' = Opts(Overrides)
    BY <1>1 DEF Opts
  <2>3. Passed(Overrides)' = {} /\ InTurn(Overrides)'
    BY <1>4, <2>2 DEF Passed, InTurn
  <2>4. \A p : SaidOn(p, Passed(Overrides))' <=> p.state = "on"
    BY <2>3 DEF SaidOn
  <2>5. /\ plugins' \in [DOMAIN run.plugins -> Plugin]
        /\ \A i \in DOMAIN plugins' : /\ plugins'[i].name = run.plugins[i].name
                                      /\ plugins'[i].lib = run.plugins[i].lib
                                      /\ plugins'[i].enabled <=> run.plugins[i].state = "on"
    <3>1. \A i \in DOMAIN run.plugins : /\ run.plugins[i].name \in STRING
                                        /\ run.plugins[i].lib \in {"loads", "missing", "fails"}
      BY PluginsType DEF Inv
    <3>2. QED
      BY <1>4, <3>1 DEF Plugin
  <2>6. PluginsInv'
    BY <1>1, <1>4, <2>3, <2>4, <2>5 DEF PluginsInv, Refreshing, Busy, Has
  <2>7. QED
    BY <1>1, <1>4, <2>1, <2>6, EarlyInv DEF Early
<1>5. QED
  BY <1>2, <1>3, <1>4 DEF ReadPluginConfs, Overrides

LEMMA ApplyPluginOverrideInv ==
  ASSUME Inv, ApplyPluginOverride
  PROVE  Inv'
<1> DEFINE k == First(opts)
           P == Passed(Overrides)
<1>1. /\ RunInv /\ pc = "overrides" /\ pc' = "overrides" /\ run' = run /\ store' = store
      /\ opts # {} /\ NextOption
      /\ plugins' = AlterPluginState(plugins, run.opts[k].name = "enableplugin", run.opts[k].arg)
  BY DEF ApplyPluginOverride, Inv, Opt
<1>2. RunInv' /\ StoreInv' /\ FreshInv'
  BY <1>1 DEF ApplyPluginOverride, Inv, RunInv, StoreInv, FreshInv, refresh
<1>3. InTurn(Overrides)
  BY <1>1 DEF Inv, PluginsInv
<1>4. /\ k \in Opts(Overrides) /\ k \in Nat /\ P \subseteq Nat /\ \A i \in P : i < k
      /\ InTurn(Overrides)' /\ Passed(Overrides)' = P \cup {k}
  BY <1>1, <1>3, Turn
<1> HIDE DEF k, P
<1>5. \A i : SaidOn(run.plugins[i], Passed(Overrides))' <=> SaidOn(run.plugins[i], P \cup {k})
  <2>2. \A i : About(run.plugins[i].name, Overrides)' = About(run.plugins[i].name, Overrides)
    BY <1>1 DEF About, Opts
  <2>3. QED
    BY <1>1, <1>4, <2>2 DEF SaidOn
<1>6. \A i : SaidOn(run.plugins[i], P \cup {k}) <=>
               IF run.plugins[i].name \in Matching(run.opts[k].arg)
               THEN run.opts[k].name = "enableplugin" ELSE SaidOn(run.plugins[i], P)
  BY <1>1, <1>4, SaidOnNext
<1>7. /\ plugins \in [DOMAIN run.plugins -> Plugin]
      /\ \A i \in DOMAIN plugins : /\ plugins[i].name = run.plugins[i].name
                                   /\ plugins[i].lib = run.plugins[i].lib
                                   /\ plugins[i].enabled <=> SaidOn(run.plugins[i], P)
      /\ run.conf = "dir" /\ ~Has("noplugins")
  BY <1>1 DEF Inv, PluginsInv, P
<1> DEFINE on == run.opts[k].name = "enableplugin"
           pat == Matching(run.opts[k].arg)
<1>8. /\ plugins' \in [DOMAIN run.plugins -> Plugin]
      /\ \A i \in DOMAIN plugins' : /\ plugins'[i].name = run.plugins[i].name
                                    /\ plugins'[i].lib = run.plugins[i].lib
                                    /\ plugins'[i].enabled <=> IF run.plugins[i].name \in pat THEN on
                                                               ELSE SaidOn(run.plugins[i], P)
  <2>1. on \in BOOLEAN
    OBVIOUS
  <2>2. plugins' = [i \in DOMAIN plugins |->
                      IF plugins[i].name \in pat THEN [plugins[i] EXCEPT !.enabled = on] ELSE plugins[i]]
    BY <1>1 DEF AlterPluginState
  <2> HIDE DEF on, pat
  <2>3. QED
    BY <1>7, <2>1, <2>2 DEF Plugin
<1>9. PluginsInv'
  BY <1>1, <1>4, <1>5, <1>6, <1>7, <1>8 DEF PluginsInv, Refreshing, Busy, Has
<1>10. QED
  BY <1>1, <1>2, <1>9, EarlyInv DEF Early

LEMMA LoadPluginLibsInv ==
  ASSUME Inv, LoadPluginLibs
  PROVE  Inv'
<1>1. RunInv' /\ StoreInv' /\ FreshInv'
  BY DEF LoadPluginLibs, Inv, RunInv, StoreInv, FreshInv, refresh
<1>2. /\ plugins \in [DOMAIN run.plugins -> Plugin] /\ run' = run
      /\ plugins' = [i \in DOMAIN plugins |->
                       [plugins[i] EXCEPT !.enabled = @ /\ plugins[i].lib # "missing"]]
      /\ \A i \in DOMAIN plugins : /\ plugins[i].name = run.plugins[i].name
                                   /\ plugins[i].lib = run.plugins[i].lib
                                   /\ plugins[i].enabled <=> SaidOn(run.plugins[i], Passed(Overrides))
      /\ Passed(Overrides) = Opts(Overrides)
      /\ run.conf = "dir" /\ ~Has("noplugins")
  BY DEF LoadPluginLibs, Inv, PluginsInv, Passed
<1>3. \A i : SaidOn(run.plugins[i], Opts(Overrides))' <=> SaidOn(run.plugins[i], Opts(Overrides))
  <2>1. \A i : /\ About(run.plugins[i].name, Overrides)' = About(run.plugins[i].name, Overrides)
               /\ Opts(Overrides)' = Opts(Overrides)
    BY <1>2 DEF About, Opts
  <2>2. run' = run
    BY <1>2
  <2>3. QED
    BY <2>1, <2>2 DEF SaidOn
<1>4. /\ plugins' \in [DOMAIN run.plugins -> Plugin]
      /\ \A i \in DOMAIN plugins' : /\ plugins'[i].name = plugins[i].name
                                    /\ plugins'[i].lib = plugins[i].lib
                                    /\ plugins'[i].enabled <=> plugins[i].enabled /\ plugins[i].lib # "missing"
  <2>1. plugins \in [DOMAIN run.plugins -> Plugin]
    BY <1>2
  <2>2. plugins' = [i \in DOMAIN plugins |->
                      [plugins[i] EXCEPT !.enabled = @ /\ plugins[i].lib # "missing"]]
    BY <1>2
  <2>3. QED
    BY <2>1, <2>2 DEF Plugin
<1>5. PluginsInv'
  <2>1. pc' = "init" /\ Has("noplugins")' = Has("noplugins")
    BY <1>2 DEF LoadPluginLibs, Has
  <2>2. \A i \in DOMAIN plugins' :
          /\ plugins'[i].name = run'.plugins[i].name /\ plugins'[i].lib = run'.plugins[i].lib
          /\ plugins'[i].enabled <=> SaidOn(run.plugins[i], Opts(Overrides))' /\ plugins'[i].lib # "missing"
    <3>1. SUFFICES ASSUME NEW i \in DOMAIN plugins'
                   PROVE  /\ plugins'[i].name = run'.plugins[i].name /\ plugins'[i].lib = run'.plugins[i].lib
                          /\ plugins'[i].enabled <=>
                               SaidOn(run.plugins[i], Opts(Overrides))' /\ plugins'[i].lib # "missing"
      OBVIOUS
    <3>2. i \in DOMAIN plugins /\ i \in DOMAIN run.plugins
      BY <1>2, <1>4
    <3>3. plugins[i].enabled <=> SaidOn(run.plugins[i], Opts(Overrides))
      BY <1>2, <3>2
    <3>4. plugins[i].enabled <=> SaidOn(run.plugins[i], Opts(Overrides))'
      BY <1>3, <3>3
    <3>5. plugins[i].name = run.plugins[i].name /\ plugins[i].lib = run.plugins[i].lib /\ run' = run
      BY <1>2, <3>2
    <3>6. QED
      BY <1>4, <3>1, <3>4, <3>5
  <2>3. QED
    BY <1>2, <1>4, <2>1, <2>2 DEF PluginsInv, Refreshing, Busy
<1>6. QED
  BY <1>1, <1>5, EarlyInv DEF LoadPluginLibs, Early

LEMMA PluginsAreOn ==
  ASSUME Inv, pc = "init",
         ~ \E i \in DOMAIN plugins : plugins[i].enabled /\ plugins[i].lib = "fails"
  PROVE  \A name : Active(name) <=> name \in PluginsOn
<1>1. /\ RunInv /\ plugins \in [DOMAIN run.plugins -> Plugin]
      /\ \A i \in DOMAIN plugins : /\ plugins[i].name = run.plugins[i].name
                                   /\ plugins[i].lib = run.plugins[i].lib
                                   /\ plugins[i].enabled <=> /\ SaidOn(run.plugins[i], Opts(Overrides))
                                                             /\ plugins[i].lib # "missing"
      /\ run.conf = "dir" /\ ~Has("noplugins")
  BY DEF Inv, PluginsInv
<1>2. \A p : About(p.name, Overrides) \cap Opts(Overrides) = About(p.name, Overrides)
  BY DEF About
<1>3. \A i \in DOMAIN run.plugins :
        PluginOn(run.plugins[i]) <=> /\ run.plugins[i].lib = "loads"
                                     /\ SaidOn(run.plugins[i], Opts(Overrides))
  BY <1>2 DEF PluginOn, SaidOn, Overrides
<1>4. \A i \in DOMAIN run.plugins : PluginOn(run.plugins[i]) <=> plugins[i].enabled
  BY <1>1, <1>3, PluginsType
<1>5. \A name : name \in PluginsOn <=>
                  \E i \in DOMAIN run.plugins : PluginOn(run.plugins[i]) /\ run.plugins[i].name = name
  BY <1>1 DEF PluginsOn
<1>6. \A name : Active(name) <=>
                  \E i \in DOMAIN run.plugins : plugins[i].enabled /\ run.plugins[i].name = name
  BY <1>1 DEF Active
<1>7. QED
  BY <1>4, <1>5, <1>6

(* Which plugins are on, from then on.                                     *)
LEMMA SameActive ==
  ASSUME UNCHANGED <<run, plugins>>
  PROVE  (\A name : Active(name)' <=> Active(name)) /\ PluginsOn' = PluginsOn
<1>1. \A p : PluginOn(p)' <=> PluginOn(p)
  BY DEF PluginOn, About, Opts
<1>2. QED
  BY <1>1 DEF Active, PluginsOn, Has

LEMMA InitPluginsInv ==
  ASSUME Inv, InitPlugins
  PROVE  Inv'
<1>1. RunInv' /\ StoreInv' /\ run' = run /\ store' = store
  BY DEF InitPlugins, Inv, RunInv, StoreInv
<1>2. CASE Abort("PLUGIN")
  BY <1>1, <1>2, AbortInv
<1>3. CASE /\ ~ \E i \in DOMAIN plugins : plugins[i].enabled /\ plugins[i].lib = "fails"
           /\ pc' = "repos" /\ plugins' = plugins
  <2>1. FreshInv'
    BY <1>3 DEF InitPlugins, Inv, FreshInv, refresh
  <2>2. \A name : Active(name)' <=> name \in PluginsOn'
    BY <1>1, <1>3, PluginsAreOn, SameActive DEF InitPlugins
  <2>3. PluginsInv'
    BY <1>3, <2>2 DEF PluginsInv
  <2>4. QED
    BY <1>1, <1>3, <2>1, <2>3, EarlyInv DEF Early
<1>4. QED
  BY <1>2, <1>3 DEF InitPlugins

LEMMA KeptPlugins ==
  ASSUME PluginsInv, pc \in {"repos", "list", "finalize"} \/ Refreshing, pc' \notin {"overrides", "init"},
         UNCHANGED <<run, plugins>>
  PROVE  PluginsInv'
BY SameActive DEF PluginsInv

LEMMA SameRun ==
  ASSUME run' = run
  PROVE  /\ FromFiles' = FromFiles /\ FromOptions' = FromOptions /\ Plain' = Plain
         /\ \A names : Opts(names)' = Opts(names)
         /\ \A id, names : About(id, names)' = About(id, names)
BY DEF FromFiles, FromOptions, Plain, Opts, About

(* What the list has once the file at its head is read.                    *)
LEMMA HeadRead ==
  ASSUME files \in Seq(File), files # <<>>, files' = Tail(files)
  PROVE  /\ Head(files) \in File /\ files' \in Seq(File)
         /\ Ids(Head(files)) \subseteq Unread /\ Unread' \subseteq Unread
         /\ Unread \subseteq Ids(Head(files)) \cup Unread'
<1> HIDE DEF File
<1>1. /\ DOMAIN files = 1..Len(files) /\ Len(files) \in Nat /\ Len(files) # 0
      /\ Head(files) = files[1] /\ Head(files) \in File
  BY LenProperties, HeadTailProperties, EmptySeq
<1>2. /\ files' \in Seq(File) /\ Len(files') = Len(files) - 1 /\ DOMAIN files' = 1..(Len(files) - 1)
      /\ \A i \in 1..(Len(files) - 1) : files'[i] = files[i + 1]
  BY <1>1, HeadTailProperties, LenProperties
<1>3. \A r : r \in Unread <=> \E i \in 1..Len(files) : r \in Ids(files[i])
  BY <1>1 DEF Unread
<1>4. \A r : r \in Unread' <=> \E i \in 1..(Len(files) - 1) : r \in Ids(files[i + 1])
  <2>1. \A r : r \in Unread' <=> \E i \in DOMAIN files' : r \in Ids(files'[i])
    BY DEF Unread, Ids
  <2>2. \A i \in DOMAIN files' : files'[i] = files[i + 1]
    BY <1>2
  <2>3. QED
    BY <1>2, <2>1, <2>2
<1>5. Ids(Head(files)) \subseteq Unread
  BY <1>1, <1>3
<1>6. Unread' \subseteq Unread
  <2>1. \A i \in 1..(Len(files) - 1) : i + 1 \in 1..Len(files)
    BY <1>1
  <2>2. QED
    BY <1>3, <1>4, <2>1
<1>7. Unread \subseteq Ids(Head(files)) \cup Unread'
  <2>1. \A i \in 1..Len(files) : i = 1 \/ (i - 1 \in 1..(Len(files) - 1) /\ (i - 1) + 1 = i)
    BY <1>1
  <2>2. SUFFICES ASSUME NEW r, NEW i \in 1..Len(files), r \in Ids(files[i])
                 PROVE  r \in Ids(Head(files)) \/ r \in Unread'
    BY <1>3
  <2>3. CASE i = 1
    BY <2>2, <2>3, <1>1
  <2>4. CASE i # 1
    BY <2>1, <2>2, <2>4, <1>4
  <2>5. QED
    BY <2>3, <2>4
<1>8. QED
  BY <1>1, <1>2, <1>5, <1>6, <1>7

LEMMA SectionsAre ==
  ASSUME NEW f \in File
  PROVE  LET new == Sections(f.ids)
         IN  /\ new \in Seq(Repository)
             /\ \A i \in DOMAIN new : /\ new[i].id \in Ids(f)
                                      /\ new[i].enabled = Section[new[i].id].enabled
             /\ \A r \in Ids(f) : \E i \in DOMAIN new : new[i].id = r
<1> DEFINE ids == f.ids
           n == Len(ids)
           new == Sections(ids)
<1>1. ids \in Seq(DOMAIN Section)
  BY DEF File
<1> HIDE DEF ids
<1>2. n \in Nat /\ DOMAIN ids = 1..n /\ \A i \in 1..n : ids[i] \in DOMAIN Section
  BY <1>1, LenProperties, ElementOfSeq
<1>3. new = [i \in 1..n |-> FromSection(ids[n + 1 - i])]
  BY <1>2 DEF Sections
<1>4. \A i \in 1..n : n + 1 - i \in 1..n
  BY <1>2
<1>5. \A r \in DOMAIN Section : FromSection(r) \in Repository /\ FromSection(r).id = r
                                /\ FromSection(r).enabled = Section[r].enabled
  BY SessionConstants DEF FromSection, Repository, Names
<1>6. \A i \in 1..n : FromSection(ids[n + 1 - i]) \in Repository
  BY <1>2, <1>4, <1>5
<1>7. new \in Seq(Repository)
  BY <1>2, <1>3, <1>6, IsASeq
<1>8. \A i \in 1..n : new[i].id = ids[n + 1 - i] /\ new[i].enabled = Section[new[i].id].enabled
  <2>1. \A i \in 1..n : new[i] = FromSection(ids[n + 1 - i])
    BY <1>3
  <2>2. QED
    BY <2>1, <1>2, <1>4, <1>5
<1>9. Ids(f) = {ids[i] : i \in 1..n}
  BY <1>2 DEF Ids, ids
<1>10. DOMAIN new = 1..n
  BY <1>3
<1>11. \A r \in Ids(f) : \E i \in DOMAIN new : new[i].id = r
  <2>1. SUFFICES ASSUME NEW r, NEW j \in 1..n, r = ids[j]
                 PROVE  \E i \in DOMAIN new : new[i].id = r
    BY <1>9
  <2>2. n + 1 - j \in 1..n /\ n + 1 - (n + 1 - j) = j
    BY <1>2
  <2>3. QED
    BY <2>1, <2>2, <1>8, <1>10
<1>12. \A i \in DOMAIN new : new[i].id \in Ids(f)
  BY <1>4, <1>8, <1>9, <1>10
<1>13. QED
  BY <1>7, <1>8, <1>10, <1>11, <1>12 DEF ids

LEMMA ListStep ==
  ASSUME pc' = "list", RunInv', StoreInv', FreshInv', PluginsInv', ListInv', DataInv'
  PROVE  Inv'
<1>1. FinalInv' /\ OpenedInv' /\ RefreshInv' /\ EndInv' /\ LoadedOrSkipped'
  BY DEF FinalInv, OpenedInv, LastOptionDecides, NothingIsLost, Opened, RefreshInv, EndInv,
         LoadedOrSkipped, Refreshing, Busy
<1>2. QED
  BY <1>1 DEF Inv

(* A list of one repository that an option made.                           *)
LEMMA OneRepo ==
  ASSUME NEW id \in Names \cup {CmdLine}, NEW hasmd \in BOOLEAN
  PROVE  LET new == <<FromOption(id, hasmd)>>
         IN  /\ new \in Seq(Repository) /\ DOMAIN new = {1}
             /\ new[1].id = id /\ new[1].enabled
<1>1. FromOption(id, hasmd) \in Repository
  BY DEF FromOption, Repository
<1>2. FromOption(id, hasmd).id = id /\ FromOption(id, hasmd).enabled
  BY DEF FromOption
<1>3. QED
  BY <1>1, <1>2

LEMMA CreateCmdLineRepoInv ==
  ASSUME Inv, CreateCmdLineRepo
  PROVE  Inv'
<1>1. /\ RunInv /\ run' = run /\ plugins' = plugins /\ pc = "repos" /\ pc' = "list"
      /\ files' = run.files /\ opts' = Opts(Creating) /\ lost' = FALSE
  BY DEF CreateCmdLineRepo, Inv, FreshInv, Creating
<1>2. RunInv' /\ StoreInv' /\ FreshInv' /\ PluginsInv'
  BY <1>1, KeptPlugins DEF CreateCmdLineRepo, Inv, RunInv, StoreInv, FreshInv, refresh
<1>3. /\ repos' \in Seq(Repository) /\ DOMAIN repos' = {1} /\ repos'[1].id = CmdLine
  BY OneRepo DEF CreateCmdLineRepo
<1>4. Unread' = FromFiles' /\ Opts(Creating)' = Opts(Creating)
  BY <1>1 DEF Unread, FromFiles, Opts
<1>5. files' \in Seq(File)
  BY <1>1, RunType DEF SessionType, File
<1>6. ListInv'
  <2>1. Passed(Creating)' = {}
    BY <1>1, <1>4 DEF Passed
  <2>2. QED
    BY <1>1, <1>3, <1>4, <1>5, <2>1 DEF ListInv, ListType, ListFrom, ListHas
<1>7. DataInv'
  BY <1>1, <1>4 DEF DataInv, Refreshing, Busy
<1>8. QED
  BY <1>1, <1>2, <1>6, <1>7, ListStep

LEMMA CreateRepoInv ==
  ASSUME Inv, CreateRepo
  PROVE  Inv'
<1> DEFINE k == First(opts)
           arg == run.opts[k].arg
           dir == run.opts[k].name = "repofromdir"
<1>1. /\ RunInv /\ run' = run /\ plugins' = plugins /\ data' = data /\ files' = files /\ store' = store
      /\ pc = "list" /\ opts # {}
      /\ ListType /\ ListFrom /\ (~lost => ListHas)
  BY DEF CreateRepo, Inv, ListInv
<1>2. CASE Abort("INVALID_PARAMETER")
  BY <1>1, <1>2, AbortInv
<1>3. CASE /\ arg \in DOMAIN Base /\ NextOption /\ pc' = pc
           /\ IF dir
                THEN repos' = <<FromOption(arg, FALSE)>> /\ lost' = TRUE
                ELSE /\ repos' = IF lost THEN repos ELSE Append(repos, FromOption(arg, TRUE))
                     /\ lost' = lost
  <2>1. RunInv' /\ StoreInv' /\ FreshInv' /\ PluginsInv'
    BY <1>1, <1>3, KeptPlugins DEF CreateRepo, Inv, RunInv, StoreInv, FreshInv, refresh
  <2>2. /\ k \in opts /\ k \in Opts(Creating)
    BY <1>1, RunType, FirstIs DEF ListType
  <2>3. /\ arg \in Names /\ arg \in FromOptions /\ (dir => k \in Opts({"repofromdir"}))
        /\ (run.opts[k].name = "repofrompath" \/ dir)
    BY <1>3, <2>2 DEF Names, FromOptions, Opts, Creating
  <2>4. opts' = opts \ {k} /\ Passed(Creating)' = Passed(Creating) \cup {k}
    <3>1. opts' = opts \ {k} /\ Opts(Creating)' = Opts(Creating)
      BY <1>1, <1>3 DEF NextOption, Opts
    <3>2. QED
      BY <2>2, <3>1 DEF Passed
  <2>5. /\ FromFiles' = FromFiles /\ FromOptions' = FromOptions /\ Unread' = Unread
        /\ \A names : Opts(names)' = Opts(names)
    BY <1>1, SameRun DEF Unread
  <2> HIDE DEF k, arg, dir
  <2>6. CASE dir
    <3>1. repos' \in Seq(Repository) /\ DOMAIN repos' = {1} /\ repos'[1].id = arg /\ repos'[1].enabled
      BY <1>3, <2>3, <2>6, OneRepo
    <3>2. ListInv'
      BY <1>1, <1>3, <2>3, <2>4, <2>5, <2>6, <3>1 DEF ListInv, ListType, ListFrom
    <3>3. DataInv'
      BY <1>1, <1>3, <2>5, SameActive DEF Inv, DataInv, Refreshing, Busy
    <3>4. QED
      BY <1>1, <1>3, <2>1, <3>2, <3>3, ListStep
  <2>7. CASE ~dir /\ ~lost
    <3> DEFINE n == Len(repos)
    <3>1. FromOption(arg, TRUE) \in Repository /\ FromOption(arg, TRUE).id = arg /\ FromOption(arg, TRUE).enabled
      BY <2>3 DEF FromOption, Repository
    <3>2. n \in Nat /\ DOMAIN repos = 1..n
      BY <1>1, LenProperties DEF ListType
    <3>3. repos' = Append(repos, FromOption(arg, TRUE)) /\ lost' = FALSE
      BY <1>1, <1>3, <2>7 DEF ListType
    <3>4. /\ repos' \in Seq(Repository) /\ DOMAIN repos' = 1..(n + 1)
          /\ repos'[n + 1].id = arg /\ repos'[n + 1].enabled
          /\ \A i \in 1..n : repos'[i] = repos[i]
      <4>1. /\ repos' \in Seq(Repository) /\ Len(repos') = n + 1
            /\ repos'[n + 1] = FromOption(arg, TRUE) /\ \A i \in 1..n : repos'[i] = repos[i]
        <5> DEFINE x == FromOption(arg, TRUE)
        <5>1. repos \in Seq(Repository) /\ x \in Repository /\ repos' = Append(repos, x)
          BY <1>1, <3>1, <3>3 DEF ListType
        <5> HIDE DEF x
        <5>2. /\ Append(repos, x) \in Seq(Repository) /\ Len(Append(repos, x)) = Len(repos) + 1
              /\ Append(repos, x)[Len(repos) + 1] = x
              /\ \A i \in 1..Len(repos) : Append(repos, x)[i] = repos[i]
          BY <5>1, AppendProperties
        <5>3. QED
          BY <5>1, <5>2 DEF x
      <4>2. DOMAIN repos' = 1..Len(repos')
        BY <4>1, LenProperties
      <4>3. QED
        BY <3>1, <4>1, <4>2
    <3> HIDE DEF n
    <3>5. DOMAIN repos \subseteq DOMAIN repos' /\ \A i \in DOMAIN repos' : i \in DOMAIN repos \/ i = n + 1
      BY <3>2, <3>4
    <3>6. \A i \in DOMAIN repos : repos'[i] = repos[i]
      BY <3>2, <3>4
    <3>7. ListType'
      BY <1>1, <2>4, <2>5, <3>3, <3>4 DEF ListType
    <3>8. ListFrom'
      <4>1. SUFFICES ASSUME NEW i \in DOMAIN repos'
                     PROVE  \/ repos'[i].id = CmdLine
                            \/ repos'[i].id \in FromOptions /\ repos'[i].enabled
                            \/ repos'[i].id \in FromFiles /\ repos'[i].enabled = Section[repos'[i].id].enabled
        BY <2>5, <3>3 DEF ListFrom
      <4>2. CASE i \in DOMAIN repos
        BY <1>1, <3>6, <4>2 DEF ListFrom
      <4>3. CASE i = n + 1
        BY <2>3, <3>4, <4>3
      <4>4. QED
        BY <3>5, <4>2, <4>3
    <3>9. ListHas'
      <4>1. /\ n + 1 \in DOMAIN repos'
            /\ \A j \in DOMAIN repos : j \in DOMAIN repos' /\ repos'[j] = repos[j]
        BY <3>2, <3>4, <3>5, <3>6
      <4>2. \E j \in DOMAIN repos' : repos'[j].id = CmdLine
        BY <1>1, <2>7, <4>1 DEF ListHas
      <4>3. \A r \in FromFiles \ Unread : \E j \in DOMAIN repos' : repos'[j].id = r
        BY <1>1, <2>7, <4>1 DEF ListHas
      <4>4. \A o \in Passed(Creating) :
              \E j \in DOMAIN repos' : repos'[j].id = run.opts[o].arg /\ repos'[j].enabled
        BY <1>1, <2>7, <4>1 DEF ListHas
      <4>5. \E j \in DOMAIN repos' : repos'[j].id = run.opts[k].arg /\ repos'[j].enabled
        BY <3>4, <4>1 DEF arg
      <4>6. QED
        BY <1>1, <2>4, <2>5, <4>2, <4>3, <4>4, <4>5 DEF ListHas
    <3>10. ListInv'
      BY <3>7, <3>8, <3>9 DEF ListInv
    <3>11. DataInv'
      BY <1>1, <1>3, <2>5, SameActive DEF Inv, DataInv, Refreshing, Busy
    <3>12. QED
      BY <1>1, <1>3, <2>1, <3>10, <3>11, ListStep
  <2>8. CASE ~dir /\ lost
    <3>1. ListInv'
      BY <1>1, <1>3, <2>4, <2>5, <2>8 DEF ListInv, ListType, ListFrom
    <3>2. DataInv'
      BY <1>1, <1>3, <2>5, SameActive DEF Inv, DataInv, Refreshing, Busy
    <3>3. QED
      BY <1>1, <1>3, <2>1, <3>1, <3>2, ListStep
  <2>9. QED
    BY <1>1, <2>6, <2>7, <2>8 DEF ListType
<1>4. QED
  BY <1>2, <1>3 DEF CreateRepo, Opt

LEMMA LoadReposFromFileInv ==
  ASSUME Inv, LoadReposFromFile
  PROVE  Inv'
<1>1. /\ RunInv /\ run' = run /\ plugins' = plugins /\ lost' = lost /\ opts' = opts /\ store' = store
      /\ pc = "list" /\ files # <<>>
      /\ ListType /\ ListFrom /\ (~lost => ListHas)
  BY DEF LoadReposFromFile, Inv, ListInv
<1>2. CASE Abort("CONF_FILE_LOAD")
  BY <1>1, <1>2, AbortInv
<1> DEFINE ids == Ids(Head(files))
           secs == Sections(Head(files).ids)
<1>3. CASE /\ repos' = IF lost THEN repos ELSE repos \o secs
           /\ data' = data \cup Kept(ids)
           /\ files' = Tail(files) /\ pc' = pc
  <2>1. RunInv' /\ StoreInv' /\ FreshInv' /\ PluginsInv'
    BY <1>1, <1>3, KeptPlugins DEF LoadReposFromFile, Inv, RunInv, StoreInv, FreshInv, refresh
  <2>2. /\ Head(files) \in File /\ files' \in Seq(File)
        /\ ids \subseteq Unread /\ Unread' \subseteq Unread /\ Unread \subseteq ids \cup Unread'
    BY <1>1, <1>3, HeadRead DEF ListType
  <2>3. /\ FromFiles' = FromFiles /\ FromOptions' = FromOptions
        /\ \A names : Opts(names)' = Opts(names)
    BY <1>1, SameRun
  <2>4. ids \subseteq FromFiles /\ Unread' \subseteq FromFiles
    BY <1>1, <2>2 DEF ListType
  <2>5. /\ secs \in Seq(Repository)
        /\ \A i \in DOMAIN secs : secs[i].id \in ids /\ secs[i].enabled = Section[secs[i].id].enabled
        /\ \A r \in ids : \E i \in DOMAIN secs : secs[i].id = r
    BY <2>2, SectionsAre
  <2>6. DataInv'
    <3>1. \A r \in ids : /\ Active("metalink") /\ Section[r].metalink => [plugin |-> "metalink", id |-> r] \in data'
                         /\ Active("repogpgcheck") /\ Section[r].gpg => [plugin |-> "repogpgcheck", id |-> r] \in data'
      BY <1>3 DEF Kept
    <3>2. \A r \in FromFiles \ Unread :
            /\ Active("metalink") /\ Section[r].metalink => [plugin |-> "metalink", id |-> r] \in data'
            /\ Active("repogpgcheck") /\ Section[r].gpg => [plugin |-> "repogpgcheck", id |-> r] \in data'
      BY <1>1, <1>3 DEF Inv, DataInv
    <3>3. \A r \in FromFiles \ Unread' : r \in ids \/ r \in FromFiles \ Unread
      BY <2>2
    <3>4. QED
      BY <1>1, <1>3, <2>3, <3>1, <3>2, <3>3, SameActive DEF DataInv, Refreshing, Busy
  <2> HIDE DEF ids, secs
  <2>7. ListType'
    <3>1. repos' \in Seq(Repository)
      BY <1>1, <1>3, <2>5, ConcatProperties DEF ListType
    <3>2. QED
      BY <1>1, <2>2, <2>3, <2>4, <3>1 DEF ListType
  <2>8. Passed(Creating)' = Passed(Creating)
    BY <1>1, <2>3 DEF Passed
  <2>9. CASE lost
    <3>1. ListFrom' /\ ~(~lost')
      BY <1>1, <1>3, <2>3, <2>9 DEF ListFrom
    <3>2. QED
      BY <1>1, <1>3, <2>1, <2>6, <2>7, <3>1, ListStep DEF ListInv
  <2>10. CASE ~lost
    <3> DEFINE n == Len(repos)
               m == Len(secs)
    <3>1. /\ n \in Nat /\ m \in Nat /\ DOMAIN repos = 1..n /\ DOMAIN secs = 1..m
      BY <1>1, <2>5, LenProperties DEF ListType
    <3>2. /\ DOMAIN repos' = 1..(n + m)
          /\ \A i \in 1..(n + m) : repos'[i] = IF i <= n THEN repos[i] ELSE secs[i - n]
      <4>1. /\ repos \in Seq(Repository) /\ repos' = repos \o secs
        BY <1>1, <1>3, <2>10 DEF ListType
      <4>2. /\ repos' \in Seq(Repository) /\ Len(repos') = n + m
            /\ \A i \in 1..(n + m) : repos'[i] = IF i <= n THEN repos[i] ELSE secs[i - n]
        BY <4>1, <2>5, ConcatProperties
      <4>3. DOMAIN repos' = 1..Len(repos')
        BY <4>2, LenProperties
      <4>4. QED
        BY <4>2, <4>3
    <3> HIDE DEF n, m
    <3>3. \A i \in DOMAIN repos : i \in DOMAIN repos' /\ repos'[i] = repos[i]
      BY <3>1, <3>2
    <3>4. \A i \in DOMAIN secs : n + i \in DOMAIN repos' /\ repos'[n + i] = secs[i]
      <4>1. SUFFICES ASSUME NEW i \in 1..m
                     PROVE  n + i \in DOMAIN repos' /\ repos'[n + i] = secs[i]
        BY <3>1
      <4>2. n + i \in 1..(n + m) /\ ~(n + i <= n) /\ (n + i) - n = i
        BY <3>1
      <4>3. QED
        BY <3>2, <4>2
    <3>5. \A i \in DOMAIN repos' : \/ i \in DOMAIN repos /\ repos'[i] = repos[i]
                                   \/ i - n \in DOMAIN secs /\ repos'[i] = secs[i - n]
      BY <3>1, <3>2
    <3>6. ListFrom'
      <4>1. SUFFICES ASSUME NEW i \in DOMAIN repos'
                     PROVE  \/ repos'[i].id = CmdLine
                            \/ repos'[i].id \in FromOptions /\ repos'[i].enabled
                            \/ repos'[i].id \in FromFiles /\ repos'[i].enabled = Section[repos'[i].id].enabled
        BY <1>1, <2>3, <2>10 DEF ListFrom
      <4>2. CASE i \in DOMAIN repos /\ repos'[i] = repos[i]
        BY <1>1, <4>2 DEF ListFrom
      <4>3. CASE i - n \in DOMAIN secs /\ repos'[i] = secs[i - n]
        BY <2>4, <2>5, <4>3
      <4>4. QED
        BY <3>5, <4>2, <4>3
    <3>7. ListHas'
      <4>1. \E j \in DOMAIN repos' : repos'[j].id = CmdLine
        BY <1>1, <2>10, <3>3 DEF ListHas
      <4>2. \A o \in Passed(Creating) :
              \E j \in DOMAIN repos' : repos'[j].id = run.opts[o].arg /\ repos'[j].enabled
        BY <1>1, <2>10, <3>3 DEF ListHas
      <4>3. \A r \in FromFiles \ Unread : \E j \in DOMAIN repos' : repos'[j].id = r
        BY <1>1, <2>10, <3>3 DEF ListHas
      <4>4. \A r \in ids : \E j \in DOMAIN repos' : repos'[j].id = r
        BY <2>5, <3>4
      <4>5. \A r \in FromFiles \ Unread' : r \in ids \/ r \in FromFiles \ Unread
        BY <2>2
      <4>6. QED
        BY <1>1, <2>3, <2>8, <4>1, <4>2, <4>3, <4>4, <4>5 DEF ListHas
    <3>8. QED
      BY <1>1, <1>3, <2>1, <2>6, <2>7, <3>6, <3>7, ListStep DEF ListInv
  <2>11. QED
    BY <2>9, <2>10
<1>4. QED
  BY <1>2, <1>3 DEF LoadReposFromFile

LEMMA CheckDuplicatesInv ==
  ASSUME Inv, CheckDuplicates
  PROVE  Inv'
<1>1. /\ RunInv /\ run' = run /\ plugins' = plugins /\ data' = data /\ files' = files /\ store' = store
      /\ pc = "list" /\ opts = {} /\ files = <<>> /\ seen' = seen
      /\ ListType /\ ListFrom /\ (~lost => ListHas)
  BY DEF CheckDuplicates, Inv, ListInv
<1>2. CASE Abort("DUPLICATE_REPO_ID")
  BY <1>1, <1>2, AbortInv
<1>3. CASE ~Duplicates /\ opts' = Opts(Altering) /\ pc' = "finalize" /\ repos' = repos
  <2>1. RunInv' /\ StoreInv' /\ FreshInv' /\ PluginsInv'
    BY <1>1, <1>3, KeptPlugins DEF CheckDuplicates, Inv, RunInv, StoreInv, FreshInv, refresh
  <2>2. /\ FromFiles' = FromFiles /\ FromOptions' = FromOptions /\ Plain' = Plain
        /\ Unread' = Unread /\ \A names : Opts(names)' = Opts(names)
    BY <1>1, SameRun DEF Unread
  <2>3. Unread = {}
    BY <1>1 DEF Unread
  <2>4. repos \in Seq(Repository) /\ Unique(repos)
    BY <1>1, <1>3 DEF ListType, Unique, Duplicates
  <2>5. Passed(Creating) = Opts(Creating)
    BY <1>1 DEF Passed
  <2>6. Complete
    <3>1. SUFFICES ASSUME Opts({"repofromdir"}) = {}
                   PROVE  {repos[i].id : i \in DOMAIN repos} =
                            {CmdLine} \cup FromFiles \cup {run.opts[i].arg : i \in Opts({"repofrompath"})}
      BY DEF Complete
    <3>2. ~lost
      BY <1>1, <3>1 DEF ListType
    <3>3. Opts(Creating) = Opts({"repofrompath"})
      BY <3>1 DEF Opts, Creating
    <3>4. FromOptions = {run.opts[i].arg : i \in Opts({"repofrompath"})}
      BY <3>3 DEF FromOptions, Creating
    <3>5. \A i \in DOMAIN repos : repos[i].id \in {CmdLine} \cup FromFiles \cup FromOptions
      BY <1>1 DEF ListFrom
    <3>6. \A o \in Opts({"repofrompath"}) : \E j \in DOMAIN repos : repos[j].id = run.opts[o].arg
      BY <1>1, <2>5, <3>2, <3>3 DEF ListHas
    <3>7. \A r \in {CmdLine} \cup FromFiles : \E j \in DOMAIN repos : repos[j].id = r
      BY <1>1, <2>3, <3>2 DEF ListHas
    <3>8. QED
      BY <3>4, <3>5, <3>6, <3>7
  <2>7. \A i \in DOMAIN repos : repos[i].id # CmdLine => (repos[i].enabled <=> Default(repos[i].id))
    <3>1. SUFFICES ASSUME NEW i \in DOMAIN repos, repos[i].id # CmdLine
                   PROVE  repos[i].enabled <=> Default(repos[i].id)
      OBVIOUS
    <3>2. repos[i].enabled \in BOOLEAN
      <4>1. repos[i] \in Repository
        BY <2>4, LenProperties, ElementOfSeq
      <4>2. QED
        BY <4>1 DEF Repository
    <3>3. CASE repos[i].id \in FromOptions /\ repos[i].enabled
      BY <3>2, <3>3 DEF Default
    <3>4. CASE ~lost /\ repos[i].id \in FromFiles /\ repos[i].enabled = Section[repos[i].id].enabled
      <4>1. CASE repos[i].id \in FromOptions
        <5>1. PICK o \in Opts(Creating) : run.opts[o].arg = repos[i].id
          BY <4>1 DEF FromOptions, Creating
        <5>2. PICK j \in DOMAIN repos : repos[j].id = run.opts[o].arg /\ repos[j].enabled
          BY <1>1, <2>5, <3>4 DEF ListHas
        <5>3. j = i
          BY <2>4, <5>1, <5>2 DEF Unique
        <5>4. QED
          BY <3>2, <4>1, <5>2, <5>3 DEF Default
      <4>2. CASE repos[i].id \notin FromOptions
        BY <3>2, <3>4, <4>2 DEF Default
      <4>3. QED
        BY <4>1, <4>2
    <3>5. QED
      BY <1>1, <3>1, <3>3, <3>4 DEF ListFrom
  <2>8. Passed(Altering)' = {} /\ InTurn(Altering)'
    BY <1>3, <2>2 DEF Passed, InTurn
  <2>10. \A id : RepoOnBy(Passed(Altering), id)' <=> Default(id)
    BY <2>2, <2>8 DEF RepoOnBy, FirstThis, Default
  <2>11. seen' = FALSE
    BY <1>1 DEF Inv, FreshInv
  <2>12. FinalInv'
    <3>1. Complete'
      BY <1>1, <1>3, <2>2, <2>6 DEF Complete
    <3>2. \A i \in DOMAIN repos' : repos'[i].id # CmdLine =>
            (repos'[i].enabled <=> RepoOnBy(Passed(Altering), repos[i].id)')
      BY <1>3, <2>7, <2>10
    <3>3. QED
      BY <1>3, <2>4, <2>8, <2>11, <3>1, <3>2 DEF FinalInv
  <2>13. DataInv'
    BY <1>1, <1>3, <2>2, <2>3, SameActive DEF Inv, DataInv, Refreshing, Busy
  <2>14. ListInv' /\ OpenedInv' /\ RefreshInv' /\ EndInv' /\ LoadedOrSkipped'
    BY <1>3 DEF ListInv, OpenedInv, LastOptionDecides, NothingIsLost, Opened, RefreshInv, EndInv,
                LoadedOrSkipped, Refreshing, Busy
  <2>15. QED
    BY <2>1, <2>12, <2>13, <2>14 DEF Inv
<1>4. QED
  BY <1>2, <1>3 DEF CheckDuplicates, Altering

(* What holds of a list that has the same names in the same places.        *)
LEMMA SameNames ==
  ASSUME NEW a, NEW b, DOMAIN a = DOMAIN b, \A i \in DOMAIN a : a[i].id = b[i].id
  PROVE  /\ Unique(a) => Unique(b)
         /\ {a[i].id : i \in DOMAIN a} = {b[i].id : i \in DOMAIN b}
<1>1. Unique(a) => Unique(b)
  BY DEF Unique
<1>2. \A r : r \in {a[i].id : i \in DOMAIN a} <=> r \in {b[i].id : i \in DOMAIN b}
  <2>1. \A r : r \in {a[i].id : i \in DOMAIN a} <=> \E i \in DOMAIN a : a[i].id = r
    OBVIOUS
  <2>2. \A r : r \in {b[i].id : i \in DOMAIN b} <=> \E i \in DOMAIN b : b[i].id = r
    OBVIOUS
  <2>3. QED
    BY <2>1, <2>2
<1>3. QED
  BY <1>1, <1>2

LEMMA OnlyThisIs ==
  ASSUME repos \in Seq(Repository), seen \in BOOLEAN
  PROVE  /\ OnlyThis \in Seq(Repository) /\ DOMAIN OnlyThis = DOMAIN repos
         /\ \A i \in DOMAIN repos : /\ OnlyThis[i].id = repos[i].id
                                    /\ OnlyThis[i].enabled = (seen /\ repos[i].enabled)
<1>1. \A i \in DOMAIN repos : repos[i].id \in Names \cup {CmdLine} /\ repos[i].enabled \in BOOLEAN
  <2>1. \A i \in DOMAIN repos : repos[i] \in Repository
    BY LenProperties, ElementOfSeq
  <2>2. QED
    BY <2>1 DEF Repository
<1>2. CASE seen
  BY <1>1, <1>2 DEF OnlyThis
<1>3. CASE ~seen
  <2>1. \A i \in DOMAIN repos : repos[i].id \in Matching("*")
    BY <1>1, SessionConstants DEF Matching
  <2>2. OnlyThis = AlterRepoState(repos, FALSE, "*")
    BY <1>3 DEF OnlyThis
  <2>3. QED
    BY <1>1, <1>3, <2>1, <2>2, Altered
<1>4. QED
  BY <1>2, <1>3

LEMMA FinalizeOptionInv ==
  ASSUME Inv, FinalizeOption
  PROVE  Inv'
<1> DEFINE k == First(opts)
           opt == run.opts[k]
           P == Passed(Altering)
           R == Opts({"repo"})
<1>1. /\ RunInv /\ run' = run /\ plugins' = plugins /\ data' = data /\ files' = files /\ store' = store
      /\ pc = "finalize" /\ pc' = "finalize" /\ opts # {} /\ NextOption
      /\ repos \in Seq(Repository) /\ Unique(repos) /\ Complete /\ InTurn(Altering)
      /\ seen <=> R \cap P # {}
      /\ Plain => \A i \in DOMAIN repos : repos[i].id # CmdLine =>
           (repos[i].enabled <=> RepoOnBy(P, repos[i].id))
  BY DEF FinalizeOption, Inv, FinalInv
<1>2. RunInv' /\ StoreInv' /\ FreshInv' /\ PluginsInv'
  BY <1>1, KeptPlugins DEF FinalizeOption, Inv, RunInv, StoreInv, FreshInv, refresh
<1>3. /\ FromFiles' = FromFiles /\ FromOptions' = FromOptions /\ Plain' = Plain
      /\ Unread' = Unread /\ \A names : Opts(names)' = Opts(names)
      /\ \A id, names : About(id, names)' = About(id, names)
  BY <1>1, SameRun DEF Unread
<1>4. /\ k \in opts /\ k \in Opts(Altering) /\ k \in Nat /\ P \subseteq Nat
      /\ \A i \in P : i < k
      /\ InTurn(Altering)' /\ Passed(Altering)' = P \cup {k}
  BY <1>1, Turn
<1>5. /\ opt.name \in Altering /\ (k \in R <=> opt.name = "repo")
      /\ Plain => opt.arg = "*" \/ opt.arg \notin DOMAIN Glob
  BY <1>4 DEF Opts, Plain, Altering
<1>6. /\ opt.name = "repo" => repos' = AlterRepoState(OnlyThis, TRUE, opt.arg) /\ seen' = TRUE
      /\ opt.name # "repo" => /\ repos' = AlterRepoState(repos, opt.name = "enablerepo", opt.arg)
                              /\ seen' = seen
  BY DEF FinalizeOption, Opt
<1>7. seen \in BOOLEAN
  BY <1>1 DEF Inv, FinalInv
(* The list and seen after the option: what RepoOnNext says they are.      *)
<1>8. /\ repos' \in Seq(Repository) /\ DOMAIN repos' = DOMAIN repos
      /\ \A i \in DOMAIN repos : repos'[i].id = repos[i].id
      /\ Plain => \A i \in DOMAIN repos :
           repos'[i].enabled <=> IF repos[i].id \in Matching(opt.arg) THEN opt.name # "disablerepo"
                                 ELSE IF opt.name = "repo" /\ R \cap P = {} THEN FALSE
                                 ELSE repos[i].enabled
  <2>1. CASE opt.name = "repo"
    <3>1. /\ OnlyThis \in Seq(Repository) /\ DOMAIN OnlyThis = DOMAIN repos
          /\ \A i \in DOMAIN repos : /\ OnlyThis[i].id = repos[i].id
                                     /\ OnlyThis[i].enabled = (seen /\ repos[i].enabled)
      BY <1>1, <1>7, OnlyThisIs
    <3> DEFINE new == AlterRepoState(OnlyThis, TRUE, opt.arg)
    <3> HIDE DEF opt
    <3>2. /\ new \in Seq(Repository) /\ DOMAIN new = DOMAIN OnlyThis
          /\ \A i \in DOMAIN OnlyThis :
               /\ new[i].id = OnlyThis[i].id
               /\ opt.arg = "*" \/ opt.arg \notin DOMAIN Glob =>
                    new[i].enabled = IF OnlyThis[i].id \in Matching(opt.arg) THEN TRUE
                                     ELSE OnlyThis[i].enabled
      BY <3>1, Altered
    <3>3. repos' = new
      BY <1>6, <2>1
    <3> HIDE DEF new
    <3>4. \A i \in DOMAIN repos : Plain =>
            (repos'[i].enabled <=> IF repos[i].id \in Matching(opt.arg) THEN TRUE ELSE seen /\ repos[i].enabled)
      BY <1>5, <3>1, <3>2, <3>3
    <3>5. QED
      BY <1>1, <2>1, <3>1, <3>2, <3>3, <3>4
  <2>2. CASE opt.name # "repo"
    <3> DEFINE on == opt.name = "enablerepo"
               new == AlterRepoState(repos, on, opt.arg)
    <3>1. repos' = new /\ (on <=> opt.name # "disablerepo") /\ on \in BOOLEAN
      BY <1>5, <1>6, <2>2 DEF Altering
    <3> HIDE DEF opt, on
    <3>2. /\ new \in Seq(Repository) /\ DOMAIN new = DOMAIN repos
          /\ \A i \in DOMAIN repos :
               /\ new[i].id = repos[i].id
               /\ opt.arg = "*" \/ opt.arg \notin DOMAIN Glob =>
                    new[i].enabled = IF repos[i].id \in Matching(opt.arg) THEN on ELSE repos[i].enabled
      BY <1>1, <3>1, Altered
    <3> HIDE DEF new
    <3>3. QED
      BY <1>5, <2>2, <3>1, <3>2
  <2>3. QED
    BY <2>1, <2>2
<1>9. seen' \in BOOLEAN /\ (seen' <=> R \cap (P \cup {k}) # {})
  <2>1. CASE opt.name = "repo"
    BY <1>5, <1>6, <2>1
  <2>2. CASE opt.name # "repo"
    <3>1. R \cap (P \cup {k}) = R \cap P
      BY <1>5, <2>2
    <3>2. QED
      BY <1>1, <1>6, <1>7, <2>2, <3>1
  <2>3. QED
    BY <2>1, <2>2
<1>11. \A id : RepoOnBy(Passed(Altering), id)' <=> RepoOnBy(P \cup {k}, id)
  <2> HIDE DEF k, P, R
  <2>1. Passed(Altering)' = P \cup {k} /\ run' = run /\ FromOptions' = FromOptions
    BY <1>1, <1>3, <1>4
  <2>2. \A id : About(id, Altering)' = About(id, Altering)
    BY <1>3
  <2>3. Opts({"repo"})' = Opts({"repo"})
    BY <1>3
  <2>4. QED
    BY <2>1, <2>2, <2>3 DEF RepoOnBy, FirstThis, Default
<1>12. \A id : RepoOnBy(P \cup {k}, id) <=>
           IF id \in Matching(opt.arg) THEN opt.name # "disablerepo"
           ELSE IF opt.name = "repo" /\ R \cap P = {} THEN FALSE
           ELSE RepoOnBy(P, id)
  <2> HIDE DEF k, P
  <2>1. QED
    BY <1>1, <1>4, RepoOnNext
<1>13. FinalInv'
  <2>1. Unique(repos') /\ {repos'[i].id : i \in DOMAIN repos'} = {repos[i].id : i \in DOMAIN repos}
    BY <1>1, <1>8, SameNames
  <2>2. Complete'
    BY <1>1, <1>3, <2>1 DEF Complete
  <2> HIDE DEF k, opt, P, R
  <2>3. Plain => \A i \in DOMAIN repos' : repos'[i].id # CmdLine =>
          (repos'[i].enabled <=> RepoOnBy(P \cup {k}, repos'[i].id))
    BY <1>1, <1>8, <1>12
  <2>5. \A i : RepoOnBy(Passed(Altering), repos[i].id)' <=>
                RepoOnBy(P \cup {k}, repos'[i].id)
    BY <1>11
  <2>4. QED
    BY <1>1, <1>3, <1>4, <1>8, <1>9, <2>1, <2>2, <2>3, <2>5 DEF FinalInv, R
<1>14. DataInv'
  BY <1>1, <1>3, SameActive DEF Inv, DataInv, Refreshing, Busy
<1>15. ListInv' /\ OpenedInv' /\ RefreshInv' /\ EndInv' /\ LoadedOrSkipped'
  BY <1>1 DEF ListInv, OpenedInv, LastOptionDecides, NothingIsLost, Opened, RefreshInv, EndInv,
              LoadedOrSkipped, Refreshing, Busy
<1>16. QED
  BY <1>2, <1>13, <1>14, <1>15 DEF Inv

LEMMA RepoListFinalizeInv ==
  ASSUME Inv, RepoListFinalize
  PROVE  Inv'
<1>1. /\ RunInv /\ run' = run /\ plugins' = plugins /\ data' = data /\ files' = files /\ store' = store
      /\ pc = "finalize" /\ pc' = "refresh" /\ opts = {} /\ repos' = repos
      /\ wanted' = Enabled(repos) /\ todo' = Enabled(repos) /\ at' = NoRepo /\ loaded' = {}
      /\ repos \in Seq(Repository) /\ Unique(repos) /\ Complete
      /\ Plain => \A i \in DOMAIN repos : repos[i].id # CmdLine =>
           (repos[i].enabled <=> RepoOnBy(Passed(Altering), repos[i].id))
  BY DEF RepoListFinalize, opening, Inv, FinalInv, FreshInv
<1>2. RunInv' /\ StoreInv' /\ FreshInv' /\ PluginsInv'
  BY <1>1, KeptPlugins DEF Inv, RunInv, StoreInv, FreshInv
<1>3. /\ FromFiles' = FromFiles /\ FromOptions' = FromOptions /\ Plain' = Plain
      /\ Unread' = Unread /\ \A names : Opts(names)' = Opts(names)
      /\ \A id, names : About(id, names)' = About(id, names)
  BY <1>1, SameRun DEF Unread
<1>4. \A i \in DOMAIN repos : repos[i].id \in Names \cup {CmdLine} /\ repos[i].enabled \in BOOLEAN
  <2>1. \A i \in DOMAIN repos : repos[i] \in Repository
    BY <1>1, LenProperties, ElementOfSeq
  <2>2. QED
    BY <2>1 DEF Repository
<1>5. LastOptionDecides'
  <2>1. Passed(Altering) = Opts(Altering)
    BY <1>1 DEF Passed
  <2>2. \A id : RepoOn(id, id \in FromOptions \/ Section[id].enabled)' <=> RepoOnBy(Opts(Altering), id)
    <3>1. \A id : About(id, Altering) \cap Opts(Altering) = About(id, Altering)
      BY DEF About
    <3>2. Opts({"repo"}) \cap Opts(Altering) = Opts({"repo"})
      BY DEF Opts, Altering
    <3>3. QED
      BY <1>1, <1>3, <3>1, <3>2 DEF RepoOn, RepoOnBy, FirstThis, Default, Altering
  <2>3. \A id : RepoOn(id, id \in FromOptions \/ Section[id].enabled)' \in BOOLEAN
    BY DEF RepoOn
  <2>5. \A name \in Known : Active(name)' <=> name \in PluginsOn'
    BY <1>1, <1>2 DEF PluginsInv, Refreshing
  <2>6. Plain' => \A i \in DOMAIN repos' : repos'[i].id # CmdLine =>
          repos'[i].enabled =
             RepoOn(repos[i].id, repos[i].id \in FromOptions \/ Section[repos[i].id].enabled)'
    <3>1. SUFFICES ASSUME Plain, NEW i \in DOMAIN repos, repos[i].id # CmdLine
                   PROVE  repos[i].enabled =
                            RepoOn(repos[i].id, repos[i].id \in FromOptions \/ Section[repos[i].id].enabled)'
      BY <1>1, <1>3
    <3>2. repos[i].enabled <=> RepoOnBy(Opts(Altering), repos[i].id)
      BY <1>1, <2>1, <3>1
    <3>3. repos[i].enabled <=>
            RepoOn(repos[i].id, repos[i].id \in FromOptions \/ Section[repos[i].id].enabled)'
      BY <1>1, <2>2, <3>2
    <3>4. QED
      BY <1>1, <1>4, <2>3, <3>3
  <2>7. QED
    BY <2>5, <2>6 DEF LastOptionDecides, Known
<1>6. NothingIsLost'
  <2>1. Complete /\ Unique(repos) /\ repos' = repos /\ run' = run
    BY <1>1
  <2>2. FromFiles' = FromFiles /\ Opts({"repofromdir"})' = Opts({"repofromdir"})
        /\ Opts({"repofrompath"})' = Opts({"repofrompath"})
    BY <1>3
  <2>3. QED
    BY <2>1, <2>2 DEF NothingIsLost, Complete, Unique
<1>7. RefreshInv'
  <2>1. \A r \in Enabled(repos) : r \in Names /\ \E i \in DOMAIN repos : repos[i].id = r
    BY <1>4 DEF Enabled
  <2>2. QED
    BY <1>1, <2>1 DEF RefreshInv, Refreshing, Busy
<1>8. DataInv'
  BY <1>1, <1>3, SameActive DEF Inv, DataInv, Refreshing, Busy
<1>9. ListInv' /\ FinalInv' /\ EndInv' /\ LoadedOrSkipped'
  BY <1>1 DEF ListInv, FinalInv, EndInv, LoadedOrSkipped
<1>10. QED
  BY <1>2, <1>5, <1>6, <1>7, <1>8, <1>9 DEF Inv, OpenedInv

-----------------------------------------------------------------------------
(***************************************************************************)
(* The refresh.                                                            *)
(***************************************************************************)
LEMMA TheIs ==
  ASSUME Unique(repos), NEW i \in DOMAIN repos
  PROVE  The(repos[i].id) = repos[i]
<1>1. \A j \in DOMAIN repos : repos[j].id = repos[i].id => j = i
  BY DEF Unique
<1>2. (CHOOSE j \in DOMAIN repos : repos[j].id = repos[i].id) = i
  BY <1>1
<1>3. QED
  BY <1>2 DEF The

LEMMA Disabled ==
  ASSUME repos \in Seq(Repository), Unique(repos), NEW id, repos' = Disable(id)
  PROVE  /\ repos' \in Seq(Repository) /\ Unique(repos')
         /\ \A r : (\E i \in DOMAIN repos : repos[i].id = r) =>
              /\ \E i \in DOMAIN repos' : repos'[i].id = r
              /\ The(r)'.skip = The(r).skip /\ The(r)'.hasmd = The(r).hasmd
<1> DEFINE n == Len(repos)
<1>1. n \in Nat /\ DOMAIN repos = 1..n /\ \A i \in 1..n : repos[i] \in Repository
  BY LenProperties, ElementOfSeq
<1>2. repos' = [i \in 1..n |-> IF repos[i].id = id THEN [repos[i] EXCEPT !.enabled = FALSE] ELSE repos[i]]
  BY <1>1 DEF Disable
<1>3. \A i \in 1..n :
        (IF repos[i].id = id THEN [repos[i] EXCEPT !.enabled = FALSE] ELSE repos[i]) \in Repository
  BY <1>1 DEF Repository
<1>4. \A i \in 1..n : /\ repos'[i].id = repos[i].id /\ repos'[i].skip = repos[i].skip
                      /\ repos'[i].hasmd = repos[i].hasmd
  BY <1>1, <1>2 DEF Repository
<1>5. repos' \in Seq(Repository) /\ DOMAIN repos' = 1..n
  BY <1>1, <1>2, <1>3, IsASeq
<1>6. Unique(repos')
  BY <1>1, <1>4, <1>5 DEF Unique
<1> HIDE DEF n
<1>7. ASSUME NEW r, NEW i \in 1..n, repos[i].id = r
      PROVE  /\ \E j \in DOMAIN repos' : repos'[j].id = r
             /\ The(r)'.skip = The(r).skip /\ The(r)'.hasmd = The(r).hasmd
  <2>1. The(r) = repos[i]
    BY <1>1, <1>7, TheIs
  <2>2. repos'[i].id = r /\ \A j \in DOMAIN repos' : repos'[j].id = r => j = i
    BY <1>1, <1>4, <1>5, <1>6, <1>7 DEF Unique
  <2>3. (CHOOSE j \in DOMAIN repos' : repos'[j].id = r) = i
    BY <1>5, <2>2
  <2>4. The(r)' = repos'[i]
    BY <2>3 DEF The
  <2>5. QED
    BY <1>4, <1>5, <2>1, <2>2, <2>4
<1>8. QED
  BY <1>1, <1>5, <1>6, <1>7

Record(v) == v = [md |-> v.md, parts |-> v.parts, ml |-> v.ml, marker |-> v.marker]

LEMMA StorePut ==
  ASSUME StoreInv, NEW a \in Names, NEW v, Record(v), store' = [store EXCEPT ![a] = v]
  PROVE  /\ StoreInv' /\ store'[a] = v
         /\ \A r \in Names : r # a => store'[r] = store[r]
<1>1. DOMAIN store = Names /\ \A r \in Names : Record(store[r])
  BY DEF StoreInv, Record
<1>2. \A r \in Names : store'[r] = IF r = a THEN v ELSE store[r]
  BY <1>1
<1>3. \A r \in Names : Record(store'[r])
  BY <1>1, <1>2
<1>4. store' = [r \in Names |-> store'[r]]
  BY <1>1
<1>5. StoreInv'
  BY <1>3, <1>4 DEF StoreInv, Record
<1>6. QED
  BY <1>2, <1>5

LEMMA StoreClear ==
  ASSUME StoreInv, NEW a \in Names, store' = [store EXCEPT ![a] = Nothing]
  PROVE  StoreInv' /\ \A r \in Names : r # a => store'[r] = store[r]
<1>1. Record(Nothing)
  BY DEF Nothing, Record
<1>2. QED
  BY <1>1, StorePut

(* A step inside the refresh of one repository.                            *)
LEMMA BusyInv ==
  ASSUME Inv, Busy, Busy', UNCHANGED <<run, plugins, data, files, repos, wanted, todo, at, loaded>>,
         StoreInv', \A r \in Names : r # at => store'[r] = store[r], EndInv'
  PROVE  Inv'
<1>1. RunInv' /\ PluginsInv'
  BY KeptPlugins DEF Inv, RunInv, Refreshing, Busy
<1>2. FreshInv' /\ ListInv' /\ FinalInv' /\ OpenedInv' /\ LoadedOrSkipped'
  BY DEF FreshInv, ListInv, FinalInv, OpenedInv, LastOptionDecides, NothingIsLost, Opened,
         LoadedOrSkipped, Busy
<1>3. DataInv'
  <2>1. FromFiles' = FromFiles /\ Unread' = Unread
    BY SameRun DEF Unread
  <2>2. QED
    BY <2>1, SameActive DEF Inv, DataInv, Refreshing, Busy
<1>4. RefreshInv'
  <2>1. RefreshInv /\ Refreshing /\ Refreshing'
    BY DEF Inv, Refreshing
  <2>2. \A r : The(r)' = The(r)
    BY DEF The
  <2>3. \A r \in loaded : r # at /\ r \in Names
    BY <2>1 DEF RefreshInv
  <2>4. QED
    BY <2>1, <2>2, <2>3 DEF RefreshInv
<1>5. QED
  BY <1>1, <1>2, <1>3, <1>4 DEF Inv

LEMMA RepoFailsInv ==
  ASSUME Inv, Busy, UNCHANGED <<run, plugins, data, files, wanted, todo, at>>,
         NEW e, e # "none", RepoFails(e)
  PROVE  Inv' /\ store' = [store EXCEPT ![at] = Nothing]
<1>1. /\ RefreshInv /\ Refreshing /\ StoreInv
      /\ at \in wanted /\ at \notin todo /\ at \notin loaded /\ at \in Names
  BY DEF Inv, RefreshInv, Refreshing
<1>2. StoreInv' /\ \A r \in Names : r # at => store'[r] = store[r]
  BY <1>1, StoreClear DEF RepoFails
<1>3. CASE The(at).skip /\ repos' = Disable(at) /\ pc' = "refresh"
  <2>1. RunInv' /\ PluginsInv'
    BY <1>3, KeptPlugins DEF Inv, RunInv, Refreshing, Busy
  <2>2. at' # NoRepo
    BY <1>1, SessionConstants
  <2>3. FreshInv' /\ ListInv' /\ FinalInv' /\ OpenedInv' /\ EndInv' /\ LoadedOrSkipped'
    BY <1>3, <2>2 DEF FreshInv, ListInv, FinalInv, OpenedInv, LastOptionDecides, NothingIsLost, Opened,
                      EndInv, LoadedOrSkipped
  <2>4. DataInv'
    <3>1. FromFiles' = FromFiles /\ Unread' = Unread
      BY SameRun DEF Unread
    <3>2. QED
      BY <1>3, <3>1, SameActive DEF Inv, DataInv, Refreshing, Busy
  <2>5. RefreshInv'
    <3>1. /\ repos' \in Seq(Repository) /\ Unique(repos')
          /\ \A r : (\E i \in DOMAIN repos : repos[i].id = r) =>
               /\ \E i \in DOMAIN repos' : repos'[i].id = r
               /\ The(r)'.skip = The(r).skip /\ The(r)'.hasmd = The(r).hasmd
      BY <1>1, <1>3, Disabled DEF RefreshInv
    <3>2. loaded' = loaded
      BY DEF RepoFails
    <3>3. \A r \in wanted : /\ r \in Names /\ \E i \in DOMAIN repos' : repos'[i].id = r
                            /\ The(r)'.skip = The(r).skip /\ The(r)'.hasmd = The(r).hasmd
      BY <1>1, <3>1 DEF RefreshInv
    <3>4. \A r \in wanted \ todo : r \in loaded \/ The(r)'.skip
      BY <1>1, <1>3, <3>3 DEF RefreshInv
    <3>5. \A r \in loaded : r \in wanted /\ r # at /\ r \in Names
      BY <1>1 DEF RefreshInv
    <3>6. \A r \in loaded' : The(r)'.hasmd => store'[r].md # None /\ store'[r].parts = store'[r].md
      BY <1>1, <1>2, <3>2, <3>3, <3>5 DEF RefreshInv
    <3>7. ~Busy'
      BY <1>3 DEF Busy
    <3>8. QED
      BY <1>1, <3>1, <3>2, <3>3, <3>4, <3>6, <3>7 DEF RefreshInv
  <2>6. QED
    BY <1>2, <2>1, <2>3, <2>4, <2>5 DEF Inv, RepoFails
<1>4. CASE Abort(e)
  <2>1. RunInv' /\ LoadedOrSkipped' /\ pc' = "done"
    BY <1>4 DEF Inv, RunInv, LoadedOrSkipped, Abort
  <2>2. QED
    BY <1>2, <2>1, DoneInv DEF RepoFails
<1>5. QED
  BY <1>3, <1>4 DEF RepoFails

LEMMA RefreshRepoInv ==
  ASSUME Inv, NEW id \in Names, NEW stale \in BOOLEAN, RefreshRepo(id, stale)
  PROVE  Inv'
<1>1. /\ RefreshInv /\ Refreshing /\ StoreInv /\ ~Busy /\ pc = "refresh" /\ id \in todo
      /\ UNCHANGED <<run, plugins, data, files, repos, wanted>>
      /\ at' = id /\ todo' = todo \ {id}
  BY DEF Inv, Refreshing, Busy, RefreshRepo, opening
<1>2. StoreInv' /\ \A r \in Names : r # id => store'[r] = store[r]
  <2>1. CASE store' = store
    BY <1>1, <2>1 DEF StoreInv
  <2>2. CASE store' = [store EXCEPT ![id] = [Nothing EXCEPT !.marker = store[id].marker]]
    <3> DEFINE v == [Nothing EXCEPT !.marker = store[id].marker]
    <3>1. Record(v)
      BY DEF Nothing, Record
    <3>2. StoreInv /\ store' = [store EXCEPT ![id] = v]
      BY <1>1, <2>2
    <3> HIDE DEF v
    <3>3. QED
      BY <3>1, <3>2, StorePut
  <2>3. QED
    BY <2>1, <2>2 DEF RefreshRepo
<1>3. \/ The(id).hasmd /\ pc' = "start" /\ loaded' = loaded
      \/ ~The(id).hasmd /\ pc' = "refresh" /\ loaded' = loaded \cup {id}
  BY DEF RefreshRepo
<1>4. RunInv' /\ PluginsInv'
  BY <1>1, <1>3, KeptPlugins DEF Inv, RunInv
<1>5. at' # NoRepo
  BY <1>1, SessionConstants
<1>6. FreshInv' /\ ListInv' /\ FinalInv' /\ OpenedInv' /\ EndInv' /\ LoadedOrSkipped'
  BY <1>3, <1>5 DEF FreshInv, ListInv, FinalInv, OpenedInv, LastOptionDecides, NothingIsLost, Opened,
                    EndInv, LoadedOrSkipped
<1>7. DataInv'
  <2>1. FromFiles' = FromFiles /\ Unread' = Unread
    BY <1>1, SameRun DEF Unread
  <2>2. QED
    BY <1>1, <1>3, <2>1, SameActive DEF Inv, DataInv
<1>8. RefreshInv'
  <2>1. \A r : The(r)' = The(r)
    BY <1>1 DEF The
  <2>2. id \in wanted /\ id \notin loaded /\ loaded \subseteq wanted /\ todo \subseteq wanted
        /\ \A r \in loaded : r \notin todo
    BY <1>1 DEF RefreshInv
  <2>3. /\ repos' \in Seq(Repository) /\ Unique(repos')
        /\ \A r \in wanted' : r \in Names /\ \E i \in DOMAIN repos' : repos'[i].id = r
    BY <1>1 DEF RefreshInv
  <2>4. \A r \in wanted \ todo : r \in loaded \/ The(r).skip
    BY <1>1 DEF RefreshInv
  <2>5. \A r \in loaded : The(r).hasmd => store'[r].md # None /\ store'[r].parts = store'[r].md
    BY <1>1, <1>2, <2>2 DEF RefreshInv
  <2>6. CASE The(id).hasmd /\ pc' = "start" /\ loaded' = loaded
    <3>1. Busy' /\ at' \in wanted' \ (todo' \cup loaded')
      BY <1>1, <2>2, <2>6 DEF Busy
    <3>2. QED
      BY <1>1, <2>1, <2>2, <2>3, <2>4, <2>5, <2>6, <3>1 DEF RefreshInv
  <2>7. CASE ~The(id).hasmd /\ pc' = "refresh" /\ loaded' = loaded \cup {id}
    <3>1. ~Busy'
      BY <2>7 DEF Busy
    <3>2. QED
      BY <1>1, <2>1, <2>2, <2>3, <2>4, <2>5, <2>7, <3>1 DEF RefreshInv
  <2>8. QED
    BY <1>3, <2>6, <2>7
<1>9. QED
  BY <1>2, <1>4, <1>6, <1>7, <1>8 DEF Inv

(* The repository that is at hand.                                         *)
LEMMA AtIs ==
  ASSUME Inv, Busy
  PROVE  at \in Names /\ StoreInv /\ at \notin loaded
BY DEF Inv, RefreshInv, Refreshing

LEMMA DownloadStartInv ==
  ASSUME Inv, DownloadStart
  PROVE  Inv'
<1>1. Busy /\ UNCHANGED <<run, plugins, data, files, wanted, todo, at>>
  BY DEF DownloadStart, Busy
<1>2. at \in Names /\ StoreInv
  BY <1>1, AtIs
<1>3. CASE RepoFails("DOWNLOAD")
  BY <1>1, <1>3, RepoFailsInv
<1>4. CASE pc' = "download" /\ repos' = repos /\ loaded' = loaded
           /\ (store' = store \/ store' = [store EXCEPT ![at].ml = current])
  <2>1. StoreInv' /\ \A r \in Names : r # at => store'[r] = store[r]
    <3>1. CASE store' = store
      BY <1>2, <3>1 DEF StoreInv
    <3>2. CASE store' = [store EXCEPT ![at].ml = current]
      <4> DEFINE v == [store[at] EXCEPT !.ml = current]
      <4>1. Record(v)
        BY <1>2 DEF StoreInv, Record
      <4>2. StoreInv /\ store' = [store EXCEPT ![at] = v]
        BY <1>2, <3>2
      <4> HIDE DEF v
      <4>3. QED
        BY <1>2, <4>1, <4>2, StorePut
    <3>3. QED
      BY <1>4, <3>1, <3>2
  <2>2. Busy' /\ EndInv'
    BY <1>4 DEF Busy, EndInv
  <2>3. QED
    BY <1>1, <1>4, <2>1, <2>2, BusyInv
<1>5. QED
  BY <1>3, <1>4 DEF DownloadStart

LEMMA DownloadRepoMDInv ==
  ASSUME Inv, DownloadRepoMD
  PROVE  Inv'
<1>1. Busy /\ UNCHANGED <<run, plugins, data, files, wanted, todo, at>>
  BY DEF DownloadRepoMD, Busy
<1>2. CASE RepoFails("BASEURL_DOES_NOT_EXISTS") \/ RepoFails("DOWNLOAD")
  BY <1>1, <1>2, RepoFailsInv
<1>3. CASE /\ store' = store /\ loaded' = loaded /\ repos' = repos
           /\ \/ pc' = "parse"
              \/ pc' = "end" /\ left' = {i \in DOMAIN plugins : Registered(plugins[i].name, at)}
  <2>1. StoreInv'
    BY <1>1, <1>3, AtIs DEF StoreInv
  <2>2. \A name : Registered(name, at)' <=> Registered(name, at)
    BY <1>1 DEF Registered, Active
  <2>3. EndInv'
    BY <1>1, <1>3, <2>2 DEF EndInv
  <2>4. Busy'
    BY <1>3 DEF Busy
  <2>5. QED
    BY <1>1, <1>3, <2>1, <2>3, <2>4, BusyInv
<1>4. QED
  BY <1>2, <1>3 DEF DownloadRepoMD

(* An event goes on to the plugins that are left.                          *)
LEMMA NextPluginInv ==
  ASSUME Inv, pc = "end", pc' = "end",
         UNCHANGED <<run, plugins, data, files, wanted, todo, at, store, tmp, loaded, repos>>,
         NEW k, left' = left \ {k},
         plugins[k].name = "repogpgcheck" => tmp.version # Foreign,
         plugins[k].name = "metalink" => HashError(Link[store[at].ml].hashes, tmp.version) = "none"
  PROVE  Inv'
<1>1. Busy /\ Busy'
  BY DEF Busy
<1>2. StoreInv'
  BY <1>1, AtIs DEF StoreInv
<1>3. \A name : Registered(name, at)' <=> Registered(name, at)
  BY DEF Registered, Active
<1>4. EndInv'
  BY <1>3 DEF Inv, EndInv
<1>5. QED
  BY <1>1, <1>2, <1>4, BusyInv

LEMMA CheckHashInv ==
  ASSUME Inv, CheckHash
  PROVE  Inv'
<1> DEFINE e == HashError(Link[store[at].ml].hashes, tmp.version)
<1>1. Busy /\ pc = "end" /\ UNCHANGED <<run, plugins, data, files, wanted, todo, at>>
      /\ plugins[First(left)].name = "metalink"
  BY DEF CheckHash, Busy
<1>2. CASE e # "none" /\ RepoFails(e)
  <2> HIDE DEF e
  <2>1. QED
    BY <1>1, <1>2, RepoFailsInv
<1>3. CASE e = "none" /\ left' = left \ {First(left)} /\ UNCHANGED <<pc, store, tmp, urls, loaded, repos, err>>
  BY <1>1, <1>3, NextPluginInv
<1>4. QED
  BY <1>2, <1>3 DEF CheckHash

LEMMA CheckSignatureInv ==
  ASSUME Inv, CheckSignature
  PROVE  Inv'
<1>1. Busy /\ pc = "end" /\ UNCHANGED <<run, plugins, data, files, wanted, todo, at>>
      /\ plugins[First(left)].name = "repogpgcheck"
  BY DEF CheckSignature, Busy
<1>2. CASE RepoFails("DOWNLOAD") \/ RepoFails("GPG_SIGNATURE_CHECK")
  BY <1>1, <1>2, RepoFailsInv
<1>3. CASE /\ tmp.version # Foreign /\ left' = left \ {First(left)}
           /\ UNCHANGED <<pc, store, tmp, urls, loaded, repos, err>>
  BY <1>1, <1>3, NextPluginInv
<1>4. QED
  BY <1>2, <1>3 DEF CheckSignature, Verified

LEMMA Replaces ==
  ASSUME StoreInv, at \in Names, ReplaceRepoMD
  PROVE  /\ StoreInv' /\ store'[at].md = tmp.version
         /\ \A r \in Names : r # at => store'[r] = store[r]
<1> DEFINE same == store[at].md = tmp.version
           new == IF same THEN [store[at] EXCEPT !.marker = TRUE]
                  ELSE [Nothing EXCEPT !.md = tmp.version, !.marker = TRUE]
<1>1. store[at] = [md |-> store[at].md, parts |-> store[at].parts, ml |-> store[at].ml,
                   marker |-> store[at].marker]
  BY DEF StoreInv
<1>2. store' = [store EXCEPT ![at] = new]
  BY DEF ReplaceRepoMD
<1>3. Record(new) /\ new.md = tmp.version
  <2>1. CASE same
    BY <1>1, <2>1 DEF Record
  <2>2. CASE ~same
    BY <2>2 DEF Nothing, Record
  <2>3. QED
    BY <2>1, <2>2
<1> HIDE DEF new
<1>4. QED
  BY <1>2, <1>3, StorePut

LEMMA ReplaceRepoMDInv ==
  ASSUME Inv, ReplaceRepoMD
  PROVE  Inv'
<1>1. Busy /\ Busy' /\ EndInv' /\ UNCHANGED <<run, plugins, data, files, repos, wanted, todo, at, loaded>>
  BY DEF ReplaceRepoMD, opening, Busy, EndInv
<1>2. QED
  BY <1>1, AtIs, Replaces, BusyInv

LEMMA InitRepoInv ==
  ASSUME Inv, InitRepo
  PROVE  Inv'
<1>1. /\ Busy /\ UNCHANGED <<run, plugins, data, files, wanted, todo, at>>
      /\ at \in Names /\ StoreInv /\ RefreshInv /\ Refreshing
  BY AtIs DEF InitRepo, Busy, Inv, Refreshing
<1>2. CASE RepoFails("CACHE_DISABLED") \/ RepoFails("DOWNLOAD")
  BY <1>1, <1>2, RepoFailsInv
<1>3. CASE /\ store[at].md # None
           /\ store' = [store EXCEPT ![at].parts = store[at].md]
           /\ loaded' = loaded \cup {at} /\ pc' = "refresh" /\ repos' = repos
  <2>1. /\ StoreInv' /\ store'[at].md = store[at].md /\ store'[at].parts = store[at].md
        /\ \A r \in Names : r # at => store'[r] = store[r]
    <3> DEFINE v == [store[at] EXCEPT !.parts = store[at].md]
    <3>1. Record(v) /\ v.md = store[at].md /\ v.parts = store[at].md
      BY <1>1 DEF StoreInv, Record
    <3>2. StoreInv /\ at \in Names /\ store' = [store EXCEPT ![at] = v]
      BY <1>1, <1>3
    <3> HIDE DEF v
    <3>3. QED
      BY <3>1, <3>2, StorePut
  <2>2. RunInv' /\ PluginsInv'
    BY <1>1, <1>3, KeptPlugins DEF Inv, RunInv
  <2>3. at' # NoRepo
    BY <1>1, SessionConstants
  <2>4. FreshInv' /\ ListInv' /\ FinalInv' /\ OpenedInv' /\ EndInv' /\ LoadedOrSkipped'
    BY <1>3, <2>3 DEF FreshInv, ListInv, FinalInv, OpenedInv, LastOptionDecides, NothingIsLost, Opened,
                      EndInv, LoadedOrSkipped
  <2>5. DataInv'
    <3>1. FromFiles' = FromFiles /\ Unread' = Unread
      BY <1>1, SameRun DEF Unread
    <3>2. pc # "list"
      BY <1>1 DEF Busy
    <3>3. QED
      BY <1>1, <1>3, <3>1, <3>2, SameActive DEF Inv, DataInv
  <2>6. RefreshInv'
    <3>1. \A r : The(r)' = The(r)
      BY <1>3 DEF The
    <3>2. at \in wanted /\ at \notin todo /\ at \notin loaded /\ ~Busy'
      BY <1>1, <1>3 DEF RefreshInv, Busy
    <3>3. \A r \in wanted \ todo : r \in loaded \/ The(r).skip \/ r = at
      BY <1>1 DEF RefreshInv
    <3>4. \A r \in loaded : r # at /\ r \in Names
      BY <1>1, <3>2 DEF RefreshInv
    <3>5. \A r \in loaded' : The(r).hasmd => store'[r].md # None /\ store'[r].parts = store'[r].md
      BY <1>1, <1>3, <2>1, <3>4 DEF RefreshInv
    <3>6. /\ repos' \in Seq(Repository) /\ Unique(repos') /\ todo' \subseteq wanted' /\ loaded' \subseteq wanted' \ todo'
          /\ \A r \in wanted' : r \in Names /\ \E i \in DOMAIN repos' : repos'[i].id = r
      BY <1>1, <1>3, <3>2 DEF RefreshInv
    <3>7. QED
      BY <1>1, <1>3, <3>1, <3>2, <3>3, <3>5, <3>6 DEF RefreshInv
  <2>7. QED
    BY <2>1, <2>2, <2>4, <2>5, <2>6 DEF Inv
<1>4. QED
  BY <1>2, <1>3 DEF InitRepo

LEMMA FinishInv ==
  ASSUME Inv, Finish
  PROVE  Inv'
<1>1. /\ RefreshInv /\ Refreshing /\ ~Busy /\ todo = {} /\ pc' = "done"
      /\ UNCHANGED <<run, store, repos, wanted, loaded>>
  BY DEF Finish, opening, refresh, Inv, Refreshing, Busy
<1>2. \A r : The(r)' = The(r)
  BY <1>1 DEF The
<1>3. LoadedOrSkipped'
  BY <1>1, <1>2 DEF RefreshInv, LoadedOrSkipped
<1>4. RunInv' /\ StoreInv'
  BY <1>1 DEF Inv, RunInv, StoreInv
<1>5. QED
  BY <1>1, <1>3, <1>4, DoneInv

(* What the servers do, and a stuttering step.                             *)
LEMMA SameInv ==
  ASSUME Inv, UNCHANGED <<store, pc, run, opening, refresh, err>>
  PROVE  Inv'
<1> USE DEF opening, refresh
<1>1. /\ FromFiles' = FromFiles /\ FromOptions' = FromOptions /\ Plain' = Plain
      /\ Unread' = Unread /\ PluginsOn' = PluginsOn
      /\ \A names : Opts(names)' = Opts(names)
      /\ \A id, names : About(id, names)' = About(id, names)
      /\ \A name : Active(name)' <=> Active(name)
      /\ \A r : The(r)' = The(r)
  BY SameRun, SameActive DEF Unread, The
<1>2. RunInv' /\ FreshInv' /\ StoreInv'
  BY DEF Inv, RunInv, FreshInv, StoreInv
<1>3. \A names : /\ Passed(names)' = Passed(names)
                 /\ InTurn(names)' <=> InTurn(names)
  BY <1>1 DEF Passed, InTurn
<1>4. PluginsInv'
  <2>1. \A i : SaidOn(run.plugins[i], Passed(Overrides))' <=> SaidOn(run.plugins[i], Passed(Overrides))
    BY <1>1, <1>3 DEF SaidOn
  <2>2. \A i : SaidOn(run.plugins[i], Opts(Overrides))' <=> SaidOn(run.plugins[i], Opts(Overrides))
    BY <1>1 DEF SaidOn
  <2>3. Has("noplugins")' <=> Has("noplugins")
    BY DEF Has
  <2>4. QED
    BY <1>1, <1>3, <2>1, <2>2, <2>3 DEF Inv, PluginsInv, Refreshing, Busy
<1>5. ListInv'
  BY <1>1, <1>3 DEF Inv, ListInv, ListType, ListFrom, ListHas
<1>6. FinalInv'
  <2>1. \A id : RepoOnBy(Passed(Altering), id)' <=> RepoOnBy(Passed(Altering), id)
    <3>1. /\ \A id : About(id, Altering)' = About(id, Altering)
          /\ Opts({"repo"})' = Opts({"repo"}) /\ Passed(Altering)' = Passed(Altering)
          /\ FromOptions' = FromOptions /\ run' = run
      BY <1>1, <1>3
    <3>2. FirstThis(Passed(Altering))' = FirstThis(Passed(Altering))
      BY <3>1 DEF FirstThis
    <3>3. SUFFICES ASSUME NEW id
                   PROVE  RepoOnBy(Passed(Altering), id)' <=> RepoOnBy(Passed(Altering), id)
      OBVIOUS
    <3>4. About(id, Altering)' = About(id, Altering)
      BY <3>1
    <3>5. Passed(Altering)' = Passed(Altering) /\ FromOptions' = FromOptions /\ run' = run
      BY <3>1
    <3>6. Default(id)' <=> Default(id)
      BY <3>5 DEF Default
    <3> DEFINE a == About(id, Altering) \cap Passed(Altering)
               both == a \cup FirstThis(Passed(Altering))
               last == Greatest(both)
    <3>7. /\ both = {} => (RepoOnBy(Passed(Altering), id) <=> Default(id))
          /\ both # {} => (RepoOnBy(Passed(Altering), id) <=>
                             last \in a /\ run.opts[last].name # "disablerepo")
      BY DEF RepoOnBy
    <3>8. a' = a /\ both' = both
      BY <3>2, <3>4, <3>5
    <3>9. last' = last
      BY <3>8 DEF Greatest
    <3>10. /\ both' = {} => (RepoOnBy(Passed(Altering), id)' <=> Default(id)')
           /\ both' # {} => (RepoOnBy(Passed(Altering), id)' <=>
                               last' \in a' /\ run'.opts[last'].name # "disablerepo")
      BY DEF RepoOnBy
    <3> HIDE DEF a, both, last
    <3>11. CASE both = {}
      BY <3>6, <3>7, <3>8, <3>10, <3>11
    <3>12. CASE both # {}
      BY <3>5, <3>7, <3>8, <3>9, <3>10, <3>12
    <3>13. QED
      BY <3>11, <3>12
  <2>2. Complete' <=> Complete
    <3>1. /\ run' = run /\ repos' = repos /\ FromFiles' = FromFiles
          /\ Opts({"repofromdir"})' = Opts({"repofromdir"})
          /\ Opts({"repofrompath"})' = Opts({"repofrompath"})
      BY <1>1
    <3>2. QED
      BY <3>1 DEF Complete
  <2>3. Unique(repos)' <=> Unique(repos)
    BY DEF Unique
  <2>4. QED
    BY <1>1, <1>3, <2>1, <2>2, <2>3 DEF Inv, FinalInv
<1>7. LastOptionDecides' /\ NothingIsLost'
  <2>1. \A id : RepoOn(id, id \in FromOptions \/ Section[id].enabled)' <=>
                RepoOn(id, id \in FromOptions \/ Section[id].enabled)
    BY <1>1 DEF RepoOn
  <2>2. \A id : /\ RepoOn(id, id \in FromOptions \/ Section[id].enabled)' \in BOOLEAN
                /\ RepoOn(id, id \in FromOptions \/ Section[id].enabled) \in BOOLEAN
    BY DEF RepoOn
  <2>3. LastOptionDecides'
    BY <1>1, <2>1, <2>2 DEF Inv, OpenedInv, LastOptionDecides, Opened
  <2>4. NothingIsLost'
    BY <1>1 DEF Inv, OpenedInv, NothingIsLost, Opened
  <2>5. QED
    BY <2>3, <2>4
<1>8. DataInv'
  BY <1>1 DEF Inv, DataInv, Refreshing, Busy
<1>9. RefreshInv'
  BY <1>1 DEF Inv, RefreshInv, Refreshing, Busy, Unique
<1>10. EndInv'
  BY <1>1 DEF Inv, EndInv, Registered
<1>11. LoadedOrSkipped'
  BY <1>1 DEF Inv, LoadedOrSkipped
<1>12. QED
  BY <1>2, <1>4, <1>5, <1>6, <1>7, <1>8, <1>9, <1>10, <1>11 DEF Inv, OpenedInv

Server ==
  \/ Publish
  \/ \E m \in Mirrors : Sync(m) \/ Spoiled(m)
  \/ \E h \in Mirrors \cup {MetalinkHost} : Falls(h) \/ Rises(h)

LEMMA ServerInv ==
  ASSUME Inv, Server \/ UNCHANGED vars
  PROVE  Inv'
<1>1. UNCHANGED <<store, pc, run, opening, refresh, err>>
  BY DEF Server, Publish, Sync, Spoiled, Falls, Rises, vars
<1>2. QED
  BY <1>1, SameInv

LEMMA CommandInv ==
  ASSUME Inv, Command
  PROVE  Inv'
<1>1. CASE ReadPluginConfs \/ ApplyPluginOverride \/ LoadPluginLibs \/ InitPlugins
  BY <1>1, ReadPluginConfsInv, ApplyPluginOverrideInv, LoadPluginLibsInv, InitPluginsInv
<1>2. CASE CreateCmdLineRepo \/ CreateRepo \/ LoadReposFromFile \/ CheckDuplicates
  BY <1>2, CreateCmdLineRepoInv, CreateRepoInv, LoadReposFromFileInv, CheckDuplicatesInv
<1>3. CASE FinalizeOption \/ RepoListFinalize
  BY <1>3, FinalizeOptionInv, RepoListFinalizeInv
<1>4. CASE \E id \in Names, stale \in BOOLEAN : RefreshRepo(id, stale)
  BY <1>4, RefreshRepoInv
<1>5. CASE DownloadStart \/ DownloadRepoMD \/ CheckHash \/ CheckSignature
  BY <1>5, DownloadStartInv, DownloadRepoMDInv, CheckHashInv, CheckSignatureInv
<1>6. CASE ReplaceRepoMD \/ InitRepo \/ Finish
  BY <1>6, ReplaceRepoMDInv, InitRepoInv, FinishInv
<1>7. CASE Close
  BY <1>7, IdleInv DEF Close
<1>8. QED
  BY <1>1, <1>2, <1>3, <1>4, <1>5, <1>6, <1>7 DEF Command

LEMMA NextInv ==
  ASSUME Inv, [Next]_vars
  PROVE  Inv'
<1>1. CASE \E s \in Sessions : Open(s)
  BY <1>1, OpenInv
<1>2. CASE Command
  BY <1>2, CommandInv
<1>3. CASE Killed
  BY <1>3, IdleInv DEF Killed
<1>4. CASE Server \/ UNCHANGED vars
  BY <1>4, ServerInv
<1>5. QED
  BY <1>1, <1>2, <1>3, <1>4 DEF Next, Server

THEOREM Invariance == Spec => []Inv
<1> HIDE DEF Inv
<1>1. Init => Inv
  BY InitInv
<1>2. Inv /\ [Next]_vars => Inv'
  BY NextInv
<1>3. QED
  BY <1>1, <1>2, PTL DEF Spec

-----------------------------------------------------------------------------
(***************************************************************************)
(* The theorems.                                                           *)
(***************************************************************************)

(* Of several options about a repository or a plugin the last one on the   *)
(* command line decides, for every command line, every set of .repo files  *)
(* and every directory of plugins (TDNFRepoListFinalize,                   *)
(* _TDNFApplyPluginOverrides).                                             *)
THEOREM LastOptionDecidesTheorem == Spec => []LastOptionDecides
<1>1. Inv => LastOptionDecides
  BY DEF Inv, OpenedInv
<1>2. QED
  BY <1>1, Invariance, PTL

(* Without --repofromdir the list has every repository of an option and    *)
(* every section of every file, each of them once (TDNFLoadRepoData).      *)
THEOREM NothingIsLostTheorem == Spec => []NothingIsLost
<1>1. Inv => NothingIsLost
  BY DEF Inv, OpenedInv
<1>2. QED
  BY <1>1, Invariance, PTL

(* A command that goes on to its own work has all of the metadata of every *)
(* repository that was asked for, or the repository says                   *)
(* skip_if_unavailable: whatever the servers did meanwhile, and wherever   *)
(* an earlier command was killed (TDNFRefreshSack).                        *)
THEOREM LoadedOrSkippedTheorem == Spec => []LoadedOrSkipped
<1>1. Inv => LoadedOrSkipped
  BY DEF Inv
<1>2. QED
  BY <1>1, Invariance, PTL

(* Only the end of a download puts new metadata into a cache, and it does  *)
(* so once no plugin is left that has to check them.                       *)
LEMMA OnlyReplaced ==
  ASSUME Inv, [Next]_vars, NEW r \in Names, Replaced(r)
  PROVE  /\ pc = "end" /\ left = {} /\ r = at /\ store'[r].md = tmp.version
<1>1. StoreInv
  BY DEF Inv
<1>2. ~ (store' = store \/ store'[r].md \in {store[r].md, None})
  BY DEF Replaced
<1>3. CASE ReplaceRepoMD
  <2>1. pc = "end" /\ left = {} /\ at \in Names
    BY <1>3, AtIs DEF ReplaceRepoMD, Busy
  <2>2. r = at
    BY <1>1, <1>2, <1>3, <2>1, Replaces
  <2>3. QED
    BY <1>1, <1>3, <2>1, <2>2, Replaces
<1>4. CASE \E id \in Names, stale \in BOOLEAN : RefreshRepo(id, stale)
  <2>1. PICK id \in Names, stale \in BOOLEAN : RefreshRepo(id, stale)
    BY <1>4
  <2>2. \/ store' = store
        \/ store' = [store EXCEPT ![id] = [Nothing EXCEPT !.marker = store[id].marker]]
    BY <2>1 DEF RefreshRepo
  <2>3. [Nothing EXCEPT !.marker = store[id].marker].md = None
    BY DEF Nothing
  <2>4. QED
    BY <1>1, <1>2, <2>2, <2>3 DEF StoreInv
<1>5. CASE DownloadStart \/ DownloadRepoMD \/ CheckHash \/ CheckSignature \/ InitRepo
  <2>1. \/ store' = store
        \/ store' = [store EXCEPT ![at] = Nothing]
        \/ store' = [store EXCEPT ![at].ml = current]
        \/ store' = [store EXCEPT ![at].parts = store[at].md]
    BY <1>5 DEF DownloadStart, DownloadRepoMD, CheckHash, CheckSignature, InitRepo, RepoFails
  <2>2. Nothing.md = None
    BY DEF Nothing
  <2>3. store[r] = [md |-> store[r].md, parts |-> store[r].parts, ml |-> store[r].ml,
                    marker |-> store[r].marker] /\ DOMAIN store = Names
    BY <1>1 DEF StoreInv
  <2>4. QED
    BY <1>2, <2>1, <2>2, <2>3
<1>6. CASE UNCHANGED store
  BY <1>2, <1>6
<1>7. \/ UNCHANGED store
      \/ ReplaceRepoMD
      \/ \E id \in Names, stale \in BOOLEAN : RefreshRepo(id, stale)
      \/ DownloadStart \/ DownloadRepoMD \/ CheckHash \/ CheckSignature \/ InitRepo
  <2>1. CASE Command
    BY <2>1 DEF Command, ReadPluginConfs, ApplyPluginOverride, LoadPluginLibs, InitPlugins,
                CreateCmdLineRepo, CreateRepo, LoadReposFromFile, CheckDuplicates, FinalizeOption,
                RepoListFinalize, Finish, Close
  <2>2. CASE (\E s \in Sessions : Open(s)) \/ Killed \/ Server \/ UNCHANGED vars
    BY <2>2 DEF Open, Killed, Server, Publish, Sync, Spoiled, Falls, Rises, vars
  <2>3. QED
    BY <2>1, <2>2 DEF Next, Server
<1>8. QED
  BY <1>3, <1>4, <1>5, <1>6, <1>7

LEMMA FilesAreNames ==
  ASSUME RunInv
  PROVE  FromFiles \subseteq Names
<1>1. run.files \in Seq(File)
  BY RunType DEF SessionType, File
<1>2. \A i \in DOMAIN run.files : run.files[i] \in File
  BY <1>1, LenProperties, ElementOfSeq
<1>3. \A f \in File : Ids(f) \subseteq DOMAIN Section
  <2>1. SUFFICES ASSUME NEW f \in File, NEW i \in DOMAIN f.ids
                 PROVE  f.ids[i] \in DOMAIN Section
    BY DEF Ids
  <2>2. f.ids \in Seq(DOMAIN Section)
    BY DEF File
  <2>3. QED
    BY <2>2, LenProperties, ElementOfSeq
<1>4. QED
  BY <1>2, <1>3 DEF FromFiles, Names

(* At the end of a download every active plugin that a repository of a     *)
(* file is for has checked what was downloaded.                            *)
LEMMA Checked ==
  ASSUME Inv, pc = "end", left = {}, at \in FromFiles
  PROVE  /\ Section[at].gpg /\ "repogpgcheck" \in PluginsOn => tmp.version # Foreign
         /\ ByMetalink(at) => HashError(Link[store[at].ml].hashes, tmp.version) = "none"
<1>1. Refreshing /\ pc # "list"
  BY DEF Refreshing, Busy
<1>2. \A name \in Known : Active(name) <=> name \in PluginsOn
  BY <1>1 DEF Inv, PluginsInv
<1>3. /\ Active("metalink") /\ Section[at].metalink => Registered("metalink", at)
      /\ Active("repogpgcheck") /\ Section[at].gpg => Registered("repogpgcheck", at)
  BY <1>1 DEF Inv, DataInv, Registered
<1>4. \A i \in DOMAIN plugins : Registered(plugins[i].name, at) =>
        /\ plugins[i].name = "repogpgcheck" => tmp.version # Foreign
        /\ plugins[i].name = "metalink" => HashError(Link[store[at].ml].hashes, tmp.version) = "none"
  BY DEF Inv, EndInv
<1>5. \A name : Active(name) => \E i \in DOMAIN plugins : plugins[i].name = name
  BY DEF Active
<1>6. ASSUME Section[at].gpg, "repogpgcheck" \in PluginsOn
      PROVE  tmp.version # Foreign
  BY <1>2, <1>3, <1>4, <1>5, <1>6 DEF Known
<1>7. ASSUME ByMetalink(at)
      PROVE  HashError(Link[store[at].ml].hashes, tmp.version) = "none"
  BY <1>2, <1>3, <1>4, <1>5, <1>7 DEF Known, ByMetalink
<1>8. QED
  BY <1>6, <1>7

(* New metadata of a repository with repo_gpgcheck get into the cache only *)
(* with a signature that is theirs, in every interleaving of the download  *)
(* with what the mirrors publish (TDNFGetRepoMD,                           *)
(* TDNFRepoMDCheckSignature).                                              *)
THEOREM VerifiedBeforeUseTheorem == Spec => VerifiedBeforeUse
<1> DEFINE A == \A r \in FromFiles : Replaced(r) /\ Section[r].gpg /\ "repogpgcheck" \in PluginsOn
                  => store'[r].md # Foreign
<1>1. Inv /\ [Next]_vars => [A]_vars
  <2>1. SUFFICES ASSUME Inv, [Next]_vars, NEW r \in FromFiles, Replaced(r), Section[r].gpg,
                        "repogpgcheck" \in PluginsOn
                 PROVE  store'[r].md # Foreign
    OBVIOUS
  <2>2. r \in Names
    BY <2>1, FilesAreNames DEF Inv
  <2>3. pc = "end" /\ left = {} /\ r = at /\ store'[r].md = tmp.version
    BY <2>1, <2>2, OnlyReplaced
  <2>4. QED
    BY <2>1, <2>3, Checked
<1> HIDE DEF A, Inv
<1>2. Spec => [][A]_vars
  BY <1>1, Invariance, PTL DEF Spec
<1>3. QED
  BY <1>2 DEF A, VerifiedBeforeUse

(* Of a metalink file whose last hash is one of those that are compared:   *)
(* new metadata have one of its hashes, for any file and any order of the  *)
(* events (TDNFCheckRepoMDFileHashFromMetalink).                           *)
THEOREM MatchesMetalinkTheorem == Spec => MatchesMetalink
<1> DEFINE A == \A r \in FromFiles : Replaced(r) /\ ByMetalink(r)
                  => (Len(Hashes(r)) \in Compared(Hashes(r)) => HasHash(r))
<1>1. Inv /\ [Next]_vars => [A]_vars
  <2>1. SUFFICES ASSUME Inv, [Next]_vars, NEW r \in FromFiles, Replaced(r), ByMetalink(r),
                        Len(Hashes(r)) \in Compared(Hashes(r))
                 PROVE  HasHash(r)
    OBVIOUS
  <2>2. r \in Names
    BY <2>1, FilesAreNames DEF Inv
  <2>3. pc = "end" /\ left = {} /\ r = at /\ store'[r].md = tmp.version
    BY <2>1, <2>2, OnlyReplaced
  <2>4. HashError(Hashes(r), tmp.version) = "none"
    BY <2>1, <2>3, Checked DEF Hashes
  <2>5. \E i \in Compared(Hashes(r)) : Hashes(r)[i].of = tmp.version
    BY <2>1, <2>4 DEF HashError
  <2>6. QED
    BY <2>3, <2>5 DEF HasHash
<1> HIDE DEF A, Inv
<1>2. Spec => [][A]_vars
  BY <1>1, Invariance, PTL DEF Spec
<1>3. QED
  BY <1>2 DEF A, MatchesMetalink
=============================================================================
