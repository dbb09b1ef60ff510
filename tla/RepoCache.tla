------------------------------ MODULE RepoCache ------------------------------
(***************************************************************************)
(* The cached metadata of one repository, and the commands that refresh,   *)
(* load and clean it.                                                      *)
(*                                                                         *)
(* A repository is published in versions.  A version has a repomd file     *)
(* that names the parts of the metadata (primary, update info, ...), and   *)
(* a mirror serves one version at a time.  On disk tdnf keeps the repomd   *)
(* file, the parts, the metalink file (all in repodata/), the parsed       *)
(* metadata with a cookie of the repomd file they were made from           *)
(* (solvcache/), a marker whose age says when the repomd was fetched       *)
(* (lastrefresh), the list of mirrors, and packages.                       *)
(*                                                                         *)
(* Privileged commands are serialised by the instance lock (TdnfLock);     *)
(* unprivileged ones run the same code at any time and can write nothing.  *)
(* A file is written under a temporary name and renamed, so it is there as *)
(* a whole or not at all.  Age is counted in units longer than a command.  *)
(***************************************************************************)
EXTENDS Integers, FiniteSets, Sequences

CONSTANTS
    Procs,          \* commands that run at the same time
    Root,           \* the privileged ones
    Parts,          \* the parts of the metadata that are wanted
    NMirrors,       \* mirrors, in the order of the list of base URLs
    MaxVersion,     \* bound on the versions published
    ZeroCookies,    \* versions whose cookie begins with a zero byte
    MaxAge,         \* bound on ages
    Confs,          \* configurations of the repository
    Faults,         \* subset of {"net", "io", "crash"}
    MaxFaults,      \* bound on the faults of a behaviour
    Cleans          \* kinds of the clean command

ASSUME CacheConstants ==
    /\ Root \subseteq Procs
    /\ NMirrors \in Nat \ {0}
    /\ MaxVersion \in Nat \ {0} /\ MaxAge \in Nat
    /\ ZeroCookies \subseteq 1..MaxVersion
    /\ Confs \subseteq [source : {"baseurl", "mirrorlist", "metalink"}, expire : Int,
                        skip : BOOLEAN, unique : BOOLEAN, keep : BOOLEAN, shared : BOOLEAN]
    /\ Cleans \subseteq {"metadata", "dbcache", "packages", "expire", "all"}
    /\ MaxFaults \in Nat

Absent == 0
Never == -1
Mirrors == 1..NMirrors
Version == 1..MaxVersion
MaybeVersion == 0..MaxVersion
PartName == Parts \X MaybeVersion
Content == [Parts -> Version]

VARIABLES
    conf,       \* the configuration, constant during a behaviour: where the mirrors come
                \* from, after which age metadata expire, skip_if_unavailable, locations
                \* with checksums, keepcache, other users
    latest,     \* the last version published
    mirror,     \* version each mirror serves
    repomd,     \* version of repomd.xml, or Absent
    part,       \* content of each file of the metadata, or Absent
    metalink,   \* version whose digest the metalink file holds, or Absent
    mirrorlist, \* age of the list of mirrors, or Never
    marker,     \* age of lastrefresh, or Never
    solv,       \* the parsed metadata: a set with at most one record
    rpms,       \* directories that hold downloaded packages
    checked,    \* ticks since the repomd file was last seen at a mirror
    faults,     \* faults that happened so far
    pc, opt,    \* of each command: where it is, its options,
    rm,         \*   what it removes and where it goes on,
    loc,        \*   what it knows of the repomd file (locals of TDNFGetRepoMD, TDNFInitRepo),
    pool,       \*   what it has loaded, and
    note,       \*   how it ended, with what the properties have to know of it
    failures    \* privileged commands that failed one after the other, with nothing in
                \* their way

repodata == <<repomd, part, metalink>>
disk == <<repodata, mirrorlist, marker, solv, rpms>>
world == <<conf, latest, mirror>>
locals == <<opt, rm, loc, pool>>
vars == <<world, disk, checked, faults, pc, locals, note, failures>>

-----------------------------------------------------------------------------
(* The location of a part in a repomd file: it holds the checksum of the   *)
(* part (unique) or not.                                                   *)
Name(p, v) == <<p, IF conf.unique THEN v ELSE 0>>

NoOpt == [refresh |-> FALSE, cacheonly |-> FALSE, clean |-> "no"]
NoRm == [todo |-> <<>>, then |-> "none", stuck |-> FALSE]
NoLoc == [new |-> Absent, digest |-> Absent, md |-> Absent, cookie |-> Absent]
NoPool == [version |-> Absent, content |-> <<>>]
NoNote == [outcome |-> "none", eacces |-> FALSE, floor |-> Absent, ready |-> FALSE,
           calm |-> FALSE, upset |-> FALSE]

Running(p) == pc[p] \notin {"idle", "ended"}
Goto(p, next) == pc' = [pc EXCEPT ![p] = next]
CanFail(kind) == kind \in Faults /\ faults < MaxFaults

(* Mirrors that do not answer; m is the first of those that do.            *)
Downs == IF CanFail("net") THEN SUBSET Mirrors ELSE {{}}
First(m, up) == m \in up /\ \A n \in up : m <= n

Init ==
    /\ conf \in Confs
    /\ latest = 1
    /\ mirror = [m \in Mirrors |-> 1]
    /\ repomd = Absent /\ metalink = Absent
    /\ part = [n \in PartName |-> Absent]
    /\ mirrorlist = Never /\ marker = Never
    /\ solv = {} /\ rpms = {}
    /\ checked = 0 /\ faults = 0
    /\ pc = [p \in Procs |-> "idle"]
    /\ opt = [p \in Procs |-> NoOpt]
    /\ rm = [p \in Procs |-> NoRm]
    /\ loc = [p \in Procs |-> NoLoc]
    /\ pool = [p \in Procs |-> NoPool]
    /\ note = [p \in Procs |-> NoNote] /\ failures = 0

-----------------------------------------------------------------------------
(* The error path of TDNFInitRepo: what is cached may be damaged, and is   *)
(* removed.  calm is over when the network fails, upset is set when the    *)
(* disk does.                                                              *)
OnError_KeepsData == <<"solv", "marker">>    \* mutated: repodata/ is left

OnError == <<"repodata", "solv", "marker">>

Fail(p, cause) ==
    /\ Goto(p, "remove")
    /\ rm' = [rm EXCEPT ![p] = [todo |-> OnError, then |-> "failed", stuck |-> FALSE]]
    /\ loc' = [loc EXCEPT ![p] = NoLoc]
    /\ pool' = [pool EXCEPT ![p] = NoPool]
    /\ note' = [note EXCEPT ![p].eacces = (cause = "eacces"),
                            ![p].calm = @ /\ cause # "net",
                            ![p].upset = @ \/ cause = "io"]
    /\ faults' = IF cause \in {"net", "io"} THEN faults + 1 ELSE faults
    /\ UNCHANGED <<world, disk, checked, opt, failures>>

(* A write that is not allowed or fails, and a download that fails.        *)
CannotWrite(p) ==
    \/ p \notin Root /\ Fail(p, "eacces")
    \/ p \in Root /\ CanFail("io") /\ Fail(p, "io")
CannotFetch(p) == p \in Root /\ CanFail("net") /\ Fail(p, "net")

(* The end of a command, which nothing was in the way of if its downloads  *)
(* were calm, the disk and other commands did not upset it, and it was not *)
(* told to do without downloads.                                           *)
End(p, outcome, upset) ==
    /\ Goto(p, "ended")
    /\ opt' = [opt EXCEPT ![p] = NoOpt]
    /\ rm' = [rm EXCEPT ![p] = NoRm]
    /\ loc' = [loc EXCEPT ![p] = NoLoc]
    /\ pool' = [pool EXCEPT ![p] = NoPool]
    /\ note' = [note EXCEPT ![p] =
         [NoNote EXCEPT !.outcome = outcome, !.ready = note[p].ready, !.upset = upset]]
    /\ failures' = IF p \notin Root THEN failures
                   ELSE IF outcome \in {"error", "skipped"} /\ note[p].calm /\ ~upset
                             /\ ~opt[p].cacheonly
                        THEN failures + 1 ELSE 0

(* TDNFRefreshSack leaves a repository out that may be unavailable, unless *)
(* the command was not allowed to write.                                   *)
Failed(p) ==
    /\ pc[p] = "failed"
    /\ End(p, IF conf.skip /\ ~note[p].eacces THEN "skipped" ELSE "error", note[p].upset)
    /\ UNCHANGED <<world, disk, checked, faults>>

-----------------------------------------------------------------------------
(* A command starts.  A privileged one holds the instance lock.  For the   *)
(* properties: the oldest version served, for a refresh; whether the cache *)
(* is all that the command needs; and whether nothing is in the way of its *)
(* downloads, and no privileged command runs next to it.                   *)
Complete ==
    /\ repomd # Absent
    /\ \A q \in Parts : part[Name(q, repomd)] # Absent
    /\ \E s \in solv : s.cookie = repomd
Expired == conf.expire >= 0 /\ (marker = Never \/ marker > conf.expire)
Oldest(v) ==
    /\ \E m \in Mirrors : mirror[m] = v
    /\ \A m \in Mirrors : v <= mirror[m]

MayStart(p) ==
    /\ ~Running(p)
    /\ IF p \in Root THEN \A q \in Root : ~Running(q) ELSE conf.shared
Starts(p, ready, floor) ==
    note' = [q \in Procs |->
               IF q = p
               THEN [NoNote EXCEPT !.ready = ready, !.floor = floor,
                       !.calm = p \in Root /\ \A m \in Mirrors : mirror[m] = latest,
                       !.upset = \E r \in Root : Running(r)]
               ELSE [note[q] EXCEPT !.upset = @ \/ (p \in Root /\ Running(q))]]

Begin(p) ==
    /\ MayStart(p)
    /\ \E refresh, cacheonly \in BOOLEAN, oldest \in Version :
         /\ Oldest(oldest)
         /\ opt' = [opt EXCEPT ![p] = [refresh |-> refresh, cacheonly |-> cacheonly,
                                       clean |-> "no"]]
         /\ Starts(p, Complete /\ (cacheonly \/ (~refresh /\ ~Expired)),
                   IF p \in Root /\ refresh /\ ~cacheonly THEN oldest ELSE Absent)
    /\ Goto(p, "expire")
    /\ UNCHANGED <<world, disk, checked, faults, rm, loc, pool, failures>>

CleanSteps == [metadata |-> <<"repodata">>, dbcache |-> <<"solv">>,
               packages |-> <<"rpms">>, expire |-> <<"marker", "mirrorlist">>,
               all |-> <<"repodata", "solv", "rpms", "marker", "mirrorlist">>]

BeginClean(p) ==
    /\ MayStart(p)
    /\ \E kind \in Cleans :
         /\ opt' = [opt EXCEPT ![p] = [NoOpt EXCEPT !.clean = kind]]
         /\ rm' = [rm EXCEPT ![p] = [todo |-> CleanSteps[kind], then |-> "cleaned",
                                     stuck |-> FALSE]]
    /\ Starts(p, FALSE, Absent)
    /\ Goto(p, "remove")
    /\ UNCHANGED <<world, disk, checked, faults, loc, pool, failures>>

(* TDNFRefreshSack asks for the age of the marker, and removes metadata    *)
(* that have expired; the marker stays.                                    *)
CheckExpired_Cacheonly(p) ==    \* mutated: also with --cacheonly
    /\ pc[p] = "expire"
    /\ IF Expired
       THEN /\ Goto(p, "remove")
            /\ rm' = [rm EXCEPT ![p] = [todo |-> <<"repodata", "solv">>, then |-> "start",
                                        stuck |-> FALSE]]
       ELSE Goto(p, "start") /\ UNCHANGED rm
    /\ UNCHANGED <<world, disk, checked, faults, opt, loc, pool, note, failures>>

CheckExpired(p) ==
    /\ pc[p] = "expire"
    /\ IF Expired /\ ~opt[p].cacheonly
       THEN /\ Goto(p, "remove")
            /\ rm' = [rm EXCEPT ![p] = [todo |-> <<"repodata", "solv">>, then |-> "start",
                                        stuck |-> FALSE]]
       ELSE Goto(p, "start") /\ UNCHANGED rm
    /\ UNCHANGED <<world, disk, checked, faults, opt, loc, pool, note, failures>>

-----------------------------------------------------------------------------
(* Packages are kept in a directory that has the id of the repository, and *)
(* looked for in the one of its cache, whose name has a hash of its source. *)
KeptIn == "id"
LookedForIn == "cache name"

(* Removing, one file at a time.                                           *)
Gone(t) ==
    CASE t = "repodata"   -> /\ repomd = Absent /\ metalink = Absent
                             /\ \A n \in PartName : part[n] = Absent
      [] t = "solv"       -> solv = {}
      [] t = "marker"     -> marker = Never
      [] t = "mirrorlist" -> mirrorlist = Never
      [] OTHER            -> LookedForIn \notin rpms

RemoveRepodata ==
    /\ \/ repomd # Absent /\ repomd' = Absent /\ UNCHANGED <<part, metalink>>
       \/ metalink # Absent /\ metalink' = Absent /\ UNCHANGED <<repomd, part>>
       \/ \E n \in PartName : /\ part[n] # Absent
                              /\ part' = [part EXCEPT ![n] = Absent]
                              /\ UNCHANGED <<repomd, metalink>>
    /\ UNCHANGED <<mirrorlist, marker, solv, rpms>>

RemoveOther(t) ==
    /\ solv' = IF t = "solv" THEN {} ELSE solv
    /\ marker' = IF t = "marker" THEN Never ELSE marker
    /\ mirrorlist' = IF t = "mirrorlist" THEN Never ELSE mirrorlist
    /\ rpms' = IF t = "rpms" THEN rpms \ {LookedForIn} ELSE rpms
    /\ UNCHANGED repodata

Remove(p) ==
    /\ pc[p] = "remove" /\ rm[p].todo # <<>> /\ p \in Root
    /\ LET t == Head(rm[p].todo)
       IN  ~Gone(t) /\ IF t = "repodata" THEN RemoveRepodata ELSE RemoveOther(t)
    /\ UNCHANGED <<world, checked, faults, pc, locals, note, failures>>

NextRemoval(p) ==
    /\ pc[p] = "remove" /\ rm[p].todo # <<>>
    /\ Gone(Head(rm[p].todo))
    /\ rm' = [rm EXCEPT ![p].todo = Tail(@)]
    /\ UNCHANGED <<world, disk, checked, faults, pc, opt, loc, pool, note, failures>>

Removed(p) ==
    /\ pc[p] = "remove" /\ rm[p].todo = <<>>
    /\ Goto(p, rm[p].then)
    /\ UNCHANGED <<world, disk, checked, faults, locals, note, failures>>

(* A failure ends the command when the metadata expired and when it cleans; *)
(* TDNFGetRepoMD and the error path of TDNFInitRepo do not look at it.      *)
RemoveFails(p) ==
    /\ pc[p] = "remove" /\ rm[p].todo # <<>>
    /\ ~Gone(Head(rm[p].todo))
    /\ p \in Root => CanFail("io")
    /\ faults' = IF p \in Root THEN faults + 1 ELSE faults
    /\ IF rm[p].then \in {"start", "cleaned"}
       THEN End(p, "error", TRUE)
       ELSE /\ rm' = [rm EXCEPT ![p].todo = Tail(@),
                                ![p].stuck = @ \/ Head(rm[p].todo) = "repodata"]
            /\ note' = [note EXCEPT ![p].upset = TRUE]
            /\ UNCHANGED <<pc, opt, loc, pool, failures>>
    /\ UNCHANGED <<world, disk, checked>>

Cleaned(p) ==
    /\ pc[p] = "cleaned"
    /\ End(p, "ok", note[p].upset)
    /\ UNCHANGED <<world, disk, checked, faults>>

-----------------------------------------------------------------------------
(* The start of TDNFGetRepoMD: the metalink plugin reads its file, after   *)
(* downloading it when there is none or for a refresh; the list of mirrors *)
(* is downloaded when it is older than the metadata may be.                *)
NeedsList(p) ==
    CASE conf.source = "metalink"   -> opt[p].refresh \/ metalink = Absent
      [] conf.source = "mirrorlist" -> mirrorlist = Never \/ mirrorlist > conf.expire
      [] OTHER                      -> FALSE

FindMirrors(p) ==
    /\ pc[p] = "start" /\ ~NeedsList(p)
    /\ Goto(p, "fetch")
    /\ loc' = [loc EXCEPT ![p].digest = metalink]
    /\ UNCHANGED <<world, disk, checked, faults, opt, rm, pool, note, failures>>

FetchList(p) ==
    /\ pc[p] = "start" /\ NeedsList(p) /\ p \in Root
    /\ metalink' = IF conf.source = "metalink" THEN latest ELSE metalink
    /\ mirrorlist' = IF conf.source = "metalink" THEN mirrorlist ELSE 0
    /\ Goto(p, "fetch")
    /\ loc' = [loc EXCEPT ![p].digest = metalink']
    /\ UNCHANGED <<world, repomd, part, marker, solv, rpms, checked, faults, opt, rm, pool,
                   note, failures>>

FetchListFails(p) ==
    /\ pc[p] = "start" /\ NeedsList(p)
    /\ CannotWrite(p) \/ CannotFetch(p)

(* repomd.xml is downloaded when there is none or for a refresh, never     *)
(* with --cacheonly.                                                       *)
NeedsRepomd(p) == (repomd = Absent \/ opt[p].refresh) /\ ~opt[p].cacheonly

KeepRepomd_Touches(p) ==    \* mutated: the marker is touched by every command
    /\ pc[p] = "fetch" /\ ~NeedsRepomd(p)
    /\ Goto(p, "touch")
    /\ UNCHANGED <<world, disk, checked, faults, locals, note, failures>>

KeepRepomd(p) ==
    /\ pc[p] = "fetch" /\ ~NeedsRepomd(p)
    /\ Goto(p, "parse")
    /\ UNCHANGED <<world, disk, checked, faults, locals, note, failures>>

(* The new file replaces the old one unless their cookies are equal; with  *)
(* a metalink, it must have its digest.                                    *)
Same_Present(old, new) == old # Absent    \* mutated: contents are not compared

Same(old, new) == old = new /\ old \notin ZeroCookies
Genuine(p, v) == conf.source = "metalink" => v = loc[p].digest
Replaced == <<"repodata", "solv", "marker">> \o IF conf.keep THEN <<>> ELSE <<"rpms">>

FetchRepomd(p) ==
    /\ pc[p] = "fetch" /\ NeedsRepomd(p) /\ p \in Root
    /\ \E down \in Downs, m \in Mirrors :
         LET v == mirror[m]
         IN  /\ First(m, Mirrors \ down) /\ Genuine(p, v)
             /\ checked' = IF repomd = v THEN 0 ELSE checked
             /\ faults' = IF down = {} THEN faults ELSE faults + 1
             /\ note' = [note EXCEPT ![p].calm = @ /\ down = {}]
             /\ loc' = [loc EXCEPT ![p].new = v]
             /\ IF Same(repomd, v)
                THEN Goto(p, "touch") /\ UNCHANGED rm
                ELSE /\ Goto(p, "remove")
                     /\ rm' = [rm EXCEPT ![p] = [todo |-> Replaced, then |-> "install",
                                                 stuck |-> FALSE]]
    /\ UNCHANGED <<world, disk, opt, pool, failures>>

FetchRepomdFails(p) ==
    /\ pc[p] = "fetch" /\ NeedsRepomd(p)
    /\ \/ CannotWrite(p) \/ CannotFetch(p)
       \/ p \in Root /\ ~Genuine(p, mirror[1]) /\ Fail(p, "digest")

(* repodata/ is made again and the file is renamed; what could not be      *)
(* removed is an error, since the directory is still there.                *)
Install(p) ==
    /\ pc[p] = "install" /\ ~rm[p].stuck
    /\ repomd' = loc[p].new
    /\ checked' = 0
    /\ Goto(p, "touch")
    /\ UNCHANGED <<world, part, metalink, mirrorlist, marker, solv, rpms, faults, locals,
                   note, failures>>

InstallFails(p) ==
    /\ pc[p] = "install"
    /\ IF rm[p].stuck THEN Fail(p, "exists") ELSE CannotWrite(p)

Touch(p) ==
    /\ pc[p] = "touch"
    /\ marker' = 0
    /\ Goto(p, "parse")
    /\ UNCHANGED <<world, repodata, mirrorlist, solv, rpms, checked, faults, locals, note,
                   failures>>

TouchFails(p) ==
    /\ pc[p] = "touch"
    /\ CannotWrite(p)

-----------------------------------------------------------------------------
Parse(p) ==
    /\ pc[p] = "parse" /\ repomd # Absent
    /\ Goto(p, "parts")
    /\ loc' = [loc EXCEPT ![p] = [NoLoc EXCEPT !.md = repomd]]
    /\ UNCHANGED <<world, disk, checked, faults, opt, rm, pool, note, failures>>

ParseFails(p) == pc[p] = "parse" /\ repomd = Absent /\ Fail(p, "missing")

(* TDNFEnsureRepoMDParts downloads what is missing, also with --cacheonly, *)
(* and looks at no checksum.  A part that is named by its checksum is on a *)
(* mirror that serves this version.                                        *)
Missing(p) == {q \in Parts : part[Name(q, loc[p].md)] = Absent}
HasPart(p, m) == conf.unique => mirror[m] = loc[p].md

FetchPart(p) ==
    /\ pc[p] = "parts" /\ p \in Root
    /\ \E q \in Missing(p), down \in Downs, m \in Mirrors :
         /\ First(m, {n \in Mirrors \ down : HasPart(p, n)})
         /\ part' = [part EXCEPT ![Name(q, loc[p].md)] = mirror[m]]
         /\ faults' = IF down = {} THEN faults ELSE faults + 1
         /\ note' = [note EXCEPT ![p].calm = @ /\ down = {}]
    /\ UNCHANGED <<world, repomd, metalink, mirrorlist, marker, solv, rpms, checked, pc,
                   locals, failures>>

FetchPartFails(p) ==
    /\ pc[p] = "parts" /\ Missing(p) # {}
    /\ \/ CannotWrite(p) \/ CannotFetch(p)
       \/ p \in Root /\ (\A m \in Mirrors : ~HasPart(p, m)) /\ Fail(p, "missing")

PartsThere(p) ==
    /\ pc[p] = "parts" /\ Missing(p) = {}
    /\ Goto(p, "cookie")
    /\ UNCHANGED <<world, disk, checked, faults, locals, note, failures>>

-----------------------------------------------------------------------------
(* TDNFInitRepo computes the cookie of the repomd file that is there now,  *)
(* and loads the parsed metadata if theirs is equal.                       *)
Cookie(p) ==
    /\ pc[p] = "cookie" /\ repomd # Absent
    /\ Goto(p, "use")
    /\ loc' = [loc EXCEPT ![p].cookie = repomd]
    /\ UNCHANGED <<world, disk, checked, faults, opt, rm, pool, note, failures>>

CookieFails(p) == pc[p] = "cookie" /\ repomd = Absent /\ Fail(p, "missing")

UseSolv_Unchecked(p) ==    \* mutated: whatever its cookie
    /\ pc[p] = "use"
    /\ \E s \in solv :
         pool' = [pool EXCEPT ![p] = [version |-> loc[p].cookie, content |-> s.content]]
    /\ Goto(p, "loaded")
    /\ UNCHANGED <<world, disk, checked, faults, opt, rm, loc, note, failures>>

UseSolv_Rewrites(p) ==    \* mutated: written again with the new cookie
    /\ pc[p] = "use"
    /\ \E s \in solv :
         /\ pool' = [pool EXCEPT ![p] = [version |-> s.cookie, content |-> s.content]]
         /\ Goto(p, IF s.cookie = loc[p].cookie THEN "loaded" ELSE "write")
    /\ UNCHANGED <<world, disk, checked, faults, opt, rm, loc, note, failures>>

UseSolv(p) ==
    /\ pc[p] = "use"
    /\ \E s \in solv :
         /\ s.cookie = loc[p].cookie
         /\ pool' = [pool EXCEPT ![p] = [version |-> s.cookie, content |-> s.content]]
    /\ Goto(p, "loaded")
    /\ UNCHANGED <<world, disk, checked, faults, opt, rm, loc, note, failures>>

UseSolvFails(p) ==
    /\ pc[p] = "use"
    /\ \E s \in solv : s.cookie # loc[p].cookie
    /\ Fail(p, "cookie")

(* Without parsed metadata the repomd file and the parts are read.         *)
Readable_Partial(p) == repomd # Absent    \* mutated: with the parts that are there

Readable(p) == repomd # Absent /\ Missing(p) = {}

Build(p) ==
    /\ pc[p] = "use" /\ solv = {} /\ Readable(p)
    /\ Goto(p, "write")
    /\ pool' = [pool EXCEPT ![p] =
                  [version |-> repomd, content |-> [q \in Parts |-> part[Name(q, loc[p].md)]]]]
    /\ UNCHANGED <<world, disk, checked, faults, opt, rm, loc, note, failures>>

BuildFails(p) == pc[p] = "use" /\ solv = {} /\ ~Readable(p) /\ Fail(p, "missing")

WriteSolv(p) ==
    /\ pc[p] = "write" /\ p \in Root
    /\ solv' = {[cookie |-> loc[p].cookie, content |-> pool[p].content]}
    /\ Goto(p, "loaded")
    /\ UNCHANGED <<world, repodata, mirrorlist, marker, rpms, checked, faults, locals, note,
                   failures>>

(* The error of SolvCreateMetaDataCache is not the one that says that the  *)
(* command was not allowed to write.                                       *)
WriteSolvFails(p) ==
    /\ pc[p] = "write"
    /\ IF p \in Root THEN CannotWrite(p) ELSE Fail(p, "other")

(* The command goes on with what it loaded; an installation may keep its   *)
(* packages.                                                               *)
Finish(p) ==
    /\ pc[p] = "loaded"
    /\ rpms' \in {rpms} \cup IF p \in Root /\ conf.keep THEN {rpms \cup {KeptIn}} ELSE {}
    /\ End(p, "ok", note[p].upset)
    /\ UNCHANGED <<world, repodata, mirrorlist, marker, solv, checked, faults>>

-----------------------------------------------------------------------------
Crash(p) ==
    /\ Running(p) /\ CanFail("crash")
    /\ faults' = faults + 1
    /\ End(p, "crashed", note[p].upset)
    /\ UNCHANGED <<world, disk, checked>>

(* A version is published, at once or later at each mirror.                *)
Unsettled == note' = [q \in Procs |-> [note[q] EXCEPT !.calm = @ /\ ~Running(q)]]

Publish ==
    /\ latest < MaxVersion
    /\ latest' = latest + 1
    /\ Unsettled
    /\ UNCHANGED <<conf, mirror, disk, checked, faults, pc, locals, failures>>

Sync(m) ==
    /\ mirror[m] # latest
    /\ mirror' = [mirror EXCEPT ![m] = latest]
    /\ Unsettled
    /\ UNCHANGED <<conf, latest, disk, checked, faults, pc, locals, failures>>

Older(age) == IF age = Never \/ age = MaxAge THEN age ELSE age + 1
Tick ==
    /\ \A p \in Procs : ~Running(p)
    /\ marker' = Older(marker) /\ mirrorlist' = Older(mirrorlist)
    /\ checked' = Older(checked)
    /\ UNCHANGED <<world, repodata, solv, rpms, faults, pc, locals, note, failures>>

Step(p) ==
    \/ CheckExpired(p) \/ Remove(p) \/ NextRemoval(p) \/ Removed(p) \/ RemoveFails(p)
    \/ Cleaned(p) \/ Failed(p)
    \/ FindMirrors(p) \/ FetchList(p) \/ FetchListFails(p)
    \/ KeepRepomd(p) \/ FetchRepomd(p) \/ FetchRepomdFails(p)
    \/ Install(p) \/ InstallFails(p) \/ Touch(p) \/ TouchFails(p)
    \/ Parse(p) \/ ParseFails(p) \/ FetchPart(p) \/ FetchPartFails(p) \/ PartsThere(p)
    \/ Cookie(p) \/ CookieFails(p) \/ UseSolv(p) \/ UseSolvFails(p)
    \/ Build(p) \/ BuildFails(p) \/ WriteSolv(p) \/ WriteSolvFails(p) \/ Finish(p)

Next ==
    \/ \E p \in Procs : Begin(p) \/ BeginClean(p) \/ Step(p) \/ Crash(p)
    \/ Publish \/ (\E m \in Mirrors : Sync(m)) \/ Tick

Spec == Init /\ [][Next]_vars
=============================================================================
