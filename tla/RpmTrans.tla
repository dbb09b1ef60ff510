------------------------------ MODULE RpmTrans ------------------------------
(***************************************************************************)
(* A transaction of rpm: its packages are located or downloaded, compared  *)
(* with the metadata, their signatures verified (keys may be imported on   *)
(* the way), and rpm tests and runs it; the files are removed at the end.  *)
(*                                                                         *)
(* Commands that install hold the instance lock (TdnfLock), so there is    *)
(* one at a time; what lasts between them is the cache of packages, the    *)
(* download directory, the keys and what is installed.  What the history   *)
(* records of a run is in History.                                         *)
(***************************************************************************)
EXTENDS Integers, FiniteSets, Sequences

CONSTANTS
    Pkgs, Keys, Repos,
    RepoOf,         \* the repository of each package,
    KeyOf,          \* the key it is signed with,
    Summed,         \* the ones with a checksum in their metadata,
    Sources,        \* and the source packages
    NUrls,          \* base URLs of a repository, in order
    NRetries,       \* the option retries
    Confs,          \* configurations
    Opts,           \* options of commands
    Jobs,           \* what commands have to do
    Faults,         \* subset of {"net", "damage", "rpm", "io", "crash"}
    MaxFaults       \* bound on the faults of a behaviour

Ops == {"install", "reinstall", "upgrade", "erase", "downgrade"}

ASSUME TransConstants ==
    /\ RepoOf \in [Pkgs -> Repos] /\ KeyOf \in [Pkgs -> Keys]
    /\ Summed \subseteq Pkgs /\ Sources \subseteq Pkgs
    /\ NUrls \in Nat \ {0} /\ NRetries \in Nat /\ MaxFaults \in Nat
    /\ Confs \subseteq [gpgcheck : SUBSET Repos, local : SUBSET Repos, keep : BOOLEAN,
                        keys : [Repos -> Seq([key : Keys, remote : BOOLEAN])],
                        level : {"digest", "signature"}]
    /\ Opts \subseteq [downloadonly : {"no", "cache", "dir"}, testonly : BOOLEAN,
                       assumeyes : BOOLEAN, nogpgcheck : BOOLEAN,
                       skipsignature : BOOLEAN, skipdigest : BOOLEAN]
    /\ Jobs \subseteq Seq([op : Ops, pkg : Pkgs])

Absent == "absent"
Content == {"good", "damaged", "short", "empty"}   \* damaged: other bytes, the right size
Trans == [op : Ops, pkg : Pkgs]

VARIABLES
    conf,       \* which repositories check signatures and are on this host, keepcache,
                \* the gpgkey option of each, and the verify level of rpm
    cache, dir, \* content of each package in the cache and in the download directory
    ring,       \* keys in the rpm database
    keyfiles,   \* keys downloaded into the cache
    installed,  \* content each installed package had, or Absent
    sources,    \* source packages installed
    faults,     \* faults that happened so far
    dead,       \* base URLs that do not answer during the command
    pc, opt,    \* where the command is, its options,
    todo, elems, cached,    \* what it has still to add, what it added, files in the cache,
    file,       \*   where the file of the package at the head of todo is,
    try,        \*   the URL and the attempt of its download,
    keys,       \*   the keys to import for it and the number that matched,
    lax,        \*   whether rpm was told not to verify (VSFlags and VfyLevel), and
    result,     \*   the outcome
    note        \* for the properties: whether everything is to be verified, and the packages
                \* accepted

disk == <<cache, dir, ring, keyfiles, installed, sources>>
locals == <<todo, elems, cached, file, try, keys, lax, result>>
vars == <<conf, disk, faults, dead, pc, opt, locals, note>>

CanFail(kind) == kind \in Faults /\ faults < MaxFaults
Goto(next) == pc' = next
Pkg == Head(todo).pkg
NoTry == [url |-> 1, attempt |-> 0]
NoKeys == [todo |-> <<>>, matched |-> 0]
NoOpt == [downloadonly |-> "no", testonly |-> FALSE, assumeyes |-> FALSE, nogpgcheck |-> FALSE,
          skipsignature |-> FALSE, skipdigest |-> FALSE]
NoNote == [strict |-> FALSE, accepted |-> {}]

Init ==
    /\ conf \in Confs
    /\ cache = [p \in Pkgs |-> Absent] /\ dir = cache
    /\ ring = {} /\ keyfiles = {}
    /\ installed = [p \in Pkgs |-> Absent] /\ sources = {}
    /\ faults = 0 /\ dead = {}
    /\ pc = "idle" /\ opt = NoOpt
    /\ todo = <<>> /\ elems = <<>> /\ cached = <<>>
    /\ file = "none" /\ try = NoTry /\ keys = NoKeys /\ lax = FALSE /\ result = "ok"
    /\ note = NoNote

-----------------------------------------------------------------------------
(* TDNFPopulateTransaction adds packages in this order, whatever the order *)
(* of the solver: Populated are the permutations that sort a job.          *)
Place == [install |-> 1, reinstall |-> 2, upgrade |-> 3, erase |-> 4, downgrade |-> 5]

Populated(job) ==
    {f \in [1..Len(job) -> 1..Len(job)] : \A i, j \in 1..Len(job) : i < j =>
        \/ Place[job[f[i]].op] < Place[job[f[j]].op]
        \/ job[f[i]].op = job[f[j]].op /\ f[i] < f[j]}

Possible(job) ==
    \A i \in 1..Len(job) :
        job[i].op = "install" <=> installed[job[i].pkg] = Absent

Checked(o) == ~o.nogpgcheck /\ ~o.skipsignature /\ ~o.skipdigest

Begin ==
    /\ pc = "idle"
    /\ \E job \in Jobs, o \in Opts, d \in IF CanFail("net") THEN SUBSET (1..NUrls) ELSE {{}} :
         /\ Possible(job)
         /\ opt' = o
         /\ \E f \in Populated(job) : todo' = [i \in 1..Len(job) |-> job[f[i]]]
         /\ dead' = d
         /\ faults' = IF d = {} THEN faults ELSE faults + 1
         /\ note' = [strict |-> Checked(o) /\ \A i \in 1..Len(job) :
                                   RepoOf[job[i].pkg] \in conf.gpgcheck,
                     accepted |-> {}]
    /\ Goto("add")
    /\ UNCHANGED <<conf, disk, elems, cached, file, try, keys, lax, result>>

(* Every error ends in TDNFRpmCleanupTS.                                   *)
Abort == Goto("cleanup") /\ result' = "error" /\ UNCHANGED note

-----------------------------------------------------------------------------
(* The file of the next package.  With --downloaddir it is looked for in   *)
(* that directory, where an empty one does not count; else it is used in   *)
(* place when the repository is on this host, or in the cache, where any   *)
(* file counts.                                                            *)
ToDir == opt.downloadonly = "dir"
Source(p) ==
    CASE ToDir /\ dir[p] \notin {Absent, "empty"}     -> "dir"
      [] ~ToDir /\ RepoOf[p] \in conf.local           -> "repo"
      [] ~ToDir /\ RepoOf[p] \notin conf.local /\ cache[p] # Absent -> "cache"
      [] OTHER                                        -> "none"

Adding == pc = "add" /\ todo # <<>> /\ Head(todo).op # "erase"

Locate ==
    /\ Adding /\ Source(Pkg) # "none"
    /\ file' = Source(Pkg)
    /\ Goto("check")
    /\ UNCHANGED <<conf, disk, faults, dead, opt, todo, elems, cached, try, keys, lax, result,
                   note>>

StartDownload ==
    /\ Adding /\ Source(Pkg) = "none"
    /\ try' = NoTry
    /\ Goto("download")
    /\ UNCHANGED <<conf, disk, faults, dead, opt, todo, elems, cached, file, keys, lax, result,
                   note>>

(* The download goes to a temporary name and is renamed.  What a server    *)
(* sends is not compared with anything here.                               *)
Store(p, c) ==
    /\ file' = IF ToDir THEN "dir" ELSE "cache"
    /\ dir' = IF ToDir THEN [dir EXCEPT ![p] = c] ELSE dir
    /\ cache' = IF ToDir THEN cache ELSE [cache EXCEPT ![p] = c]

Download ==
    /\ pc = "download" /\ try.url \notin dead
    /\ \E c \in IF CanFail("damage") THEN Content ELSE {"good"} :
         /\ Store(Pkg, c)
         /\ faults' = IF c = "good" THEN faults ELSE faults + 1
    /\ try' = NoTry
    /\ Goto("check")
    /\ UNCHANGED <<conf, ring, keyfiles, installed, sources, dead, opt, todo, elems, cached,
                   keys, lax, result, note>>

(* A failed attempt is repeated NRetries times, and then the next URL is   *)
(* tried.                                                                  *)
NextTry ==
    IF try.attempt < NRetries THEN [try EXCEPT !.attempt = @ + 1]
    ELSE [url |-> try.url + 1, attempt |-> 0]

DownloadFails ==
    /\ pc = "download" /\ try.url \in dead
    /\ IF NextTry.url <= NUrls
       THEN try' = NextTry /\ UNCHANGED <<pc, result, note>>
       ELSE Abort /\ UNCHANGED try
    /\ UNCHANGED <<conf, disk, faults, dead, opt, todo, elems, cached, file, keys, lax>>

CannotStore ==
    /\ pc = "download" /\ CanFail("io")
    /\ faults' = faults + 1
    /\ Abort
    /\ UNCHANGED <<conf, disk, dead, opt, todo, elems, cached, file, try, keys, lax>>

-----------------------------------------------------------------------------
(* The checksum is compared when the metadata have one, and the size.      *)
ContentOf(p, place) ==
    CASE place = "dir" -> dir[p] [] place = "cache" -> cache[p] [] OTHER -> "good"

Matches_SizeOnly(p) == ContentOf(p, file) \in {"good", "damaged"}
Matches(p) ==
    /\ ContentOf(p, file) \in {"good", "damaged"}
    /\ p \in Summed => ContentOf(p, file) = "good"

Compare ==
    /\ pc = "check"
    /\ IF Matches(Pkg) THEN Goto("read") /\ UNCHANGED <<result, note>> ELSE Abort
    /\ UNCHANGED <<conf, disk, faults, dead, opt, todo, elems, cached, file, try, keys, lax>>

(* rpmReadPackageFile, with the flags the transaction set has by now.      *)
Reads(p) ==
    IF lax THEN "ok"
    ELSE IF ContentOf(p, file) # "good" THEN "fail"
    ELSE IF KeyOf[p] \in ring THEN "ok" ELSE "nokey"

SignatureCheck(r) == ~opt.nogpgcheck /\ ~opt.skipsignature /\ r \in conf.gpgcheck

Read_Accepts ==    \* mutated: a missing key is not looked for
    /\ pc = "read"
    /\ IF Reads(Pkg) = "fail" THEN Abort /\ UNCHANGED keys
       ELSE Goto("accept") /\ UNCHANGED <<keys, result, note>>
    /\ UNCHANGED <<conf, disk, faults, dead, opt, todo, elems, cached, file, try, lax>>

Read ==
    /\ pc = "read"
    /\ LET urls == conf.keys[RepoOf[Pkg]]
           ask == Reads(Pkg) = "nokey" /\ SignatureCheck(RepoOf[Pkg])
       IN  IF Reads(Pkg) = "fail" \/ (ask /\ urls = <<>>)
           THEN Abort /\ UNCHANGED keys
           ELSE /\ Goto(IF ask THEN "ask" ELSE "accept")
                /\ keys' = IF ask THEN [todo |-> urls, matched |-> 0] ELSE keys
                /\ UNCHANGED <<result, note>>
    /\ UNCHANGED <<conf, disk, faults, dead, opt, todo, elems, cached, file, try, lax>>

-----------------------------------------------------------------------------
(* The keys of the repository, one after the other: the user is asked, a   *)
(* remote one is downloaded (without the base URLs), it is imported for    *)
(* good, the package is verified with what the key ring has then, and the  *)
(* downloaded file is removed.                                             *)
Refuse ==
    /\ pc = "ask" /\ keys.todo # <<>> /\ ~opt.assumeyes
    /\ Abort
    /\ UNCHANGED <<conf, disk, faults, dead, opt, todo, elems, cached, file, try, keys, lax>>

FetchKey ==
    /\ pc = "ask" /\ keys.todo # <<>>
    /\ keyfiles' = keyfiles \cup IF Head(keys.todo).remote THEN {Head(keys.todo).key} ELSE {}
    /\ Goto("import")
    /\ UNCHANGED <<conf, cache, dir, ring, installed, sources, faults, dead, opt, locals, note>>

FetchKeyFails ==
    /\ pc = "ask" /\ keys.todo # <<>> /\ Head(keys.todo).remote /\ CanFail("net")
    /\ faults' = faults + 1
    /\ Abort
    /\ UNCHANGED <<conf, disk, dead, opt, todo, elems, cached, file, try, keys, lax>>

ImportKey ==
    /\ pc = "import"
    /\ ring' = ring \cup {Head(keys.todo).key}
    /\ keys' = [keys EXCEPT !.matched = IF KeyOf[Pkg] \in ring' THEN @ + 1 ELSE @]
    /\ Goto("unlink")
    /\ UNCHANGED <<conf, cache, dir, keyfiles, installed, sources, faults, dead, opt, todo,
                   elems, cached, file, try, lax, result, note>>

RemoveKey ==
    /\ pc = "unlink"
    /\ keyfiles' = IF Head(keys.todo).remote THEN keyfiles \ {Head(keys.todo).key}
                   ELSE keyfiles
    /\ keys' = [keys EXCEPT !.todo = Tail(@)]
    /\ Goto("ask")
    /\ UNCHANGED <<conf, cache, dir, ring, installed, sources, faults, dead, opt, todo, elems,
                   cached, file, try, lax, result, note>>

RemoveKeyFails ==
    /\ pc = "unlink" /\ Head(keys.todo).remote /\ CanFail("io")
    /\ faults' = faults + 1
    /\ Abort
    /\ UNCHANGED <<conf, disk, dead, opt, todo, elems, cached, file, try, keys, lax>>

(* A key matched, and the package is read again.                           *)
KeysDone ==
    /\ pc = "ask" /\ keys.todo = <<>>
    /\ IF keys.matched > 0 /\ Reads(Pkg) = "ok"
       THEN Goto("accept") /\ UNCHANGED <<result, note>>
       ELSE Abort
    /\ keys' = NoKeys
    /\ UNCHANGED <<conf, disk, faults, dead, opt, todo, elems, cached, file, try, lax>>

-----------------------------------------------------------------------------
(* The package becomes an element of the transaction.  A source package is *)
(* installed at once.  A repository without gpgcheck stops the             *)
(* verification for the transaction as a whole.  The list of cached files  *)
(* gets the ones that were downloaded before, too.                         *)
AtOnce(p) == p \in Sources /\ opt.downloadonly = "no" /\ ~opt.testonly

Listed_Alone(p) == <<p>>    \* mutated: the entries are not linked
Listed(p) == <<p>> \o cached

Accept ==
    /\ pc = "accept"
    /\ lax' = (lax \/ opt.nogpgcheck \/ RepoOf[Pkg] \notin conf.gpgcheck)
    /\ sources' = IF AtOnce(Pkg) THEN sources \cup {Pkg} ELSE sources
    /\ elems' = IF Pkg \in Sources THEN elems
                ELSE Append(elems, [op |-> Head(todo).op, pkg |-> Pkg, file |-> file])
    /\ cached' = IF file = "cache" THEN Listed(Pkg) ELSE cached
    /\ note' = [note EXCEPT !.accepted = @ \cup {Pkg}]
    /\ todo' = Tail(todo) /\ file' = "none"
    /\ Goto("add")
    /\ UNCHANGED <<conf, cache, dir, ring, keyfiles, installed, faults, dead, opt, try, keys,
                   result>>

AddErase ==
    /\ pc = "add" /\ todo # <<>> /\ Head(todo).op = "erase"
    /\ elems' = IF installed[Pkg] = Absent THEN elems
                ELSE Append(elems, [op |-> "erase", pkg |-> Pkg, file |-> "none"])
    /\ todo' = Tail(todo)
    /\ UNCHANGED <<conf, disk, faults, dead, pc, opt, cached, file, try, keys, lax, result,
                   note>>

(* --downloadonly ends here.                                               *)
Populate ==
    /\ pc = "add" /\ todo = <<>>
    /\ Goto(IF opt.downloadonly # "no" THEN "cleanup" ELSE "test")
    /\ UNCHANGED <<conf, disk, faults, dead, opt, locals, note>>

-----------------------------------------------------------------------------
(* TDNFRunTransaction: rpm orders and checks the elements, then tests the  *)
(* transaction with the level of verification that is left, and runs it.   *)
Verifies(e) ==
    \/ e.op = "erase" \/ lax \/ opt.nogpgcheck
    \/ /\ opt.skipdigest \/ ContentOf(e.pkg, e.file) = "good"
       /\ opt.skipsignature \/ conf.level = "digest" \/ KeyOf[e.pkg] \in ring

Test ==
    /\ pc = "test"
    /\ \A i \in 1..Len(elems) : Verifies(elems[i])
    /\ Goto(IF opt.testonly THEN "cleanup" ELSE "run")
    /\ UNCHANGED <<conf, disk, faults, dead, opt, locals, note>>

TestFails ==
    /\ pc = "test"
    /\ IF \A i \in 1..Len(elems) : Verifies(elems[i])
       THEN CanFail("rpm") /\ faults' = faults + 1 /\ Abort
       ELSE Abort /\ UNCHANGED faults
    /\ UNCHANGED <<conf, disk, dead, opt, todo, elems, cached, file, try, keys, lax>>

(* Elements run one after the other; rpm goes on after one that failed     *)
(* (a script before it), and reports the error at the end.                 *)
Run ==
    /\ pc = "run" /\ elems # <<>>
    /\ LET e == Head(elems)
       IN  installed' = [installed EXCEPT ![e.pkg] =
                           IF e.op = "erase" THEN Absent ELSE ContentOf(e.pkg, e.file)]
    /\ elems' = Tail(elems)
    /\ UNCHANGED <<conf, cache, dir, ring, keyfiles, sources, faults, dead, pc, opt, todo,
                   cached, file, try, keys, lax, result, note>>

ElementFails ==
    /\ pc = "run" /\ elems # <<>> /\ CanFail("rpm")
    /\ faults' = faults + 1
    /\ elems' = Tail(elems)
    /\ result' = "error"
    /\ UNCHANGED <<conf, disk, dead, pc, opt, todo, cached, file, try, keys, lax, note>>

Ran ==
    /\ pc = "run" /\ elems = <<>>
    /\ Goto("cleanup")
    /\ UNCHANGED <<conf, disk, faults, dead, opt, locals, note>>

-----------------------------------------------------------------------------
(* TDNFRpmCleanupTS removes the files in the list unless they are kept,    *)
(* and gives up at the first that it cannot remove.                        *)
Keeps == conf.keep \/ opt.downloadonly # "no"

RemoveCached ==
    /\ pc = "cleanup" /\ ~Keeps /\ cached # <<>>
    /\ cache' = [cache EXCEPT ![Head(cached)] = Absent]
    /\ cached' = Tail(cached)
    /\ UNCHANGED <<conf, dir, ring, keyfiles, installed, sources, faults, dead, pc, opt, todo,
                   elems, file, try, keys, lax, result, note>>

RemoveCachedFails ==
    /\ pc = "cleanup" /\ ~Keeps /\ cached # <<>> /\ CanFail("io")
    /\ faults' = faults + 1
    /\ cached' = <<>>
    /\ note' = [note EXCEPT !.accepted = {}]
    /\ UNCHANGED <<conf, disk, dead, pc, opt, todo, elems, file, try, keys, lax, result>>

Forget ==
    /\ Goto("ended")
    /\ dead' = {} /\ todo' = <<>> /\ elems' = <<>> /\ cached' = <<>> /\ file' = "none"
    /\ try' = NoTry /\ keys' = NoKeys /\ lax' = FALSE

End ==
    /\ pc = "cleanup" /\ (Keeps \/ cached = <<>>)
    /\ Forget
    /\ UNCHANGED <<conf, disk, faults, opt, result, note>>

Crash ==
    /\ pc \notin {"idle", "ended"} /\ CanFail("crash")
    /\ Forget
    /\ faults' = faults + 1
    /\ result' = "crashed"
    /\ note' = [note EXCEPT !.accepted = {}]
    /\ UNCHANGED <<conf, disk, opt>>

Exit ==
    /\ pc = "ended"
    /\ Goto("idle")
    /\ opt' = NoOpt /\ result' = "ok" /\ note' = NoNote
    /\ UNCHANGED <<conf, disk, faults, dead, todo, elems, cached, file, try, keys, lax>>

Step ==
    \/ Locate \/ StartDownload \/ Download \/ DownloadFails \/ CannotStore \/ Compare \/ Read
    \/ Refuse \/ FetchKey \/ FetchKeyFails \/ ImportKey \/ RemoveKey \/ RemoveKeyFails
    \/ KeysDone \/ Accept \/ AddErase \/ Populate \/ Test \/ TestFails \/ Run \/ ElementFails
    \/ Ran \/ RemoveCached \/ RemoveCachedFails \/ End \/ Exit

Next == Begin \/ Step \/ Crash

(* A command that runs takes its steps.                                    *)
Spec == Init /\ [][Next]_vars /\ WF_vars(Step)
=============================================================================
