--------------------------- MODULE RepoCacheProps ---------------------------
(***************************************************************************)
(* What the metadata cache must guarantee.                                 *)
(***************************************************************************)
EXTENDS RepoCache

Pc == {"idle", "expire", "remove", "start", "fetch", "install", "touch", "parse", "parts",
       "cookie", "use", "write", "loaded", "failed", "cleaned", "ended"}
Target == {"repodata", "solv", "marker", "mirrorlist", "rpms"}
Opt == [refresh : BOOLEAN, cacheonly : BOOLEAN, clean : Cleans \cup {"no"}]
Rm == [todo : Seq(Target), then : Pc \cup {"none"}, stuck : BOOLEAN]
Loc == [new : MaybeVersion, digest : MaybeVersion, md : MaybeVersion, cookie : MaybeVersion]
Pool == [version : Version, content : Content] \cup {NoPool}
Note == [outcome : {"none", "ok", "error", "skipped", "crashed"}, eacces : BOOLEAN,
         floor : MaybeVersion, ready : BOOLEAN, calm : BOOLEAN, upset : BOOLEAN]
Age == Never..MaxAge

WorldOK ==
    /\ conf \in Confs
    /\ latest \in Version /\ mirror \in [Mirrors -> 1..latest]
    /\ checked \in 0..MaxAge /\ faults \in 0..MaxFaults
DiskOK ==
    /\ repomd \in MaybeVersion /\ metalink \in MaybeVersion
    /\ part \in [PartName -> MaybeVersion]
    /\ mirrorlist \in Age /\ marker \in Age
    /\ solv \in SUBSET [cookie : Version, content : Content] /\ Cardinality(solv) <= 1
    /\ rpms \in SUBSET {KeptIn, LookedForIn}
CommandsOK ==
    /\ pc \in [Procs -> Pc] /\ opt \in [Procs -> Opt] /\ rm \in [Procs -> Rm]
    /\ loc \in [Procs -> Loc] /\ pool \in [Procs -> Pool] /\ note \in [Procs -> Note]
    /\ failures \in Nat

(* Every variable keeps its type.                                          *)
TypeOK == WorldOK /\ DiskOK /\ CommandsOK

Loaded(p) == pc[p] = "loaded"
Describes(v, content) == \A q \in Parts : content[q] = v

(* Whatever a command loads, from the parts or from solvcache/, is the     *)
(* metadata that one repomd file describes, if its locations hold          *)
(* checksums: TDNFEnsureRepoMDParts and SolvUseMetaDataCache never mix two *)
(* versions, whatever was published, removed or interrupted before, and    *)
(* whoever replaces the files meanwhile.                                   *)
LoadsOneVersion ==
    conf.unique => \A p \in Procs :
        Loaded(p) => Describes(pool[p].version, pool[p].content)

(* The parsed metadata in solvcache/ are those of the version that their   *)
(* cookie stands for.                                                      *)
SolvHonest == conf.unique => \A s \in solv : Describes(s.cookie, s.content)

(* The marker is never younger than the last time its repomd file was seen *)
(* at a mirror: no failure, crash or command without a download makes old  *)
(* metadata look fresh (issue #302, test_expired_cache.py), not even while *)
(* a command replaces the files.                                           *)
MarkerHonest == (marker # Never /\ repomd # Absent) => checked <= marker

(* A privileged command that succeeds with --refresh has loaded a version  *)
(* that is at least as new as what the mirrors served when it started.     *)
RefreshIsCurrent ==
    \A p \in Root :
        (Loaded(p) /\ opt[p].refresh /\ ~opt[p].cacheonly) => pool[p].version >= note[p].floor

(* A privileged command that nothing disturbs, with all mirrors in sync,   *)
(* does not fail twice: whatever state of the cache it fails on (a cookie  *)
(* that does not match, an old metalink, half of a removed directory), its *)
(* error path in TDNFInitRepo leaves one that the next command can use.    *)
FailsOnce == failures <= 1

(* A command that starts with a complete cache that has not expired, and   *)
(* does not ask for a refresh, succeeds, with or without a network: this   *)
(* holds for unprivileged commands too, if no privileged one runs.         *)
SucceedsFromCache(p) ==
    (pc[p] = "ended" /\ note[p].ready /\ ~note[p].upset /\ note[p].outcome # "crashed")
        => note[p].outcome = "ok"
CacheSuffices ==
    conf.source = "baseurl" => \A p \in Procs : SucceedsFromCache(p)
=============================================================================
