------------------------------- MODULE Session -------------------------------
(***************************************************************************)
(* What a tdnf command does before its own work: it loads the plugins      *)
(* (client/plugins.c), makes the list of repositories from its options and *)
(* the .repo files (client/repolist.c), and brings the metadata of the     *)
(* enabled ones up to date in the order of their priorities (client/init.c *)
(* and repo.c), with the plugins metalink and repogpgcheck taking part     *)
(* through events.  Commands follow one another on one cache; the servers  *)
(* change meanwhile, and a command may be killed.                          *)
(*                                                                         *)
(* RepoCache has the files of one cache in detail; here a cache is the     *)
(* version of its repomd.xml, that of the parts, the metalink file and     *)
(* the marker of the last refresh.                                         *)
(***************************************************************************)
EXTENDS Metalink

CONSTANTS Sessions,    \* what is installed, configured and asked for, see SessionType
          Section,     \* the settings of a repository in its .repo file
          Base,        \* the base URLs of a repository: a sequence of mirrors
          Glob,        \* the names that a pattern with wildcards matches
          Link,        \* the metalink file of a version: [hashes, urls]
          Mirrors,
          MaxVersion, MaxFaults    \* bounds: publications; failures and kills together

Names == DOMAIN Section \cup DOMAIN Base
Foreign == 0                  \* metadata that no publication of the repository has
Versions == Foreign..MaxVersion
None == -1
NoRepo == ""
CmdLine == "@cmdline"
MetalinkHost == "metalink server"
Stored == [md : Versions \cup {None}, parts : Versions \cup {None},
           ml : Versions \cup {None}, marker : BOOLEAN]
Nothing == [md |-> None, parts |-> None, ml |-> None, marker |-> FALSE]

Ids(f) == {f.ids[i] : i \in DOMAIN f.ids}

SessionType(s) ==
    /\ s.conf \in {"off", "missing", "dir"}    \* plugins=0, no directory of plugins, or one
    /\ s.plugins \in Seq([name : STRING, state : {"on", "off", "unreadable"},
                          lib : {"loads", "missing", "fails"}])
    /\ s.files \in Seq([readable : BOOLEAN, ids : Seq(DOMAIN Section)])
    /\ s.opts \in Seq([name : STRING, arg : STRING])    \* in the order given

ASSUME SessionConstants ==
    /\ \A s \in Sessions : SessionType(s)
    /\ Sessions # {}
    /\ NoRepo \notin Names /\ CmdLine \notin Names
    /\ "*" \in DOMAIN Glob /\ Names \subseteq Glob["*"] /\ CmdLine \in Glob["*"]
    /\ \A r \in DOMAIN Section :
         Section[r] \in [enabled : BOOLEAN, skip : BOOLEAN, gpg : BOOLEAN, metalink : BOOLEAN, priority : Int]
    /\ DOMAIN Link = 1..MaxVersion

VARIABLES
    current,    \* the version published last
    served,     \* [Mirrors -> the version a mirror has]
    down,       \* the servers that do not answer
    store,      \* [Names -> the cache of a repository]
    pc, run,    \* where the command is, and what it is
    plugins,    \* pTdnf->pPlugins
    data,       \* pHandle->pData of the plugins: [plugin, id]
    repos,      \* pReposAll
    lost,       \* ppRepoNext is no longer in the list
    files,      \* the .repo files that readdir has left
    opts,       \* the options that a loop over pSetOpt has left, by their places
    seen,       \* nRepoidSeen
    wanted,     \* the repositories that were enabled when the list was final
    todo,       \* the repositories the refresh has left
    at,         \* pRepo
    tmp,        \* the repomd.xml in the directory tmp: [version, mirror]
    urls,       \* ppszBaseUrls of at
    left,       \* the plugins an event has left, by their places
    loaded,     \* the repositories in the sack
    err,        \* dwError
    faults

servers == <<current, served, down>>
opening == <<plugins, data, repos, lost, files, opts, seen>>
refresh == <<wanted, todo, at, tmp, urls, left, loaded>>
vars == <<servers, store, pc, run, opening, refresh, err, faults>>

NoTmp == [version |-> None, mirror |-> NoRepo]
FirstSession == CHOOSE s \in Sessions : TRUE

Init ==
    /\ current = 1 /\ served = [m \in Mirrors |-> 1] /\ down = {}
    /\ store = [r \in Names |-> Nothing]
    /\ pc = "idle" /\ run = FirstSession
    /\ plugins = <<>> /\ data = {} /\ repos = <<>> /\ lost = FALSE /\ files = <<>>
    /\ opts = {} /\ seen = FALSE
    /\ wanted = {} /\ todo = {} /\ at = NoRepo /\ tmp = NoTmp /\ urls = <<>> /\ left = {}
    /\ loaded = {} /\ err = "none" /\ faults = 0

Opts(names) == {i \in DOMAIN run.opts : run.opts[i].name \in names}
First(S) == CHOOSE i \in S : \A j \in S : i <= j
Opt == run.opts[First(opts)]
NextOption == opts' = opts \ {First(opts)}
Has(name) == \E i \in DOMAIN run.opts : run.opts[i].name = name
Abort(e) == pc' = "done" /\ err' = e
Fault == faults < MaxFaults /\ faults' = faults + 1
Matching(pat) == IF pat \in DOMAIN Glob THEN Glob[pat] ELSE {pat}

Closed ==
    /\ run' = FirstSession
    /\ plugins' = <<>> /\ data' = {} /\ repos' = <<>> /\ lost' = FALSE /\ files' = <<>>
    /\ opts' = {} /\ seen' = FALSE
    /\ wanted' = {} /\ todo' = {} /\ at' = NoRepo /\ tmp' = NoTmp /\ urls' = <<>> /\ left' = {}
    /\ loaded' = {} /\ err' = "none"

Open(s) ==
    /\ pc = "idle" /\ pc' = "plugins" /\ run' = s /\ files' = s.files
    /\ UNCHANGED <<servers, store, plugins, data, repos, lost, opts, seen, refresh, err, faults>>

-----------------------------------------------------------------------------
(***************************************************************************)
(* The plugins: their configuration files in the order of readdir, the     *)
(* options in the order of the command line, the libraries, and the first  *)
(* event.  A library that does not load switches its plugin off; a file    *)
(* that cannot be read, or a plugin that does not initialize, ends tdnf.   *)
(***************************************************************************)
ReadPluginConfs ==
    /\ pc = "plugins"
    /\ IF run.conf # "dir" \/ Has("noplugins")
         THEN pc' = "repos" /\ UNCHANGED <<plugins, opts, err>>
         ELSE IF \E i \in DOMAIN run.plugins : run.plugins[i].state = "unreadable"
         THEN Abort("CONF_FILE_LOAD") /\ UNCHANGED <<plugins, opts>>
         ELSE IF run.plugins = <<>>
         THEN Abort("INVALID_PARAMETER") /\ UNCHANGED <<plugins, opts>>
         ELSE /\ plugins' = [i \in DOMAIN run.plugins |->
                               [name |-> run.plugins[i].name, lib |-> run.plugins[i].lib,
                                enabled |-> run.plugins[i].state = "on"]]
              /\ opts' = Opts({"enableplugin", "disableplugin"})
              /\ pc' = "overrides" /\ UNCHANGED err
    /\ UNCHANGED <<servers, store, run, data, repos, lost, files, seen, refresh, faults>>

AlterPluginState(ps, on, pat) ==
    [i \in DOMAIN ps |-> IF ps[i].name \in Matching(pat) THEN [ps[i] EXCEPT !.enabled = on] ELSE ps[i]]

ApplyPluginOverride ==
    /\ pc = "overrides" /\ opts # {}
    /\ plugins' = AlterPluginState(plugins, Opt.name = "enableplugin", Opt.arg)
    /\ NextOption
    /\ UNCHANGED <<servers, store, pc, run, data, repos, lost, files, seen, refresh, err, faults>>

LoadPluginLibs ==
    /\ pc = "overrides" /\ opts = {}
    /\ plugins' = [i \in DOMAIN plugins |->
                     [plugins[i] EXCEPT !.enabled = @ /\ plugins[i].lib # "missing"]]
    /\ pc' = "init"
    /\ UNCHANGED <<servers, store, run, data, repos, lost, files, opts, seen, refresh, err, faults>>

InitPlugins ==
    /\ pc = "init"
    /\ IF \E i \in DOMAIN plugins : plugins[i].enabled /\ plugins[i].lib = "fails"
         THEN Abort("PLUGIN") /\ plugins' = <<>>
         ELSE pc' = "repos" /\ UNCHANGED <<plugins, err>>
    /\ UNCHANGED <<servers, store, run, data, repos, lost, files, opts, seen, refresh, faults>>

Active(name) == \E i \in DOMAIN plugins : plugins[i].name = name /\ plugins[i].enabled
Registered(name, id) == Active(name) /\ [plugin |-> name, id |-> id] \in data

-----------------------------------------------------------------------------
(***************************************************************************)
(* The list.  @cmdline comes first, then the repositories of the options,  *)
(* then those of each file, the last section first.  --repofromdir stores  *)
(* its repository where the list begins: what was there is lost, and so is *)
(* what is appended later, for ppRepoNext points into the lost list.       *)
(***************************************************************************)
FromOption(id, hasmd) ==
    [id |-> id, enabled |-> TRUE, skip |-> FALSE, hasmd |-> hasmd, priority |-> 50]
FromSection(id) ==
    [id |-> id, enabled |-> Section[id].enabled, skip |-> Section[id].skip, hasmd |-> TRUE,
     priority |-> Section[id].priority]

CreateCmdLineRepo ==
    /\ pc = "repos" /\ pc' = "list"
    /\ repos' = <<FromOption(CmdLine, FALSE)>> /\ opts' = Opts({"repofrompath", "repofromdir"})
    /\ UNCHANGED <<servers, store, run, plugins, data, lost, files, seen, refresh, err, faults>>

\* TDNFCreateRepoFromPath and TDNFCreateRepoFromDirectory, which refuse what is not there
CreateRepo ==
    /\ pc = "list" /\ opts # {}
    /\ IF Opt.arg \notin DOMAIN Base
         THEN Abort("INVALID_PARAMETER") /\ repos' = <<>> /\ UNCHANGED <<lost, opts>>
         ELSE /\ IF Opt.name = "repofromdir"
                   THEN repos' = <<FromOption(Opt.arg, FALSE)>> /\ lost' = TRUE
                   ELSE /\ repos' = IF lost THEN repos ELSE Append(repos, FromOption(Opt.arg, TRUE))
                        /\ UNCHANGED lost
              /\ NextOption /\ UNCHANGED <<pc, err>>
    /\ UNCHANGED <<servers, store, run, plugins, data, files, seen, refresh, faults>>

\* The event at the end of a section: each plugin keeps the repositories it is for.
Kept(ids) ==
    {[plugin |-> "metalink", id |-> r] : r \in {r \in ids : Active("metalink") /\ Section[r].metalink}}
      \cup {[plugin |-> "repogpgcheck", id |-> r] :
              r \in {r \in ids : Active("repogpgcheck") /\ Section[r].gpg}}

Sections_Last(ids) == <<FromSection(ids[Len(ids)])>>    \* mutated: ppRepos points at one section
Sections(ids) == [i \in DOMAIN ids |-> FromSection(ids[Len(ids) + 1 - i])]

LoadReposFromFile ==
    /\ pc = "list" /\ opts = {} /\ files # <<>>
    /\ IF Head(files).readable
         THEN /\ repos' = IF lost THEN repos ELSE repos \o Sections(Head(files).ids)
              /\ data' = data \cup Kept(Ids(Head(files)))
              /\ files' = Tail(files) /\ UNCHANGED <<pc, err>>
         ELSE Abort("CONF_FILE_LOAD") /\ repos' = <<>> /\ UNCHANGED <<data, files>>
    /\ UNCHANGED <<servers, store, run, plugins, lost, opts, seen, refresh, faults>>

Duplicates == \E i, j \in DOMAIN repos : i # j /\ repos[i].id = repos[j].id

CheckDuplicates ==
    /\ pc = "list" /\ opts = {} /\ files = <<>>
    /\ IF Duplicates
         THEN Abort("DUPLICATE_REPO_ID") /\ repos' = <<>> /\ UNCHANGED opts
         ELSE /\ opts' = Opts({"enablerepo", "disablerepo", "repo"})
              /\ pc' = "finalize" /\ UNCHANGED <<repos, err>>
    /\ UNCHANGED <<servers, store, run, plugins, data, lost, files, seen, refresh, faults>>

\* From the first repository a pattern matches on, all are altered: nMatch stays 1.
AlterRepoState(rs, on, pat) ==
    LET hits == {i \in DOMAIN rs : rs[i].id \in Matching(pat)}
        altered == IF pat \in DOMAIN Glob THEN {i \in DOMAIN rs : \E j \in hits : j <= i} ELSE hits
    IN  [i \in DOMAIN rs |-> IF i \in altered THEN [rs[i] EXCEPT !.enabled = on] ELSE rs[i]]

OnlyThis_Each == AlterRepoState(repos, FALSE, "*")    \* mutated: each --repo switches off the ones before
OnlyThis == IF seen THEN repos ELSE AlterRepoState(repos, FALSE, "*")

FinalizeOption ==
    /\ pc = "finalize" /\ opts # {}
    /\ IF Opt.name = "repo"
         THEN repos' = AlterRepoState(OnlyThis, TRUE, Opt.arg) /\ seen' = TRUE
         ELSE repos' = AlterRepoState(repos, Opt.name = "enablerepo", Opt.arg) /\ UNCHANGED seen
    /\ NextOption
    /\ UNCHANGED <<servers, store, pc, run, plugins, data, lost, files, refresh, err, faults>>

Enabled(rs) == {rs[i].id : i \in {i \in DOMAIN rs : rs[i].enabled}} \ {CmdLine}

RepoListFinalize ==
    /\ pc = "finalize" /\ opts = {}
    /\ wanted' = Enabled(repos) /\ todo' = Enabled(repos) /\ pc' = "refresh"
    /\ UNCHANGED <<servers, store, run, opening, at, tmp, urls, left, loaded, err, faults>>

-----------------------------------------------------------------------------
(***************************************************************************)
(* The refresh: one repository after another, the lowest priority value    *)
(* first.  What has expired is removed before anything is downloaded.      *)
(***************************************************************************)
The(id) == repos[CHOOSE i \in DOMAIN repos : repos[i].id = id]
Expired(id, stale) == ~Has("cacheonly") /\ (stale \/ ~store[id].marker)
Disable(id) == [i \in DOMAIN repos |-> IF repos[i].id = id THEN [repos[i] EXCEPT !.enabled = FALSE]
                                                            ELSE repos[i]]

RefreshRepo(id, stale) ==
    /\ pc = "refresh" /\ id \in todo
    /\ \A r \in todo : The(id).priority <= The(r).priority
    /\ at' = id /\ todo' = todo \ {id} /\ tmp' = NoTmp
    /\ urls' = IF The(id).hasmd THEN Base[id] ELSE <<>>
    /\ store' = IF Expired(id, stale) THEN [store EXCEPT ![id] = [Nothing EXCEPT !.marker = store[id].marker]]
                ELSE store
    /\ IF The(id).hasmd
         THEN pc' = "start" /\ UNCHANGED loaded
         ELSE pc' = "refresh" /\ loaded' = loaded \cup {id}
    /\ UNCHANGED <<servers, run, opening, wanted, left, err, faults>>

\* The end of TDNFInitRepo with an error, and of TDNFRefreshSack.
RepoFails_Skip(e) ==    \* mutated: every repository may be skipped
    /\ store' = [store EXCEPT ![at] = Nothing] /\ tmp' = NoTmp /\ left' = {}
    /\ repos' = Disable(at) /\ pc' = "refresh" /\ UNCHANGED <<err, urls, loaded>>
RepoFails(e) ==
    /\ store' = [store EXCEPT ![at] = Nothing] /\ tmp' = NoTmp /\ left' = {}
    /\ IF The(at).skip
         THEN repos' = Disable(at) /\ pc' = "refresh" /\ UNCHANGED err
         ELSE Abort(e) /\ UNCHANGED repos
    /\ UNCHANGED <<urls, loaded>>

\* TDNFMetalinkRepoMDDownloadStart.  --cacheonly is not looked at.
DownloadStart ==
    /\ pc = "start"
    /\ IF ~Registered("metalink", at)
         THEN pc' = "download" /\ UNCHANGED <<store, tmp, urls, left, loaded, repos, err>>
         ELSE IF Has("refresh") \/ store[at].ml = None
         THEN IF MetalinkHost \in down THEN RepoFails("DOWNLOAD")
              ELSE /\ store' = [store EXCEPT ![at].ml = current]
                   /\ urls' = BaseUrls(Link[current].urls) /\ pc' = "download"
                   /\ UNCHANGED <<tmp, left, loaded, repos, err>>
         ELSE /\ urls' = BaseUrls(Link[store[at].ml].urls) /\ pc' = "download"
              /\ UNCHANGED <<store, tmp, left, loaded, repos, err>>
    /\ UNCHANGED <<servers, run, plugins, data, lost, files, opts, seen, wanted, todo, at, faults>>

Answering == {i \in DOMAIN urls : urls[i] \notin down}
Needed == Has("refresh") \/ store[at].md = None

DownloadRepoMD ==
    /\ pc = "download"
    /\ IF urls = <<>> THEN RepoFails("BASEURL_DOES_NOT_EXISTS")
       ELSE IF ~Needed \/ Has("cacheonly")
       THEN pc' = "parse" /\ UNCHANGED <<store, tmp, urls, left, loaded, repos, err>>
       ELSE IF Answering = {} THEN RepoFails("DOWNLOAD")
       ELSE LET m == urls[First(Answering)]
            IN  /\ tmp' = [version |-> served[m], mirror |-> m]
                /\ left' = {i \in DOMAIN plugins : Registered(plugins[i].name, at)}
                /\ pc' = "end" /\ UNCHANGED <<store, urls, loaded, repos, err>>
    /\ UNCHANGED <<servers, run, plugins, data, lost, files, opts, seen, wanted, todo, at, faults>>

\* TDNFMetalinkRepoMDDownloadEnd, with the metalink file that DownloadStart read.
CheckHash ==
    /\ pc = "end" /\ left # {} /\ plugins[First(left)].name = "metalink"
    /\ LET e == HashError(Link[store[at].ml].hashes, tmp.version)
       IN  IF e # "none" THEN RepoFails(e)
           ELSE left' = left \ {First(left)} /\ UNCHANGED <<pc, store, tmp, urls, loaded, repos, err>>
    /\ UNCHANGED <<servers, run, plugins, data, lost, files, opts, seen, wanted, todo, at, faults>>

\* TDNFRepoMDCheckSignature downloads the signature, from a mirror that may by now be
\* another one, or have another version.
Verified_Published(mirror) == tmp.version # Foreign \/ served[mirror] # Foreign    \* mutated
Verified(mirror) == tmp.version # Foreign /\ served[mirror] = tmp.version

CheckSignature ==
    /\ pc = "end" /\ left # {} /\ plugins[First(left)].name = "repogpgcheck"
    /\ IF Answering = {} THEN RepoFails("DOWNLOAD")
       ELSE IF ~Verified(urls[First(Answering)]) THEN RepoFails("GPG_SIGNATURE_CHECK")
       ELSE left' = left \ {First(left)} /\ UNCHANGED <<pc, store, tmp, urls, loaded, repos, err>>
    /\ UNCHANGED <<servers, run, plugins, data, lost, files, opts, seen, wanted, todo, at, faults>>

\* The same repomd.xml as before is not moved into its place, and the metalink file stays.
ReplaceRepoMD ==
    /\ pc = "end" /\ left = {}
    /\ store' = [store EXCEPT ![at] =
         IF @.md = tmp.version THEN [@ EXCEPT !.marker = TRUE]
         ELSE [Nothing EXCEPT !.md = tmp.version, !.marker = TRUE]]
    /\ tmp' = NoTmp /\ pc' = "parse"
    /\ UNCHANGED <<servers, run, opening, wanted, todo, at, urls, left, loaded, err, faults>>

\* TDNFParseRepoMD and TDNFEnsureRepoMDParts; a mirror without the parts answers with an error.
Parts == {i \in Answering : served[urls[i]] = store[at].md}
InitRepo ==
    /\ pc = "parse"
    /\ IF store[at].md = None THEN RepoFails("CACHE_DISABLED")
       ELSE IF store[at].parts # store[at].md /\ Parts = {} THEN RepoFails("DOWNLOAD")
       ELSE /\ store' = [store EXCEPT ![at].parts = store[at].md]
            /\ loaded' = loaded \cup {at} /\ pc' = "refresh"
            /\ UNCHANGED <<tmp, urls, left, repos, err>>
    /\ UNCHANGED <<servers, run, plugins, data, lost, files, opts, seen, wanted, todo, at, faults>>

Finish ==
    /\ pc = "refresh" /\ todo = {} /\ pc' = "done"
    /\ UNCHANGED <<servers, store, run, opening, refresh, err, faults>>

\* TDNFCloseHandle, or the end of the process.
Close ==
    /\ pc = "done" /\ pc' = "idle" /\ Closed
    /\ UNCHANGED <<servers, store, faults>>
Killed ==
    /\ pc \notin {"idle", "done"} /\ Fault /\ pc' = "idle" /\ Closed
    /\ UNCHANGED <<servers, store>>

-----------------------------------------------------------------------------
(***************************************************************************)
(* The servers.  The metalink file is that of the last publication at      *)
(* once, the mirrors follow in their own time, and may stop to answer or   *)
(* have metadata of no publication.                                        *)
(***************************************************************************)
Publish ==
    /\ current < MaxVersion /\ current' = current + 1
    /\ UNCHANGED <<served, down, store, pc, run, opening, refresh, err, faults>>
Sync(m) ==
    /\ served[m] # current /\ served' = [served EXCEPT ![m] = current]
    /\ UNCHANGED <<current, down, store, pc, run, opening, refresh, err, faults>>
Spoiled(m) ==
    /\ Fault /\ served[m] # Foreign /\ served' = [served EXCEPT ![m] = Foreign]
    /\ UNCHANGED <<current, down, store, pc, run, opening, refresh, err>>
Falls(h) ==
    /\ Fault /\ h \notin down /\ down' = down \cup {h}
    /\ UNCHANGED <<current, served, store, pc, run, opening, refresh, err>>
Rises(h) ==
    /\ h \in down /\ down' = down \ {h}
    /\ UNCHANGED <<current, served, store, pc, run, opening, refresh, err, faults>>

Command ==
    \/ ReadPluginConfs \/ ApplyPluginOverride \/ LoadPluginLibs \/ InitPlugins
    \/ CreateCmdLineRepo \/ CreateRepo \/ LoadReposFromFile \/ CheckDuplicates
    \/ FinalizeOption \/ RepoListFinalize
    \/ \E id \in Names, stale \in BOOLEAN : RefreshRepo(id, stale)
    \/ DownloadStart \/ DownloadRepoMD \/ CheckHash \/ CheckSignature
    \/ ReplaceRepoMD \/ InitRepo \/ Finish \/ Close

Next ==
    \/ \E s \in Sessions : Open(s)
    \/ Command
    \/ Killed
    \/ Publish
    \/ \E m \in Mirrors : Sync(m) \/ Spoiled(m)
    \/ \E h \in Mirrors \cup {MetalinkHost} : Falls(h) \/ Rises(h)

Spec == Init /\ [][Next]_vars
=============================================================================
