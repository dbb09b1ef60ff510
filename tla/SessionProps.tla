---------------------------- MODULE SessionProps -----------------------------
(***************************************************************************)
(* What the preparation of a command promises.                             *)
(***************************************************************************)
EXTENDS Session
-----------------------------------------------------------------------------
(***************************************************************************)
(* The options, said without the loops: of those that are about a name the *)
(* last one decides, and the first --repo is about every name.             *)
(***************************************************************************)
About(id, names) == {i \in Opts(names) : id \in Matching(run.opts[i].arg)}
Greatest(S) == CHOOSE i \in S : \A j \in S : j <= i

RepoOn(id, default) ==
    LET first == {i \in Opts({"repo"}) : \A j \in Opts({"repo"}) : i <= j}
        about == About(id, {"enablerepo", "disablerepo", "repo"})
        last == Greatest(about \cup first)
    IN  IF about \cup first = {} THEN default
        ELSE last \in about /\ run.opts[last].name # "disablerepo"

PluginOn(p) ==
    LET about == About(p.name, {"enableplugin", "disableplugin"})
    IN  /\ p.lib = "loads"
        /\ IF about = {} THEN p.state = "on" ELSE run.opts[Greatest(about)].name = "enableplugin"
PluginsOn ==
    IF run.conf # "dir" \/ Has("noplugins") THEN {}
    ELSE {run.plugins[i].name : i \in {i \in DOMAIN run.plugins : PluginOn(run.plugins[i])}}

\* No other pattern than * is used: of any other one TDNFAlterRepoState makes too much.
Plain == \A i \in Opts({"enablerepo", "disablerepo", "repo"}) :
           run.opts[i].arg = "*" \/ run.opts[i].arg \notin DOMAIN Glob

FromFiles == UNION {Ids(run.files[i]) : i \in DOMAIN run.files}
FromOptions == {run.opts[i].arg : i \in Opts({"repofrompath", "repofromdir"})}
Opened == pc = "refresh" /\ at = NoRepo

\* Of several options about a repository or a plugin the last one on the command line
\* decides, whatever came before it (TDNFRepoListFinalize, _TDNFApplyPluginOverrides).
LastOptionDecides ==
    Opened =>
      /\ Plain => \A i \in DOMAIN repos : repos[i].id # CmdLine =>
           repos[i].enabled = RepoOn(repos[i].id, repos[i].id \in FromOptions
                                                    \/ Section[repos[i].id].enabled)
      /\ \A name \in {"metalink", "repogpgcheck"} : Active(name) <=> name \in PluginsOn

\* Without --repofromdir the list has @cmdline, every repository of an option and every
\* section of every file, each of them once (TDNFLoadRepoData).
NothingIsLost ==
    Opened /\ Opts({"repofromdir"}) = {} =>
      /\ {repos[i].id : i \in DOMAIN repos} =
           {CmdLine} \cup FromFiles \cup {run.opts[i].arg : i \in Opts({"repofrompath"})}
      /\ \A i, j \in DOMAIN repos : repos[i].id = repos[j].id => i = j

\* A command that goes on to its own work has every repository that was asked for, with
\* all of its metadata, except those that say skip_if_unavailable (TDNFRefreshSack).
LoadedOrSkipped ==
    pc = "done" /\ err = "none" =>
      \A r \in wanted :
        /\ r \in loaded \/ The(r).skip
        /\ r \in loaded /\ The(r).hasmd => store[r].md # None /\ store[r].parts = store[r].md

-----------------------------------------------------------------------------
Replaced(r) == store'[r].md \notin {store[r].md, None}

\* New metadata of a repository with repo_gpgcheck get into the cache only with a signature
\* that is theirs, whatever the mirrors have by the time it is downloaded
\* (TDNFGetRepoMD, TDNFRepoMDCheckSignature).
VerifiedBeforeUse ==
    [][\A r \in FromFiles : Replaced(r) /\ Section[r].gpg /\ "repogpgcheck" \in PluginsOn
         => store'[r].md # Foreign]_vars

Hashes(r) == Link[store[r].ml].hashes
HasHash(r) == \E i \in Compared(Hashes(r)) : Hashes(r)[i].of = store'[r].md
ByMetalink(r) == Section[r].metalink /\ "metalink" \in PluginsOn

\* Of a metalink file whose last hash is one of those that are compared: new metadata
\* have one of its hashes (TDNFCheckRepoMDFileHashFromMetalink).
MatchesMetalink ==
    [][\A r \in FromFiles : Replaced(r) /\ ByMetalink(r)
         => (Len(Hashes(r)) \in Compared(Hashes(r)) => HasHash(r))]_vars

\* The comment of TDNFCheckRepoMDFileHashFromMetalink: "Test until one succeeds or until we
\* run out".  Whatever the file is like, new metadata have one of its best hashes.
HashChecked == [][\A r \in FromFiles : Replaced(r) /\ ByMetalink(r) => HasHash(r)]_vars
=============================================================================
