----------------------------- MODULE QueryProps -----------------------------
(***************************************************************************)
(* What the answers of tdnf's queries have to do with each other and with  *)
(* what its commands do.                                                   *)
(***************************************************************************)
EXTENDS Goal

\* a package of the pool obsoletes the name
Obsoleted(n) == \E o \in installed \cup Available : n \in Obsoletes[o]

\* The upgrades check-update lists and the packages "upgrade" queues are found by two different
\* algorithms (SolvFindAllUpDownCandidates, TDNFAddPackagesForUpgrade).  What is queued is
\* listed, and an argument with something listed queues a package of that name.  Versions of an
\* installonly name are listed although they are there, next to an older one, and for a name
\* that a package obsoletes, "upgrade" looks at that package and check-update does not.
UpgradesAgree ==
    pc = "rules" /\ cmd.type = "upgrade" =>
      /\ {Row(Solvable(p, "repos")) : p \in goal} \subseteq CheckUpdates({}).rows
      /\ \A s \in cmd.specs : \A r \in CheckUpdates({s}).rows :
           s.version > 0 \/ r.name \in InstallOnly \/ Obsoleted(r.name) \/ Named(r.name, goal) # {}

\* "updateinfo --summary" counts what "updateinfo --list" lists, kind by kind;
\* --reboot-required apart, which the summary does not know.
SummaryAgrees ==
    \A f \in {g \in Filters : ~g.reboot} : \A k \in {a.kind : a \in Advisories} :
      Summary({}, f)[k] = Cardinality({u \in Updates({}, f) : u[2].kind = k})

\* The transaction that "upgrade --security" and its like show closes every advisory they were
\* asked for: a package with one does not stay, unless it may have several versions, is
\* excluded or obsoleted, or what the advisory names is not in the repositories.
AdvisedIsClosed ==
    pc = "confirm" /\ ~cmd.opt.skip =>
      \A f \in cmd.filter : \A u \in Updates({}, f) :
        \/ u[1] \notin answer
        \/ Name[u[1]] \in InstallOnly \cup cmd.opt.excludes \/ Obsoleted(Name[u[1]])
        \/ Candidates(u[1], TRUE) \cap u[2].packages = {}

\* The answers of the queries fit together although each has an algorithm of its own: what is
\* installed is extra or in a repository, everything is installed or available, what autoremove
\* would take away is not listed as user installed, and the summary of the updates counts the
\* list of them (TDNFList, TDNFRepoQuery, TDNFProvides, TDNFUpdateInfoSummary, TDNFUpdateInfo).
ListsAgree ==
    pc = "idle" =>
      LET rows(R) == {[name |-> r.name, version |-> r.version] : r \in R.rows}
          here == rows(List("installed", {}))
          there == rows(List("available", {}))
          extras == rows(RepoQuery({"extras"}, {}, <<>>, TRUE))
          mine == rows(RepoQuery({"userinstalled"}, {}, <<>>, TRUE))
      IN /\ SummaryAgrees
         /\ extras = here \ there /\ rows(List("all", {})) = here \cup there
         /\ \A p \in AutoInstalledOrphans : [name |-> Name[p], version |-> Version[p]] \notin mine
         /\ \A n \in Names : rows(Provide([name |-> n, version |-> 0])) \subseteq
              rows(RepoQuery({"available"}, {}, [provides |-> {n}], TRUE)) \cup here
=============================================================================
