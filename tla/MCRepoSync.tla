----------------------------- MODULE MCRepoSync ------------------------------
(***************************************************************************)
(* An installed package, a repository with gpgcheck that has two versions  *)
(* of a package and a source package, and one without gpgcheck.            *)
(***************************************************************************)
EXTENDS RepoSyncProps

Repo == [sys |-> "@System", a1 |-> "main", a2 |-> "main", b1 |-> "main", c1 |-> "extra"]
MCRank == [sys |-> 0, a1 |-> 2, a2 |-> 2, b1 |-> 3, c1 |-> 1]
MCVersion == [sys |-> 1, a1 |-> 1, a2 |-> 2, b1 |-> 1, c1 |-> 1]
MCArch == [sys |-> "noarch", a1 |-> "noarch", a2 |-> "noarch", b1 |-> "src", c1 |-> "noarch"]
MCOrder == <<"sys", "c1", "a2", "a1", "b1">>
MCOrderLast == <<"sys", "c1", "a2", "a1">>
MCFirstTree == {[dir |-> "main", pkg |-> "a1"], [dir |-> "extra", pkg |-> "c1"]}
Ask(o, e) == [opt |-> o, enabled |-> e]
Both == {"main", "extra"}
MCArguments ==
    {Ask({"delete"}, {"main"}), Ask({"delete", "newest", "metadata"}, Both),
     Ask({"gpgcheck", "delete"}, Both), Ask({"source", "gpgcheck"}, {"main"}),
     Ask({"norepopath"}, {"main"}), Ask({"norepopath"}, Both), Ask({"norepopath", "delete"}, {"main"}),
     Ask({"arch", "source"}, Both), Ask({"arch", "delete"}, {"extra"}), Ask({"urls"}, Both),
     Ask({"urls", "delete"}, {"extra"})}
MCNewest == {Ask({"newest"}, Both)}
=============================================================================
