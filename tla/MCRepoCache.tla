---------------------------- MODULE MCRepoCache -----------------------------
(* Small instances of RepoCache. *)
EXTENDS RepoCacheProps, TLC
CONSTANTS root, user, primary, updateinfo

Privileged == {root}
Conf(source, expire, unique, keep, shared) ==
    [source |-> source, expire |-> expire, skip |-> keep, unique |-> unique,
     keep |-> keep, shared |-> shared]
Sources == {Conf("baseurl", 0, TRUE, FALSE, TRUE), Conf("baseurl", -1, TRUE, TRUE, FALSE),
            Conf("mirrorlist", 0, TRUE, FALSE, FALSE), Conf("metalink", -1, TRUE, TRUE, FALSE),
            Conf("baseurl", 0, FALSE, TRUE, FALSE)}
=============================================================================
