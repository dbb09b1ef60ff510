---------------------------- MODULE MCRpmTrans ----------------------------
(* Small instances of RpmTrans: two packages of a repository with gpgcheck *)
(* (b has no checksum in its metadata), and a source package of another.   *)
EXTENDS RpmTransProps, TLC
CONSTANTS a, b, s, k1, k2, signed, plain

RepoOfPkgs == (a :> signed) @@ (b :> signed) @@ (s :> plain)
KeyOfPkgs == (a :> k1) @@ (b :> k2) @@ (s :> k1)
WithChecksum == {a, s}
SourcePkgs == {s}
Url(k, remote) == [key |-> k, remote |-> remote]
KeyUrls(urls) == (signed :> urls) @@ (plain :> <<>>)
Conf(gpgcheck, local, keep, urls, level) ==
    [gpgcheck |-> gpgcheck, local |-> local, keep |-> keep, keys |-> KeyUrls(urls),
     level |-> level]
Configurations ==
    {Conf({signed}, {}, FALSE, <<Url(k2, TRUE), Url(k1, FALSE)>>, "digest"),
     Conf({signed}, {}, TRUE, <<Url(k2, FALSE)>>, "signature"),
     Conf({signed}, {plain}, FALSE, <<>>, "digest")}

Option(downloadonly, testonly, yes, nogpg, nosig, nodigest) ==
    [downloadonly |-> downloadonly, testonly |-> testonly, assumeyes |-> yes,
     nogpgcheck |-> nogpg, skipsignature |-> nosig, skipdigest |-> nodigest]
Options ==
    {Option("no", FALSE, FALSE, FALSE, FALSE, FALSE), Option("no", TRUE, TRUE, FALSE, FALSE, FALSE),
     Option("dir", FALSE, TRUE, TRUE, FALSE, FALSE), Option("no", FALSE, TRUE, FALSE, TRUE, TRUE)}
Do(op, p) == [op |-> op, pkg |-> p]
JobList ==
    {<<Do("install", a), Do("install", b)>>, <<Do("install", s), Do("install", a)>>,
     <<Do("upgrade", b), Do("erase", a)>>, <<Do("downgrade", b), Do("install", s)>>,
     <<Do("reinstall", a)>>, <<Do("erase", b)>>}
=============================================================================
