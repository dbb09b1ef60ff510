------------------------------ MODULE MCSession ------------------------------
(***************************************************************************)
(* A repository with repo_gpgcheck and two mirrors, one with a metalink    *)
(* file of three mirrors, one that is disabled, and two of options.  The   *)
(* sessions differ in the plugins, the .repo files and the options.        *)
(***************************************************************************)
EXTENDS SessionProps, TLC

Repository(e, s, g, m, p) == [enabled |-> e, skip |-> s, gpg |-> g, metalink |-> m, priority |-> p]
MCSection ==
    [main |-> Repository(TRUE, FALSE, TRUE, FALSE, 50),
     link |-> Repository(TRUE, TRUE, FALSE, TRUE, 10),
     extra |-> Repository(FALSE, TRUE, TRUE, TRUE, 50)]
MCBase == [main |-> <<"m1", "m2">>, link |-> <<>>, extra |-> <<>>, path |-> <<"m2">>, dir |-> <<"m1">>]
MCGlob == ("*" :> (DOMAIN MCBase \cup {CmdLine, "metalink", "repogpgcheck"})) @@ ("l*" :> {"link"})

Hash(t, ok, v) == [type |-> t, valid |-> ok, of |-> v]
Url(m, p) == [mirror |-> m, preference |-> p]
MCUrls == <<Url("m1", 50), Url("m2", 90), Url("m3", 50)>>
MCLink ==
    <<[hashes |-> <<Hash(1, TRUE, 2), Hash(5, FALSE, 1), Hash(5, TRUE, 1)>>, urls |-> MCUrls],
      [hashes |-> <<Hash(5, TRUE, 2), Hash(Unsupported, TRUE, 2)>>, urls |-> MCUrls]>>

Conf(n, s, l) == [name |-> n, state |-> s, lib |-> l]
Both == <<Conf("metalink", "on", "loads"), Conf("repogpgcheck", "on", "loads")>>
File(ids) == [readable |-> TRUE, ids |-> ids]
Files == <<File(<<"main", "link">>), File(<<"extra">>)>>
Option(n, a) == [name |-> n, arg |-> a]
S(c, p, f, o) == [conf |-> c, plugins |-> p, files |-> f, opts |-> o]
MCSessions ==
    {S("dir", Both, Files, <<>>),
     S("dir", Both, Files, <<Option("refresh", "")>>),
     S("dir", Both, Files, <<Option("cacheonly", "")>>),
     S("dir", Both, Files, <<Option("noplugins", ""), Option("repo", "main")>>),
     S("dir", Both, Files, <<Option("disableplugin", "*"), Option("enableplugin", "metalink"),
                             Option("repo", "link"), Option("repo", "extra"),
                             Option("disablerepo", "extra")>>),
     S("dir", <<Conf("repogpgcheck", "off", "loads"), Conf("metalink", "on", "missing")>>, Files,
       <<Option("enableplugin", "repogpgcheck"), Option("disablerepo", "l*"),
         Option("enablerepo", "extra")>>),
     S("missing", <<>>, Files, <<Option("repofrompath", "path"), Option("disablerepo", "*"),
                                 Option("enablerepo", "path")>>),
     S("off", <<>>, Files, <<Option("repofromdir", "dir"), Option("repofrompath", "path")>>),
     S("off", <<>>, Files, <<Option("repofrompath", "main")>>),
     S("off", <<>>, Files, <<Option("repofrompath", "nowhere")>>),
     S("off", <<>>, <<File(<<"main">>), [readable |-> FALSE, ids |-> <<>>]>>, <<>>),
     S("dir", <<>>, Files, <<>>),
     S("dir", <<Conf("metalink", "unreadable", "loads")>>, Files, <<>>),
     S("dir", <<Conf("repogpgcheck", "on", "fails")>>, Files, <<>>)}
=============================================================================
