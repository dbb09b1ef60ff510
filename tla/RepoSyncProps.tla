---------------------------- MODULE RepoSyncProps ----------------------------
(***************************************************************************)
(* What a mirror made with tdnf reposync may rely on.                      *)
(***************************************************************************)
EXTENDS RepoSync

\* What the options ask for: of everything listed, or of the newest of each name of a
\* repository, the packages of the architecture.
Wanted ==
    {p \in note.listed :
        /\ ~Skipped(p)
        /\ Opt("newest") =>
             \A q \in note.listed : Rank[q] = Rank[p] => Version[q] <= Version[p]}

\* The packages of the last name in the list, and those of the first one if nothing is
\* installed: older versions of these --newest-only does not skip.
EndNames ==
    {p \in note.listed :
        /\ Opt("newest")
        /\ \/ \A q \in note.listed : Rank[q] <= Rank[p]
           \/ (\A q \in Packages : RepoOf[q] # System) /\ \A q \in note.listed : Rank[q] >= Rank[p]}

\* The pool lists repositories and names in the order of strcmp.
InOrder ==
    \A i \in DOMAIN list.next, j \in DOMAIN list.next : i < j => RankAt(i) <= RankAt(j)

\* When reposync --delete succeeds, the directories of the repositories it was run for hold the
\* packages it was asked for and nothing else, and no marker is left next to a package.  What a
\* killed or failed run had marked is left over, until the next run, and what TouchesNewest is
\* about.  With --newest-only the repositories must have been loaded in the order of their ids.
DeleteIsExact ==
    pc = "done" /\ err = "none" /\ Opt("delete") /\ ~Opt("urls") /\ (Opt("newest") => InOrder) =>
      LET mine == {f \in tree : f.dir \in arg.enabled}
          spared == note.tree \cap note.marks
      IN /\ {Here(p) : p \in Wanted} \subseteq mine
         /\ mine \subseteq {Here(p) : p \in Wanted \cup EndNames} \cup spared
         /\ mine \cap marks = {}

\* No step removes a package that the run has just listed and taken, or one from the directory
\* of a repository that is not enabled, and nothing is removed without --delete.
FreshIsKept ==
    [][\A f \in tree \ tree' :
         /\ Opt("delete") /\ f.dir \in arg.enabled
         /\ f \notin {Here(p) : p \in note.seen}]_vars

\* Every run of reposync ends, filtered or not, when the repositories were loaded in the order
\* of their ids.  In another order TDNFPkgInfoFilterNewest can leave the pointer of the last
\* element it links at an earlier one, and the loop over the packages goes round for ever.
Ends == (pc # "idle" /\ (Opt("newest") => InOrder)) ~> (pc = "idle")

\* The linked list will only touch the newest version of a package
\* (client/packageutils.c:536).
TouchesNewest == Opt("newest") => note.seen \subseteq Wanted
=============================================================================
