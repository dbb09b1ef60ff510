------------------------------ MODULE RepoSync ------------------------------
(***************************************************************************)
(* tdnf reposync (TDNFRepoSync, client/api.c): a copy of the packages of   *)
(* the enabled repositories in a directory tree.  With --delete a marker   *)
(* file is left next to each package, and then every package without one   *)
(* is removed, and the markers.  A run may be killed at any step, the      *)
(* network may fail, and the repositories may be published anew meanwhile. *)
(*                                                                         *)
(* The list of packages is the linked list of the code: the positions in   *)
(* the pool of its packages, the one each of them points at (0 at the end) *)
(* and the one of pPkgInfo.                                                *)
(***************************************************************************)
EXTENDS Naturals, FiniteSets, Sequences

CONSTANTS Order,      \* the pool: a sequence of packages, the installed ones first
          RepoOf,     \* the repository of a package, System if it is installed
          Rank,       \* the place of repository and name in the order of strcmp
          Version, Arch,
          Signed,     \* packages whose signature can be verified, once a key is imported or not
          GpgRepos,   \* repositories with gpgcheck
          Arguments,  \* [opt, enabled]: the options and repositories a user may give
          FirstTree,  \* the files the first run finds
          MaxFaults   \* bound: kills, failures and publications together

System == "@System"
Root == "root"
Packages == {Order[i] : i \in DOMAIN Order}
Repos == {RepoOf[p] : p \in Packages} \ {System}

ASSUME RepoSyncConstants ==
    /\ Order \in Seq(Packages)
    /\ \A p \in Packages : Rank[p] \in Nat /\ Version[p] \in Nat
    /\ \A i \in DOMAIN Order, j \in DOMAIN Order :
         /\ Order[i] = Order[j] => i = j
         /\ RepoOf[Order[i]] = System /\ RepoOf[Order[j]] # System => i < j
    /\ \A p \in Packages, q \in Packages :
         Rank[p] = Rank[q] => RepoOf[p] = RepoOf[q] /\ (Version[p] = Version[q] => p = q)
    /\ Root \notin Repos /\ GpgRepos \subseteq Repos
    /\ \A a \in Arguments : a.enabled \subseteq Repos

VARIABLES
    served,     \* the packages the repositories have now
    tree,       \* the package files in the destination
    marks,      \* the files whose .reposync-keep file is in the destination
    dirs,       \* the directories of repositories in the destination
    meta,       \* [Repos -> the packages the metadata in the destination list]
    pc, arg,    \* where the run is, and what it was asked for
    list,       \* pPkgInfos
    todo,       \* the repositories the loops at the end have left
    swept,      \* the files nftw has been at
    err,        \* dwError
    faults,
    note        \* not in the code: what the run found, listed and saw

disk == <<tree, marks, dirs, meta>>
vars == <<served, disk, pc, arg, list, todo, swept, err, faults, note>>

Options == {"arch", "delete", "gpgcheck", "metadata", "newest", "norepopath", "source", "urls"}
NoArg == CHOOSE a \in Arguments : TRUE
NoList == [next |-> <<>>, at |-> 0]
NoNote == [tree |-> {}, marks |-> {}, listed |-> {}, seen |-> {}]

Init ==
    /\ served = Packages
    /\ tree = FirstTree /\ dirs = {f.dir : f \in FirstTree} /\ marks = {} /\ meta = [r \in Repos |-> {}]
    /\ pc = "idle" /\ arg = NoArg /\ list = NoList /\ todo = {} /\ swept = {} /\ err = "none"
    /\ faults = 0 /\ note = NoNote

Opt(o) == o \in arg.opt
Abort(e) == pc' = "done" /\ err' = e
Fault == faults < MaxFaults /\ faults' = faults + 1

-----------------------------------------------------------------------------
(***************************************************************************)
(* The list.  TDNFPkgInfoFilterNewest sorts an array of its elements by    *)
(* repository, name and version, the highest first, and links the first    *)
(* ones of each name.  The pointers of the others and of the last one      *)
(* linked stay as they are, and the caller's list starts where it did.     *)
(***************************************************************************)
First(S) == IF S = {} THEN 0 ELSE CHOOSE i \in S : \A j \in S : i <= j
After(i, S) == First({j \in S : j > i})

Linked_Ring(S) ==    \* mutated: the last one points at the first one
    [next |-> [i \in S |-> IF After(i, S) = 0 THEN First(S) ELSE After(i, S)], at |-> First(S)]
Linked(S) == [next |-> [i \in S |-> After(i, S)], at |-> First(S)]

RankAt(i) == Rank[Order[i]]
VersionAt(i) == Version[Order[i]]
Newest(S) == {i \in S : \A j \in S : RankAt(i) = RankAt(j) => VersionAt(i) >= VersionAt(j)}
Least(S) == CHOOSE j \in S : \A k \in S : RankAt(j) <= RankAt(k)

Link(next, first) ==
    LET above(i) == {j \in first : RankAt(j) > RankAt(i)}
    IN [i \in DOMAIN next |-> IF i \in first /\ above(i) # {} THEN Least(above(i)) ELSE next[i]]

FilterNewest_Oldest(l) ==    \* mutated: sorted the other way around
    [l EXCEPT !.next = Link(@, {i \in DOMAIN @ : \A j \in DOMAIN @ :
                                  RankAt(i) = RankAt(j) => VersionAt(i) <= VersionAt(j)})]
FilterNewest(l) == [l EXCEPT !.next = Link(@, Newest(DOMAIN @))]

Pkg == Order[list.at]
Advance == list' = [list EXCEPT !.at = list.next[@]]

-----------------------------------------------------------------------------
(***************************************************************************)
(* The checks of the options, the refresh and the list of everything.      *)
(***************************************************************************)
Refused(a) ==
    \/ "norepopath" \in a.opt /\ Cardinality(a.enabled) > 1
    \/ "norepopath" \in a.opt /\ "delete" \in a.opt
    \/ "source" \in a.opt /\ "arch" \in a.opt

Start ==
    /\ pc = "idle"
    /\ \E a \in Arguments :
         LET has(p) == RepoOf[p] = System \/ (RepoOf[p] \in a.enabled /\ p \in served)
             all == Linked({i \in DOMAIN Order : has(Order[i])})
         IN /\ arg' = a
            /\ list' = IF "newest" \in a.opt THEN FilterNewest(all) ELSE all
            /\ note' = [NoNote EXCEPT !.tree = tree, !.marks = marks,
                                      !.listed = {p \in Packages : has(p) /\ RepoOf[p] # System}]
            /\ IF Refused(a) THEN Abort("invalid parameter")
               ELSE IF all.at = 0 THEN Abort("no data")
               ELSE pc' = "list" /\ err' = "none"
    /\ UNCHANGED <<served, disk, todo, swept, faults>>

\* packages that are installed, or of another architecture than was asked for
Skipped(p) ==
    \/ RepoOf[p] = System
    \/ Opt("arch") /\ Arch[p] # "noarch"
    \/ ~Opt("arch") /\ Opt("source") /\ Arch[p] # "src"

Here(p) == [dir |-> IF Opt("norepopath") THEN Root ELSE RepoOf[p], pkg |-> p]

Skip ==
    /\ pc = "list" /\ list.at # 0 /\ (Skipped(Pkg) \/ Opt("urls"))
    /\ Advance
    /\ UNCHANGED <<served, disk, pc, arg, todo, swept, err, faults, note>>

\* TDNFDownloadPackageToTree: a file that is there already is taken as it is
Fetch ==
    /\ pc = "list" /\ list.at # 0 /\ ~Skipped(Pkg) /\ ~Opt("urls")
    /\ Here(Pkg) \in tree \/ Pkg \in served
    /\ tree' = tree \cup {Here(Pkg)} /\ dirs' = dirs \cup {Here(Pkg).dir}
    /\ pc' = IF Opt("gpgcheck") THEN "check" ELSE "mark"
    /\ UNCHANGED <<served, marks, meta, arg, list, todo, swept, err, faults, note>>

\* the package is gone from the server, or the network fails
FetchFails ==
    /\ pc = "list" /\ list.at # 0 /\ ~Skipped(Pkg) /\ ~Opt("urls") /\ Here(Pkg) \notin tree
    /\ IF Pkg \in served THEN Fault ELSE UNCHANGED faults
    /\ dirs' = dirs \cup {Here(Pkg).dir}
    /\ Abort("download")
    /\ UNCHANGED <<served, tree, marks, meta, arg, list, todo, swept, note>>

(***************************************************************************)
(* --gpgcheck.  Every error of TDNFGPGCheckPackage ends the run: the       *)
(* return codes of rpm that would remove the file are not what it returns. *)
(***************************************************************************)
Trusted(p) == p \in Signed \/ RepoOf[p] \notin GpgRepos

Check ==
    /\ pc = "check"
    /\ IF Trusted(Pkg) THEN pc' = "mark" /\ err' = err ELSE Abort("gpg")
    /\ UNCHANGED <<served, disk, arg, list, todo, swept, faults, note>>

Marked_Fetched(p) == IF Here(p) \in note.tree THEN {} ELSE {Here(p)}    \* mutated: new files only
Marked(p) == {Here(p)}

Mark ==
    /\ pc = "mark"
    /\ marks' = IF Opt("delete") THEN marks \cup Marked(Pkg) ELSE marks
    /\ note' = [note EXCEPT !.seen = @ \cup {Pkg}]
    /\ Advance
    /\ pc' = "list"
    /\ UNCHANGED <<served, tree, dirs, meta, arg, todo, swept, err, faults>>

-----------------------------------------------------------------------------
(***************************************************************************)
(* --delete: for each enabled repository nftw is at each file once.  A     *)
(* directory that does not exist is an error.                              *)
(***************************************************************************)
EndOfList ==
    /\ pc = "list" /\ list.at = 0
    /\ pc' = IF Opt("delete") THEN "sweep" ELSE "metadata"
    /\ todo' = arg.enabled /\ swept' = {}
    /\ UNCHANGED <<served, disk, arg, list, err, faults, note>>

Unvisited(r) == {f \in tree : f.dir = r} \ swept

\* _rm_rpms
Visit ==
    /\ pc = "sweep"
    /\ \E r \in todo : \E f \in Unvisited(r) :
         /\ swept' = swept \cup {f}
         /\ IF f \in marks THEN marks' = marks \ {f} /\ UNCHANGED tree
            ELSE tree' = tree \ {f} /\ UNCHANGED marks
    /\ UNCHANGED <<served, dirs, meta, pc, arg, list, todo, err, faults, note>>

Swept ==
    /\ pc = "sweep" /\ todo # {}
    /\ \E r \in todo :
         /\ Unvisited(r) = {}
         /\ todo' = todo \ {r}
         /\ IF r \in dirs THEN UNCHANGED <<pc, err>> ELSE Abort("no directory")
    /\ UNCHANGED <<served, disk, arg, list, swept, faults, note>>

SweepEnds ==
    /\ pc = "sweep" /\ todo = {}
    /\ pc' = "metadata" /\ todo' = arg.enabled
    /\ UNCHANGED <<served, disk, arg, list, swept, err, faults, note>>

-----------------------------------------------------------------------------
(***************************************************************************)
(* --download-metadata: what the repositories serve by now, which need not *)
(* be what was listed.                                                     *)
(***************************************************************************)
ServedBy(r) == {p \in served : RepoOf[p] = r}

Metadata ==
    /\ pc = "metadata" /\ Opt("metadata")
    /\ \E r \in todo :
         /\ todo' = todo \ {r}
         /\ meta' = IF Opt("urls") THEN meta ELSE [meta EXCEPT ![r] = ServedBy(r)]
         /\ dirs' = dirs \cup {IF Opt("norepopath") THEN Root ELSE r}
    /\ UNCHANGED <<served, tree, marks, pc, arg, list, swept, err, faults, note>>

MetadataFails ==
    /\ pc = "metadata" /\ Opt("metadata") /\ todo # {}
    /\ Fault /\ Abort("download")
    /\ UNCHANGED <<served, disk, arg, list, todo, swept, note>>

Success ==
    /\ pc = "metadata" /\ (Opt("metadata") => todo = {})
    /\ pc' = "done"
    /\ UNCHANGED <<served, disk, arg, list, todo, swept, err, faults, note>>

\* the end of the process; no option and no list outlive it
Exit ==
    /\ pc' = "idle" /\ arg' = NoArg /\ list' = NoList /\ todo' = {} /\ swept' = {}
    /\ err' = "none" /\ note' = NoNote
    /\ UNCHANGED <<served, disk>>

Finish == pc = "done" /\ Exit /\ UNCHANGED faults
Killed == pc \notin {"idle", "done"} /\ Exit /\ Fault

\* somebody publishes a repository anew: a package is added or withdrawn
Publish ==
    /\ Fault
    /\ \E p \in Packages : /\ RepoOf[p] # System
                           /\ served' = IF p \in served THEN served \ {p} ELSE served \cup {p}
    /\ UNCHANGED <<disk, pc, arg, list, todo, swept, err, note>>

Run == \/ Skip \/ Fetch \/ FetchFails \/ Check \/ Mark \/ EndOfList \/ Visit \/ Swept \/ SweepEnds
       \/ Metadata \/ MetadataFails \/ Success \/ Finish
Next == Start \/ Run \/ Killed \/ Publish

\* a run goes on until it ends; nobody has to start one
Spec == Init /\ [][Next]_vars /\ WF_vars(Run)
=============================================================================
