-------------------------------- MODULE Pool --------------------------------
(***************************************************************************)
(* The pool of libsolv as tdnf asks it (solv/tdnfpackage.c): the installed *)
(* packages, those of the enabled repositories, and the flags the history  *)
(* keeps of the installed names.  A package is an id of the pool, the      *)
(* installed and the available solvable of one name and version are one    *)
(* id; a package provides its name and the names it obsoletes.             *)
(***************************************************************************)
EXTENDS Naturals, FiniteSets

CONSTANTS Ids,            \* the packages of the pool
          Name, Version,  \* [Ids -> Names], [Ids -> Nat]
          Requires,       \* [Ids -> SUBSET Names]: names a package requires
          Obsoletes,      \* [Ids -> SUBSET Names]
          Available       \* the packages of the enabled repositories

Names == {Name[p] : p \in Ids}
None == "none"

ASSUME PoolConstants ==
    /\ IsFiniteSet(Ids)
    /\ Name \in [Ids -> Names] /\ Version \in [Ids -> Nat]
    /\ \A p, q \in Ids : Name[p] = Name[q] /\ Version[p] = Version[q] => p = q
    /\ Requires \in [Ids -> SUBSET Names] /\ Obsoletes \in [Ids -> SUBSET Names]
    /\ Available \subseteq Ids

VARIABLES
    installed,  \* the packages of the rpm database
    auto        \* the names flagged as automatically installed, in the history

Provides(p) == {Name[p]} \cup Obsoletes[p]

\* selection_make: a name, or a name and a version; if nothing has the name, what provides it
Selected(spec) ==
    LET pool == installed \cup Available
        found == {p \in pool : Name[p] = spec.name /\ spec.version \in {0, Version[p]}}
    IN IF found = {} /\ spec.version = 0 THEN {p \in pool : spec.name \in Provides(p)}
       ELSE found

\* selection_filter: in one repository or in all but the installed one
Matching(spec, S) == Selected(spec) \cap S
Named(n, S) == {p \in S : Name[p] = n}
Higher(p, q) == Version[p] > Version[q]
Highest(S) == CHOOSE p \in S : \A q \in S : ~Higher(q, p)
Lowest(S) == CHOOSE p \in S : \A q \in S : ~Higher(p, q)
Top(S) == {p \in S : p = Highest(S)}    \* the highest one, or none of none

(***************************************************************************)
(* SolvFindHighestAvailable.  A plain name is looked for in the whole      *)
(* pool, the installed packages included, and a package that obsoletes the *)
(* best match takes its place; anything else (a name with a version) in    *)
(* the repositories.  Both are sets: empty is ERROR_TDNF_NO_MATCH.         *)
(***************************************************************************)
BestAvailable(spec) ==
    LET found == Named(spec.name, installed \cup Available)
        instead == {p \in installed \cup Available :
                      \E best \in Top(found) : Name[best] \in Obsoletes[p]}
    IN IF instead = {} THEN Top(found) ELSE Top(instead)

HighestAvailable(spec) ==
    IF spec.version = 0 THEN BestAvailable(spec)
    ELSE Top(Matching(spec, Available))

\* TDNFPackageGetDowngrade: the highest of the versions below p
Downgrades(p, S) == Top({q \in S : Higher(p, q)})

\* SolvIdIsOrphaned: no other installed package depends on what p provides
Orphaned(p) == \A q \in installed \ {p} : Requires[q] \cap Provides(p) = {}

\* SolvGetAutoInstalledOrphans
AutoInstalledOrphans == {p \in installed : Name[p] \in auto /\ Orphaned(p)}
=============================================================================
