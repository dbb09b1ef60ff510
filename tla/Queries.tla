------------------------------ MODULE Queries -------------------------------
(***************************************************************************)
(* What the commands that only look at the pool answer: solv/tdnfquery.c,  *)
(* the entry points of client/api.c that use it, and client/updateinfo.c.  *)
(* A query is a set of solvables; a package that is installed and in a     *)
(* repository is two.  An answer is an error and the rows that are shown.  *)
(***************************************************************************)
EXTENDS Pool

CONSTANTS Advisories   \* [kind, severity, reboot, packages]: updateinfo of the repositories

ASSUME QueryConstants ==
    \A a \in Advisories : a.packages \subseteq Ids /\ a.severity \in Nat /\ a.reboot \in BOOLEAN

Solvable(p, repo) == [pkg |-> p, repo |-> repo]
Solvables == {Solvable(p, "system") : p \in installed} \cup {Solvable(p, "repos") : p \in Available}
Of(S) == {q \in Solvables : q.pkg \in S}
In(repo) == {q \in Solvables : q.repo = repo}

Refused(e) == [err |-> e, rows |-> {}]
Row(q) == [name |-> Name[q.pkg], version |-> Version[q.pkg], repo |-> q.repo]
Shown(R) == [err |-> None, rows |-> {Row(q) : q \in R}]
ShownOr(R, e) == IF R = {} THEN Refused(e) ELSE Shown(R)

-----------------------------------------------------------------------------
(***************************************************************************)
(* list, info, check-update: the scope first, then the arguments.  The     *)
(* scopes for upgrades and downgrades start from the installed packages    *)
(* and look each one's name up in the repositories.                        *)
(***************************************************************************)
Scope(s) == CASE s = "installed" -> In("system") [] s = "available" -> In("repos")
              [] OTHER -> Solvables

Asked(specs, R) == IF specs = {} THEN R ELSE R \cap Of(UNION {Selected(s) : s \in specs})

\* mutated: the installed version counts as an upgrade of itself
Candidates_Equal(p, up) ==
    {q \in Named(Name[p], Available) : IF up THEN ~Higher(p, q) ELSE Higher(p, q)}
Candidates(p, up) ==
    {q \in Named(Name[p], Available) : IF up THEN Higher(q, p) ELSE Higher(p, q)}

InstalledOf(specs) == {q.pkg : q \in Asked(specs, In("system"))}
AllCandidates(S, up) == {Solvable(q, "repos") : q \in UNION {Candidates(p, up) : p \in S}}
UpDown(specs, up) == AllCandidates(InstalledOf(specs), up)

ListQuery(scope, specs) ==
    CASE scope = "upgrades"   -> UpDown(specs, TRUE)
      [] scope = "downgrades" -> UpDown(specs, FALSE)
      [] OTHER                -> Asked(specs, Scope(scope))

\* nothing to list is an error only if there are arguments
List(scope, specs) ==
    LET R == ListQuery(scope, specs) IN IF specs = {} THEN Shown(R) ELSE ShownOr(R, "no match")

CheckUpdates(specs) == Shown(ListQuery("upgrades", specs))

ProvidesQuery(spec) == Of(Selected(spec))
Provide(spec) == ShownOr(ProvidesQuery(spec), "no data")

-----------------------------------------------------------------------------
(***************************************************************************)
(* repoquery.  TDNFRepoQuery picks a scope from the options and applies    *)
(* the filters one after the other.                                        *)
(***************************************************************************)
Extras_Everywhere(R) == {q \in R : q.repo = "system"}    \* mutated: in a repository or not
Extras(R) == {q \in R : q.repo = "system" /\ Solvable(q.pkg, "repos") \notin R}

\* each one that another installed version follows in the rpm database, here by version
Duplicates(R) ==
    {q \in R : q.repo = "system" /\ \E p \in R : /\ p.repo = "system" /\ Higher(p.pkg, q.pkg)
                                              /\ Name[p.pkg] = Name[q.pkg]}

UserInstalledOnly(R) == {q \in R : q.repo = "system" /\ Name[q.pkg] \notin auto}

\* what a key of a package names; "depends" is every kind of requirement
Dependencies(p, key) ==
    CASE key = "provides" -> Provides(p) [] key = "obsoletes" -> Obsoletes[p]
      [] OTHER -> Requires[p]
DependsOn(R, key, names) == {q \in R : Dependencies(q.pkg, key) \cap names # {}}

Contradicts(o) ==
    \/ "extras" \in o /\ o \cap {"installed", "available", "duplicates"} # {}
    \/ "duplicates" \in o /\ o \cap {"installed", "available"} # {}

\* --upgrades and --duplicates come too late to be a scope; userinstalled implies installed
QueryScope(o) ==
    IF "extras" \in o THEN "all"
    ELSE IF o \cap {"installed", "userinstalled"} = {} \/ "available" \in o THEN "available"
    ELSE "installed"

Kept(R, o) ==
    LET S == IF "extras" \in o THEN Extras(R)
             ELSE IF "duplicates" \in o THEN Duplicates(R) ELSE R
    IN IF "userinstalled" \in o THEN UserInstalledOnly(S) ELSE S

\* whatrequires, whatprovides and their like, last: keys is a function from keys to names
RepoQuery(o, specs, keys, history) ==
    LET R == Kept(ListQuery(QueryScope(o), specs), o)
        S == {q \in R : \A k \in DOMAIN keys : q \in DependsOn(R, k, keys[k])}
    IN IF Contradicts(o) THEN Refused("invalid parameter")
       ELSE IF "userinstalled" \in o /\ ~history THEN Refused("history")
       ELSE ShownOr(S, "no data")

-----------------------------------------------------------------------------
(***************************************************************************)
(* updateinfo: for each installed package, the advisories that name a      *)
(* higher version of it, filtered.  An advisory is listed once for each    *)
(* package, and --security makes --sec-severity void.  The summary is a    *)
(* second copy of the loop, without --reboot-required.                     *)
(***************************************************************************)
UpdateAdvisories(p) ==
    {a \in Advisories : \E q \in a.packages : Name[q] = Name[p] /\ Higher(q, p)}

OneAdvisory(a, f) ==
    /\ IF f.security THEN a.kind = "security" ELSE a.severity >= f.severity
    /\ f.reboot => a.reboot

Updates(specs, f) ==
    {u \in InstalledOf(specs) \X Advisories :
        u[2] \in UpdateAdvisories(u[1]) /\ OneAdvisory(u[2], f)}

InSummary(a, f) == IF f.security THEN a.kind = "security" ELSE a.severity >= f.severity

Summary(specs, f) ==
    LET counted == {u \in InstalledOf(specs) \X Advisories :
                       u[2] \in UpdateAdvisories(u[1]) /\ InSummary(u[2], f)}
    IN [k \in {a.kind : a \in Advisories} |-> Cardinality({u \in counted : u[2].kind = k})]

NamesOf_First(a) == {Name[CHOOSE q \in a.packages : TRUE]}    \* mutated: only one of them
NamesOf(a) == {Name[q] : q \in a.packages}
UpdatePackages(f) == UNION {NamesOf(u[2]) : u \in Updates({}, f)}
=============================================================================
