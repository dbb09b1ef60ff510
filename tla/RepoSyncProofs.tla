--------------------------- MODULE RepoSyncProofs ---------------------------
(***************************************************************************)
(* What is proved about RepoSync, for any pool, repositories, options and  *)
(* files found: reposync --delete never removes what it has just taken.    *)
(*                                                                         *)
(* The invariant follows the markers: while the list is worked through,    *)
(* every package the run has seen has one; while the files are swept, it   *)
(* has one or nftw has been at its file.                                   *)
(***************************************************************************)
EXTENDS RepoSyncProps, FiniteSetTheorems, WellFoundedInduction, TLAPS

IsNote == note = [tree |-> note.tree, marks |-> note.marks, listed |-> note.listed,
                  seen |-> note.seen]
SeenInv == pc \in {"list", "check", "mark"} /\ Opt("delete") =>
             \A p \in note.seen : Here(p) \in marks
SweepInv == pc = "sweep" => /\ Opt("delete") /\ todo \subseteq arg.enabled
                            /\ \A p \in note.seen : Here(p) \in marks \cup swept
Inv == IsNote /\ SeenInv /\ SweepInv

LEMMA InitInv == Init => Inv
BY DEF Init, Inv, IsNote, SeenInv, SweepInv, NoNote

-----------------------------------------------------------------------------
(***************************************************************************)
(* The steps that make the markers, and those that use them up.            *)
(***************************************************************************)
LEMMA StartInv == Start => Inv'
<1> SUFFICES ASSUME Start PROVE Inv'
  OBVIOUS
<1>1. PICK listed : note' = [NoNote EXCEPT !.tree = tree, !.marks = marks, !.listed = listed]
  BY Zenon DEF Start
<1>2. IsNote' /\ note'.seen = {}
  BY <1>1 DEF IsNote, NoNote
<1>3. pc' \in {"list", "done"}
  BY DEF Start, Abort
<1>4. QED
  BY <1>2, <1>3 DEF Inv, SeenInv, SweepInv

LEMMA MarkInv == Inv /\ Mark => Inv'
<1> SUFFICES ASSUME Inv, Mark PROVE Inv'
  OBVIOUS
<1>1. note' = [note EXCEPT !.seen = note.seen \cup {Pkg}] /\ arg' = arg /\ pc' = "list"
  BY DEF Mark
<1>2. IsNote' /\ note'.seen = note.seen \cup {Pkg}
  BY <1>1 DEF Inv, IsNote
<1>3. ASSUME Opt("delete") PROVE \A p \in note'.seen : Here(p) \in marks'
  BY <1>2, <1>3 DEF Inv, SeenInv, Mark, Marked
<1>4. QED
  BY <1>1, <1>2, <1>3 DEF Inv, SeenInv, SweepInv, Opt, Here

\* the end of the list, and each file that nftw comes to
LEMMA SweepSteps == Inv /\ (EndOfList \/ Visit \/ Swept \/ SweepEnds) => Inv'
<1> SUFFICES ASSUME Inv, EndOfList \/ Visit \/ Swept \/ SweepEnds PROVE Inv'
  OBVIOUS
<1>1. IsNote' /\ note' = note /\ arg' = arg
  BY DEF EndOfList, Visit, Swept, SweepEnds, Inv, IsNote
<1>2. CASE EndOfList
  BY <1>1, <1>2 DEF EndOfList, disk, Inv, SeenInv, SweepInv, Opt, Here
<1>3. CASE Visit
  <2>1. pc = "sweep" /\ pc' = pc /\ todo' = todo /\ marks \subseteq marks' \cup swept'
        /\ swept \subseteq swept'
    BY <1>3 DEF Visit
  <2>2. QED
    BY <1>1, <2>1 DEF Inv, SeenInv, SweepInv, Opt, Here
<1>4. CASE Swept
  <2>1. pc' \in {"sweep", "done"} /\ todo' \subseteq todo /\ marks' = marks /\ swept' = swept
    BY <1>4 DEF Swept, Abort, disk
  <2>2. pc = "sweep"
    BY <1>4 DEF Swept
  <2>3. QED
    BY <1>1, <2>1, <2>2 DEF Inv, SeenInv, SweepInv, Opt, Here
<1>5. CASE SweepEnds
  BY <1>1, <1>5 DEF SweepEnds, Inv, SeenInv, SweepInv
<1>6. QED
  BY <1>2, <1>3, <1>4, <1>5

\* the other steps leave the markers and what was seen alone, or end the run
LEMMA OtherSteps ==
  ASSUME Inv, Skip \/ Fetch \/ FetchFails \/ Check \/ Metadata \/ MetadataFails \/ Success \/ Publish
              \/ Finish \/ Killed \/ UNCHANGED vars
  PROVE  Inv'
<1>1. CASE Finish \/ Killed
  BY <1>1 DEF Finish, Killed, Exit, NoNote, Inv, IsNote, SeenInv, SweepInv
<1>2. CASE Skip \/ Fetch \/ FetchFails \/ Check \/ Metadata \/ MetadataFails \/ Success \/ Publish
           \/ UNCHANGED vars
  <2>1. /\ note' = note /\ arg' = arg /\ marks' = marks /\ swept' = swept
        /\ \/ pc' = pc /\ todo' = todo
           \/ pc \in {"list", "check"} /\ pc' \in {"check", "mark", "done"}
           \/ pc = "metadata" /\ pc' \in {"metadata", "done"}
    BY <1>2 DEF Skip, Fetch, FetchFails, Check, Metadata, MetadataFails, Success, Publish, Abort,
                disk, vars
  <2>2. QED
    BY <2>1 DEF Inv, IsNote, SeenInv, SweepInv, Opt, Here
<1>3. QED
  BY <1>1, <1>2

\* Every package the run has seen keeps its marker until nftw has been at its file: the
\* inductive invariant (TDNFRepoSync, _rm_rpms).
THEOREM Invariant == Spec => []Inv
<1>1. Init => Inv
  BY InitInv
<1>2. Inv /\ [Next]_vars => Inv'
  BY StartInv, MarkInv, SweepSteps, OtherSteps DEF Next, Run
<1>3. QED
  BY <1>1, <1>2, PTL DEF Spec

-----------------------------------------------------------------------------
\* What reposync has just listed and taken it does not remove, nor anything else outside of the
\* directories of the enabled repositories or without --delete (_rm_rpms).
THEOREM FreshIsKeptAlways == Spec => FreshIsKept
<1> DEFINE Rightly == \A f \in tree \ tree' : /\ Opt("delete") /\ f.dir \in arg.enabled
                                              /\ f \notin {Here(p) : p \in note.seen}
<1>1. Inv /\ [Next]_vars => [Rightly]_vars
  <2> SUFFICES ASSUME Inv, Next, NEW f \in tree \ tree'
               PROVE  /\ Opt("delete") /\ f.dir \in arg.enabled
                      /\ f \notin {Here(p) : p \in note.seen}
    OBVIOUS
  <2>1. Visit
    BY DEF Next, Run, Start, Skip, Fetch, FetchFails, Check, Mark, EndOfList, Swept, SweepEnds,
           Metadata, MetadataFails, Success, Finish, Killed, Publish, Exit, disk
  <2>2. PICK r \in todo : f \in Unvisited(r) /\ f \notin marks
    BY <2>1 DEF Visit
  <2>3. f.dir = r /\ f \notin swept
    BY <2>2 DEF Unvisited
  <2>4. QED
    BY <2>1, <2>2, <2>3 DEF Visit, Inv, SweepInv
<1>2. QED
  BY <1>1, Invariant, PTL DEF FreshIsKept, Spec

-----------------------------------------------------------------------------
(***************************************************************************)
(* The list.  Way says where a walk along the pointers can be, when the    *)
(* positions in S are linked and those in sel are to be reached: at one of *)
(* sel, before all of them among the first name, or behind all of them     *)
(* among the last name.                                                    *)
(***************************************************************************)
Ordered(S) == \A i \in S, j \in S : i < j => RankAt(i) <= RankAt(j)

Way(i, S, sel) ==
    \/ i = 0 \/ i \in sel
    \/ i \in S /\ (\A n \in sel : i < n) /\ \A j \in S : RankAt(i) <= RankAt(j)
    \/ i \in S /\ (\A n \in sel : n < i) /\ \A j \in S : RankAt(j) <= RankAt(i)

\* the next one is on the way too, and the step passes over none of sel
Step(i, k, S, sel) == Way(k, S, sel) /\ \A n \in sel : (k = 0 \/ n < k) => n <= i

LEMMA LeastOf ==
  ASSUME NEW T, T \subseteq Nat, T # {}
  PROVE  \E x \in T : \A y \in T : x <= y
<1> DEFINE R == OpToRel(<, Nat)
<1>1. IsWellFoundedOn(R, Nat)
  BY NatLessThanWellFounded
<1>2. \A x, y \in Nat : y < x => <<y, x>> \in R
  BY DEF OpToRel
<1> HIDE DEF R
<1>3. PICK x \in T : \A y \in T : ~ (<<y, x>> \in R)
  BY <1>1, WFMin
<1>4. \A y \in T : x \in Nat /\ y \in Nat /\ ~(y < x)
  BY <1>2, <1>3
<1>5. QED
  BY <1>4

\* the positions of a list are numbers, and each has a rank and a version
LEMMA PositionFacts ==
  /\ DOMAIN Order \subseteq Nat \ {0} /\ IsFiniteSet(DOMAIN Order)
  /\ \A i \in DOMAIN Order : RankAt(i) \in Nat /\ VersionAt(i) \in Nat /\ Order[i] \in Packages
<1>1. Order \in Seq(Packages) /\ \A p \in Packages : Rank[p] \in Nat /\ Version[p] \in Nat
  BY RepoSyncConstants
<1>2. Len(Order) \in Nat /\ DOMAIN Order = 1..Len(Order)
  BY <1>1
<1>3. IsFiniteSet(1..Len(Order))
  BY <1>2, FS_Interval
<1>4. QED
  BY <1>1, <1>2, <1>3 DEF RankAt, VersionAt

LEMMA FirstIs ==
  ASSUME NEW S, S \subseteq Nat, S # {}
  PROVE  First(S) \in S /\ \A j \in S : First(S) <= j
BY LeastOf DEF First

LEMMA AfterIs ==
  ASSUME NEW S, S \subseteq Nat \ {0}, NEW i \in Nat
  PROVE  \/ After(i, S) = 0 /\ \A j \in S : j <= i
         \/ After(i, S) \in S /\ After(i, S) > i /\ \A j \in S : j > i => After(i, S) <= j
<1> DEFINE T == {j \in S : j > i}
<1>1. After(i, S) = First(T)
  BY DEF After
<1>2. CASE T = {}
  BY <1>1, <1>2 DEF First
<1>3. CASE T # {}
  <2>1. First(T) \in T /\ \A j \in T : First(T) <= j
    BY <1>3, FirstIs
  <2>2. QED
    BY <1>1, <2>1
<1>4. QED
  BY <1>2, <1>3

\* of the packages of a name, one is the newest, and only one
LEMMA NewestExists ==
  ASSUME NEW S, S \subseteq DOMAIN Order, NEW i \in S
  PROVE  \E n \in Newest(S) : RankAt(n) = RankAt(i)
<1> DEFINE T == {j \in S : RankAt(j) = RankAt(i)}
           Above(p) == {q \in T : VersionAt(q) > VersionAt(p)}
           Counts == {Cardinality(Above(p)) : p \in T}
<1>0. IsFiniteSet(T) /\ i \in T /\ \A p \in T : VersionAt(p) \in Nat
  BY PositionFacts, FS_Subset
<1>1. \A p \in T : IsFiniteSet(Above(p)) /\ Cardinality(Above(p)) \in Nat
  <2> HIDE DEF T
  <2>1. \A p \in T : Above(p) \in SUBSET T
    OBVIOUS
  <2>2. QED
    BY <1>0, <2>1, FS_Subset, FS_CardinalityType
<1>2. \A p \in T, q \in T : q \in Above(p) => Cardinality(Above(q)) < Cardinality(Above(p))
  <2> SUFFICES ASSUME NEW p \in T, NEW q \in T, q \in Above(p)
               PROVE  Cardinality(Above(q)) < Cardinality(Above(p))
    OBVIOUS
  <2> HIDE DEF T
  <2>1. Above(q) \in SUBSET Above(p) /\ q \notin Above(q)
    BY <1>0
  <2>2. Above(p) # Above(q)
    BY <2>1
  <2> HIDE DEF Above
  <2>3. Cardinality(Above(q)) <= Cardinality(Above(p)) /\ Cardinality(Above(q)) # Cardinality(Above(p))
    BY <1>1, <2>1, <2>2, FS_Subset
  <2>4. QED
    BY <1>1, <2>3
<1> HIDE DEF Above
<1>3. PICK p \in T : \A q \in T : Cardinality(Above(p)) <= Cardinality(Above(q))
  <2>1. Counts \subseteq Nat /\ Counts # {}
    BY <1>0, <1>1
  <2>2. \E x \in Counts : \A y \in Counts : x <= y
    BY <2>1, LeastOf
  <2>3. QED
    BY <2>2
<1>4. \A q \in T : q \notin Above(p)
  BY <1>1, <1>2, <1>3
<1>5. \A q \in T : VersionAt(p) >= VersionAt(q)
  BY <1>0, <1>4 DEF Above
<1>6. QED
  BY <1>5 DEF Newest

LEMMA OneNewest ==
  ASSUME NEW S, S \subseteq DOMAIN Order, NEW m \in Newest(S), NEW n \in Newest(S),
         RankAt(m) = RankAt(n)
  PROVE  m = n
<1>1. m \in S /\ n \in S /\ VersionAt(m) >= VersionAt(n) /\ VersionAt(n) >= VersionAt(m)
  BY DEF Newest
<1>2. VersionAt(m) = VersionAt(n)
  BY <1>1, PositionFacts
<1>3. Order[m] = Order[n]
  BY <1>1, <1>2, PositionFacts, RepoSyncConstants DEF RankAt, VersionAt
<1>4. QED
  BY <1>1, <1>3, RepoSyncConstants

LEMMA LeastIs ==
  ASSUME NEW S, S \subseteq DOMAIN Order, S # {}
  PROVE  Least(S) \in S /\ \A k \in S : RankAt(Least(S)) <= RankAt(k)
<1> DEFINE T == {RankAt(j) : j \in S}
<1>1. T \subseteq Nat /\ T # {}
  BY PositionFacts
<1>2. \E x \in T : \A y \in T : x <= y
  BY <1>1, LeastOf
<1>3. \E j \in S : \A k \in S : RankAt(j) <= RankAt(k)
  BY <1>2
<1>4. QED
  BY <1>3 DEF Least

\* the list of everything: from one position to the next
LEMMA PlainStep ==
  ASSUME NEW S, S \subseteq DOMAIN Order, NEW i \in S
  PROVE  Step(i, After(i, S), S, S)
<1>1. S \subseteq Nat \ {0} /\ i \in Nat
  BY PositionFacts
<1>2. \/ After(i, S) = 0 /\ \A j \in S : j <= i
      \/ After(i, S) \in S /\ After(i, S) > i /\ \A j \in S : j > i => After(i, S) <= j
  BY <1>1, AfterIs
<1>3. QED
  BY <1>1, <1>2 DEF Step, Way

\* the filtered list, from one of the newest: to the newest of the next name, or from the last
\* of them on to what follows it in the list of everything
LEMMA ChosenStep ==
  ASSUME NEW S, S \subseteq DOMAIN Order, Ordered(S), NEW i \in Newest(S),
         NEW above, above = {j \in Newest(S) : RankAt(j) > RankAt(i)},
         NEW k, k = IF above # {} THEN Least(above) ELSE After(i, S)
  PROVE  Step(i, k, S, Newest(S))
<1>1. Newest(S) \subseteq S /\ S \subseteq Nat \ {0} /\ i \in Nat /\ \A j \in S : RankAt(j) \in Nat
  BY PositionFacts DEF Newest
<1>2. ASSUME NEW n \in Newest(S), n > i PROVE RankAt(n) > RankAt(i)
  <2>1. RankAt(i) <= RankAt(n)
    BY <1>1, <1>2 DEF Ordered
  <2>2. RankAt(i) # RankAt(n)
    BY <1>1, <1>2, OneNewest
  <2>3. QED
    BY <1>1, <2>1, <2>2
<1>3. CASE above # {}
  <2>1. k \in above /\ \A m \in above : RankAt(k) <= RankAt(m)
    BY <1>1, <1>3, LeastIs
  <2>2. ASSUME NEW n \in Newest(S), n < k, n > i PROVE FALSE
    <3>1. RankAt(n) <= RankAt(k) /\ n \in above
      BY <1>1, <1>2, <2>1, <2>2 DEF Ordered
    <3>2. RankAt(n) = RankAt(k)
      BY <1>1, <2>1, <3>1
    <3>3. n = k
      BY <2>1, <3>1, <3>2, OneNewest
    <3>4. QED
      BY <1>1, <2>2, <3>3
  <2>3. k # 0 /\ k \in Newest(S)
    BY <1>1, <2>1
  <2>4. QED
    BY <1>1, <2>2, <2>3 DEF Step, Way
<1>4. CASE above = {}
  <2>1. \/ k = 0 /\ \A j \in S : j <= i
        \/ k \in S /\ k > i /\ \A j \in S : j > i => k <= j
    BY <1>1, <1>4, AfterIs
  <2>2. \A n \in Newest(S) : n <= i
    BY <1>1, <1>2, <1>4
  <2>3. ASSUME k # 0 PROVE \A j \in S : RankAt(j) <= RankAt(k)
    <3> SUFFICES ASSUME NEW j \in S PROVE RankAt(j) <= RankAt(k)
      OBVIOUS
    <3>1. RankAt(i) <= RankAt(k)
      BY <1>1, <2>1, <2>3 DEF Ordered
    <3>2. PICK n \in Newest(S) : RankAt(n) = RankAt(j)
      BY NewestExists
    <3>3. RankAt(n) <= RankAt(i)
      BY <1>1, <1>4
    <3>4. QED
      BY <1>1, <2>1, <2>3, <3>1, <3>2, <3>3
  <2>4. QED
    BY <1>1, <2>1, <2>2, <2>3 DEF Step, Way
<1>5. QED
  BY <1>3, <1>4

\* the filtered list, from a position whose pointer stays as it was
LEMMA StrayStep ==
  ASSUME NEW S, S \subseteq DOMAIN Order, Ordered(S), NEW i \in S, i \notin Newest(S),
         Way(i, S, Newest(S))
  PROVE  Step(i, After(i, S), S, Newest(S))
<1> DEFINE k == After(i, S)
<1>1. Newest(S) \subseteq S /\ S \subseteq Nat \ {0} /\ i \in Nat /\ \A j \in S : RankAt(j) \in Nat
  BY PositionFacts DEF Newest
<1>2. \/ k = 0 /\ \A j \in S : j <= i
      \/ k \in S /\ k > i /\ \A j \in S : j > i => k <= j
  BY <1>1, AfterIs
<1> HIDE DEF k
<1>3. CASE (\A n \in Newest(S) : i < n) /\ \A j \in S : RankAt(i) <= RankAt(j)
  <2>1. PICK n \in Newest(S) : RankAt(n) = RankAt(i)
    BY NewestExists
  <2>2. k \in S /\ k # 0 /\ \A m \in Newest(S) : k <= m
    BY <1>1, <1>2, <1>3, <2>1
  <2>3. RankAt(k) <= RankAt(n)
    BY <1>1, <2>1, <2>2 DEF Ordered
  <2>4. \A j \in S : RankAt(k) <= RankAt(j)
    BY <1>1, <1>3, <2>1, <2>2, <2>3
  <2>5. k \in Newest(S) \/ \A m \in Newest(S) : k < m
    BY <1>1, <2>2
  <2>6. Way(k, S, Newest(S))
    BY <2>2, <2>4, <2>5 DEF Way
  <2>7. \A m \in Newest(S) : ~(m < k)
    BY <1>1, <2>2
  <2>8. QED
    BY <2>2, <2>6, <2>7 DEF Step, k
<1>4. CASE (\A n \in Newest(S) : n < i) /\ \A j \in S : RankAt(j) <= RankAt(i)
  <2>1. ASSUME k # 0 PROVE (\A n \in Newest(S) : n < k) /\ \A j \in S : RankAt(j) <= RankAt(k)
    <3>1. k \in S /\ k > i /\ RankAt(i) <= RankAt(k)
      BY <1>1, <1>2, <2>1 DEF Ordered
    <3>2. QED
      BY <1>1, <1>4, <3>1
  <2>2. Way(k, S, Newest(S))
    BY <1>2, <2>1 DEF Way
  <2>3. \A n \in Newest(S) : n <= i
    BY <1>1, <1>4
  <2>4. QED
    BY <2>2, <2>3 DEF Step, k
<1>5. QED
  BY <1>1, <1>3, <1>4 DEF Way

-----------------------------------------------------------------------------
(***************************************************************************)
(* What a run of reposync --delete leaves.  While the list is walked, what *)
(* was to be reached has been seen or lies ahead; while the directories    *)
(* are swept, a file that nftw was at has lost its marker and is fresh or  *)
(* was spared, and a directory that is done has no other files.            *)
(***************************************************************************)
Walking == pc \in {"list", "check", "mark"}
Past == pc \in {"sweep", "metadata"} \/ (pc = "done" /\ err = "none")

Positions == {i \in DOMAIN Order : RepoOf[Order[i]] = System \/ Order[i] \in note.listed}
Chosen == IF Opt("newest") THEN Newest(Positions) ELSE Positions
Chain == IF Opt("newest") THEN Link(Linked(Positions).next, Newest(Positions))
         ELSE Linked(Positions).next
Sorted == ~Opt("urls") /\ (Opt("newest") => InOrder)
Fresh == {Here(p) : p \in note.seen}

ListInv ==
    pc # "idle" =>
      /\ list = [next |-> Chain, at |-> list.at]
      /\ \A p \in note.listed : p \in Packages /\ RepoOf[p] # System /\ RepoOf[p] \in arg.enabled

PlaceInv ==
    Walking /\ Sorted =>
      /\ Way(list.at, Positions, Chosen)
      /\ \A n \in Chosen : (list.at = 0 \/ n < list.at) /\ ~Skipped(Order[n]) => Order[n] \in note.seen
      /\ note.seen \subseteq Wanted \cup EndNames

TakenInv ==
    pc \in {"check", "mark"} => list.at # 0 /\ ~Skipped(Pkg) /\ ~Opt("urls") /\ Here(Pkg) \in tree

PastInv == Past /\ Sorted => Wanted \subseteq note.seen /\ note.seen \subseteq Wanted \cup EndNames

FileInv ==
    (Walking \/ Past) /\ Opt("delete") =>
      /\ ~Opt("norepopath")
      /\ Fresh \subseteq tree
      /\ marks \subseteq note.marks \cup Fresh
      /\ \A f \in tree : f \in note.tree \/ f \in Fresh \/ (pc \in {"check", "mark"} /\ f = Here(Pkg))

SweptInv ==
    Past /\ Opt("delete") =>
      /\ swept \cap marks = {}
      /\ \A f \in swept \cap tree : f \in Fresh \/ f \in note.tree \cap note.marks
      /\ \A f \in tree : f.dir \in arg.enabled => f \in swept \/ (pc = "sweep" /\ f.dir \in todo)

Mirror == ListInv /\ PlaceInv /\ TakenInv /\ PastInv /\ FileInv /\ SweptInv

LEMMA ChainFacts ==
  /\ Positions \subseteq DOMAIN Order /\ Chosen \subseteq Positions
  /\ DOMAIN Chain = Positions
  /\ ~Opt("newest") => \A i \in Positions : Chain[i] = After(i, Positions)
  /\ Opt("newest") => \A i \in Positions :
       Chain[i] = LET above == {j \in Newest(Positions) : RankAt(j) > RankAt(i)}
                  IN IF i \in Newest(Positions) /\ above # {} THEN Least(above) ELSE After(i, Positions)
<1>1. Positions \subseteq DOMAIN Order /\ Chosen \subseteq Positions
  BY DEF Positions, Chosen, Newest
<1>2. Linked(Positions).next = [i \in Positions |-> After(i, Positions)]
  BY DEF Linked
<1>3. QED
  BY <1>1, <1>2 DEF Chain, Link

\* one step along the list
LEMMA ListStep ==
  ASSUME ListInv, PlaceInv, Walking, Sorted, list.at # 0
  PROVE  /\ list.at \in Positions
         /\ Step(list.at, list.next[list.at], Positions, Chosen)
<1> DEFINE i == list.at
           P == Positions
<1>1. Way(i, P, Chosen) /\ list.next = Chain
  BY DEF PlaceInv, ListInv, Walking
<1>2. i \in P /\ P \subseteq DOMAIN Order
  BY <1>1, ChainFacts DEF Way
<1> HIDE DEF i, P
<1>3. CASE ~Opt("newest")
  <2>1. Chosen = P /\ Chain[i] = After(i, P)
    BY <1>2, <1>3, ChainFacts DEF Chosen, P
  <2>2. QED
    BY <1>1, <1>2, <2>1, PlainStep DEF i, P
<1>4. CASE Opt("newest")
  <2>1. Chosen = Newest(P) /\ Ordered(P)
    BY <1>1, <1>4, ChainFacts DEF Chosen, P, Sorted, InOrder, Ordered
  <2>2. DEFINE above == {j \in Newest(P) : RankAt(j) > RankAt(i)}
  <2>3. Chain[i] = IF i \in Newest(P) /\ above # {} THEN Least(above) ELSE After(i, P)
    BY <1>2, <1>4, ChainFacts DEF P
  <2> HIDE DEF above
  <2>4. CASE i \in Newest(P)
    <3>1. Chain[i] = IF above # {} THEN Least(above) ELSE After(i, P)
      BY <2>3, <2>4
    <3>2. Step(i, Chain[i], P, Newest(P))
      BY <1>2, <2>1, <2>4, <3>1, ChosenStep DEF above
    <3>3. QED
      BY <1>1, <1>2, <2>1, <3>2 DEF i, P
  <2>5. CASE i \notin Newest(P)
    <3>1. Chain[i] = After(i, P)
      BY <2>3, <2>5
    <3>2. Step(i, Chain[i], P, Newest(P))
      BY <1>1, <1>2, <2>1, <2>5, <3>1, StrayStep
    <3>3. QED
      BY <1>1, <1>2, <2>1, <3>2 DEF i, P
  <2>6. QED
    BY <2>4, <2>5
<1>5. QED
  BY <1>3, <1>4

\* what is chosen and not skipped is what was wanted
LEMMA ChosenIsWanted ==
  ASSUME ListInv, pc # "idle"
  PROVE  /\ \A n \in Chosen : ~Skipped(Order[n]) => Order[n] \in Wanted
         /\ \A p \in Wanted : \E n \in Chosen : Order[n] = p
<1>1. \A q \in note.listed : q \in Packages /\ RepoOf[q] # System
  BY DEF ListInv
<1>2. \A q \in note.listed : \E j \in Positions : Order[j] = q
  BY <1>1 DEF Packages, Positions
<1>3. ASSUME NEW n \in Chosen, ~Skipped(Order[n]) PROVE Order[n] \in Wanted
  <2>1. n \in Positions /\ Order[n] \in note.listed
    BY <1>3, ChainFacts DEF Positions, Skipped
  <2>2. ASSUME Opt("newest"), NEW q \in note.listed, Rank[q] = Rank[Order[n]]
        PROVE  Version[q] <= Version[Order[n]]
    <3>1. PICK j \in Positions : Order[j] = q
      BY <1>2
    <3>2. VersionAt(n) >= VersionAt(j)
      BY <1>3, <2>2, <3>1 DEF Chosen, Newest, RankAt
    <3>3. VersionAt(n) \in Nat /\ VersionAt(j) \in Nat
      BY <2>1, <3>1, ChainFacts, PositionFacts
    <3>4. QED
      BY <3>1, <3>2, <3>3 DEF VersionAt
  <2>3. QED
    BY <1>3, <2>1, <2>2 DEF Wanted
<1>4. ASSUME NEW p \in Wanted PROVE \E n \in Chosen : Order[n] = p
  <2>1. PICK n \in Positions : Order[n] = p
    BY <1>2 DEF Wanted
  <2>2. ASSUME Opt("newest"), NEW j \in Positions, RankAt(n) = RankAt(j)
        PROVE  VersionAt(n) >= VersionAt(j)
    <3>1. p \in Packages /\ RepoOf[p] # System
      BY <1>1 DEF Wanted
    <3>2. Order[j] \in Packages /\ VersionAt(n) \in Nat /\ VersionAt(j) \in Nat
      BY <2>1, ChainFacts, PositionFacts
    <3>3. RepoOf[Order[j]] = RepoOf[p]
      BY <2>1, <2>2, <3>1, <3>2, RepoSyncConstants DEF RankAt
    <3>4. Order[j] \in note.listed
      BY <3>1, <3>3 DEF Positions
    <3>5. QED
      BY <2>1, <2>2, <3>2, <3>4 DEF Wanted, RankAt, VersionAt
  <2>3. QED
    BY <2>1, <2>2 DEF Chosen, Newest
<1>5. QED
  BY <1>3, <1>4

\* what is taken on the way was wanted, or is of the names at the ends
LEMMA TakenIsWanted ==
  ASSUME ListInv, PlaceInv, Walking, Sorted, list.at # 0, ~Skipped(Pkg)
  PROVE  Pkg \in Wanted \cup EndNames
<1> DEFINE i == list.at
<1>1. Way(i, Positions, Chosen) /\ i \in Positions /\ pc # "idle"
  BY ListStep DEF PlaceInv, Walking
<1>2. Pkg \in note.listed /\ Pkg = Order[i] /\ RepoOf[Pkg] # System
  BY <1>1 DEF Positions, Skipped, Pkg
<1>3. \A q \in note.listed : \E j \in Positions : Order[j] = q
  BY <1>1 DEF Packages, Positions, ListInv
<1>4. CASE i \in Chosen
  BY <1>1, <1>2, <1>4, ChosenIsWanted
<1>5. CASE i \notin Chosen /\ \A j \in Positions : RankAt(j) <= RankAt(i)
  <2>1. Opt("newest")
    BY <1>1, <1>5 DEF Chosen
  <2>2. \A q \in note.listed : Rank[q] <= Rank[Pkg]
    BY <1>2, <1>3, <1>5 DEF RankAt
  <2>3. QED
    BY <1>2, <2>1, <2>2 DEF EndNames
<1>6. CASE i \notin Chosen /\ \A j \in Positions : RankAt(i) <= RankAt(j)
  <2>1. Opt("newest") /\ InOrder
    BY <1>1, <1>6 DEF Chosen, Sorted
  <2>2. \A q \in note.listed : Rank[q] >= Rank[Pkg]
    <3>1. ASSUME NEW q \in note.listed PROVE Rank[q] >= Rank[Pkg]
      <4>1. PICK j \in Positions : Order[j] = q
        BY <1>3
      <4>2. RankAt(i) <= RankAt(j) /\ RankAt(i) \in Nat /\ RankAt(j) \in Nat
        BY <1>1, <1>6, <4>1, ChainFacts, PositionFacts
      <4>3. QED
        BY <1>2, <4>1, <4>2 DEF RankAt
    <3>2. QED
      BY <3>1
  <2>3. ASSUME NEW q \in Packages, RepoOf[q] = System PROVE FALSE
    <3>1. PICK j \in DOMAIN Order : Order[j] = q
      BY DEF Packages
    <3>2. j \in Positions /\ j < i
      BY <1>1, <1>2, <2>3, <3>1, ChainFacts, RepoSyncConstants DEF Positions
    <3>3. RankAt(j) <= RankAt(i)
      BY <1>1, <2>1, <3>2, ChainFacts DEF InOrder, ListInv
    <3>4. RankAt(j) = RankAt(i)
      BY <1>1, <1>6, <3>2, <3>3, ChainFacts, PositionFacts
    <3>5. RepoOf[q] = RepoOf[Pkg]
      BY <1>1, <1>2, <3>1, <3>4, ChainFacts, PositionFacts, RepoSyncConstants DEF RankAt
    <3>6. QED
      BY <1>2, <2>3, <3>5
  <2>4. QED
    BY <1>2, <2>1, <2>2, <2>3 DEF EndNames
<1>7. QED
  BY <1>1, <1>4, <1>5, <1>6, list.at # 0 DEF Way

LEMMA MirrorInit == Init => Mirror
BY DEF Init, Mirror, ListInv, PlaceInv, TakenInv, PastInv, FileInv, SweptInv, Walking, Past

\* the list of everything, and its first position
LEMMA MirrorStart == Start => Mirror'
<1> SUFFICES ASSUME Start PROVE Mirror'
  OBVIOUS
<1>1. PICK a \in Arguments :
        LET has(p) == RepoOf[p] = System \/ (RepoOf[p] \in a.enabled /\ p \in served)
            all == Linked({i \in DOMAIN Order : has(Order[i])})
        IN /\ arg' = a
           /\ list' = IF "newest" \in a.opt THEN FilterNewest(all) ELSE all
           /\ note' = [NoNote EXCEPT !.tree = tree, !.marks = marks,
                                     !.listed = {p \in Packages : has(p) /\ RepoOf[p] # System}]
           /\ IF Refused(a) THEN Abort("invalid parameter")
              ELSE IF all.at = 0 THEN Abort("no data")
              ELSE pc' = "list" /\ err' = "none"
  BY Zenon DEF Start
<1> DEFINE has(p) == RepoOf[p] = System \/ (RepoOf[p] \in a.enabled /\ p \in served)
           S == {i \in DOMAIN Order : has(Order[i])}
           listed == {p \in Packages : has(p) /\ RepoOf[p] # System}
<1>2. /\ note'.listed = listed /\ note'.seen = {} /\ note'.tree = tree /\ note'.marks = marks
  <2> HIDE DEF listed
  <2>1. note' = [NoNote EXCEPT !.tree = tree, !.marks = marks, !.listed = listed]
    BY <1>1 DEF listed
  <2>2. QED
    BY <2>1 DEF NoNote
<1>3. Positions' = S
  BY <1>2, PositionFacts DEF Positions
<1>4. \A p \in note'.listed : p \in Packages /\ RepoOf[p] # System /\ RepoOf[p] \in arg'.enabled
  BY <1>1, <1>2
<1>5. arg' = a /\ tree' = tree /\ marks' = marks
  BY <1>1 DEF Start, disk
<1>6. /\ list' = IF "newest" \in a.opt THEN FilterNewest(Linked(S)) ELSE Linked(S)
      /\ IF Refused(a) THEN Abort("invalid parameter")
         ELSE IF Linked(S).at = 0 THEN Abort("no data") ELSE pc' = "list" /\ err' = "none"
  BY <1>1
<1> HIDE DEF has, S, listed
<1>7. Linked(S) = [next |-> Linked(S).next, at |-> First(S)] /\ Linked(S).at = First(S)
  BY DEF Linked
<1>8. list' = [next |-> Chain', at |-> First(S)]
  <2>1. Chain' = IF "newest" \in a.opt THEN Link(Linked(S).next, Newest(S)) ELSE Linked(S).next
    BY <1>3, <1>5 DEF Chain, Opt
  <2>2. FilterNewest(Linked(S)) = [next |-> Link(Linked(S).next, Newest(S)), at |-> First(S)]
    <3> DEFINE N == Linked(S).next
               new == Link(N, Newest(S))
    <3>1. DOMAIN N = S
      BY DEF Linked
    <3>2. FilterNewest(Linked(S)) = [Linked(S) EXCEPT !.next = new]
      BY <3>1 DEF FilterNewest
    <3> HIDE DEF new, N
    <3>3. [[next |-> N, at |-> First(S)] EXCEPT !.next = new] = [next |-> new, at |-> First(S)]
      OBVIOUS
    <3>4. Linked(S) = [next |-> N, at |-> First(S)]
      BY <1>7 DEF N
    <3>5. QED
      BY <3>2, <3>3, <3>4 DEF N, new
  <2>3. CASE "newest" \in a.opt
    BY <1>6, <2>1, <2>2, <2>3, Zenon
  <2>4. CASE "newest" \notin a.opt
    <3>1. list' = Linked(S) /\ Chain' = Linked(S).next
      BY <1>6, <2>1, <2>4, Zenon
    <3>2. QED
      BY <1>7, <3>1, Zenon
  <2>5. QED
    BY <2>3, <2>4
<1>9. (pc' = "list" /\ ~Refused(a) /\ First(S) # 0) \/ (pc' = "done" /\ err' # "none")
  <2>1. CASE Refused(a)
    BY <1>6, <2>1 DEF Abort
  <2>2. CASE ~Refused(a) /\ First(S) = 0
    BY <1>6, <1>7, <2>2 DEF Abort
  <2>3. CASE ~Refused(a) /\ First(S) # 0
    BY <1>6, <1>7, <2>3
  <2>4. QED
    BY <2>1, <2>2, <2>3
<1>10. ListInv'
  BY <1>4, <1>8 DEF ListInv
<1>11. ASSUME pc' = "list", Sorted' PROVE PlaceInv'
  <2>1. S \subseteq DOMAIN Order /\ S # {} /\ S \subseteq Nat \ {0} /\ Chosen' \subseteq S
    BY <1>3, <1>9, <1>11, PositionFacts DEF S, First, Chosen, Newest
  <2>2. First(S) \in S /\ \A j \in S : First(S) <= j
    BY <2>1, FirstIs
  <2>3. Way(First(S), S, Chosen')
    <3>1. CASE ~Opt("newest")'
      BY <1>3, <2>2, <3>1 DEF Way, Chosen
    <3>2. CASE Opt("newest")'
      <4>1. DOMAIN Chain' = S
        BY <1>3 DEF Chain, Link, Linked
      <4>2. Ordered(S)
        BY <1>8, <1>11, <3>2, <4>1 DEF Sorted, InOrder, Ordered
      <4>3. \A j \in S : RankAt(First(S)) <= RankAt(j)
        BY <2>1, <2>2, <4>2, PositionFacts DEF Ordered
      <4>4. First(S) \in Chosen' \/ \A n \in Chosen' : First(S) < n
        BY <2>1, <2>2
      <4>5. QED
        BY <2>2, <4>3, <4>4 DEF Way
    <3>3. QED
      BY <3>1, <3>2
  <2>4. \A n \in Chosen' : ~(n < First(S))
    BY <2>1, <2>2
  <2>5. list'.at = First(S) /\ First(S) # 0
    BY <1>8, <1>9, <1>11
  <2>6. QED
    BY <1>2, <1>3, <2>3, <2>4, <2>5 DEF PlaceInv
<1>12. PlaceInv' /\ TakenInv' /\ PastInv' /\ SweptInv'
  BY <1>9, <1>11 DEF PlaceInv, TakenInv, PastInv, SweptInv, Walking, Past
<1>13. FileInv'
  BY <1>2, <1>5, <1>9 DEF FileInv, Walking, Past, Fresh, Refused, Opt
<1>14. QED
  BY <1>10, <1>12, <1>13 DEF Mirror

\* what depends on the options and the list only
LEMMA SameList ==
  ASSUME arg' = arg, note'.listed = note.listed, list'.next = list.next
  PROVE  /\ Positions' = Positions /\ Chosen' = Chosen /\ Chain' = Chain
         /\ Wanted' = Wanted /\ EndNames' = EndNames /\ Sorted' = Sorted
         /\ \A p : Skipped(p)' = Skipped(p) /\ Here(p)' = Here(p)
         /\ \A o : Opt(o)' = Opt(o)
<1>1. \A o : Opt(o)' = Opt(o)
  BY DEF Opt
<1>2. Positions' = Positions
  BY DEF Positions
<1>3. \A p : Skipped(p)' = Skipped(p) /\ Here(p)' = Here(p)
  BY <1>1 DEF Skipped, Here
<1>4. Chosen' = Chosen /\ Chain' = Chain
  BY <1>1, <1>2 DEF Chosen, Chain
<1>5. Wanted' = Wanted /\ EndNames' = EndNames
  BY <1>1, <1>3 DEF Wanted, EndNames
<1>6. Sorted' = Sorted
  BY <1>1 DEF Sorted, InOrder
<1>7. QED
  BY <1>1, <1>2, <1>3, <1>4, <1>5, <1>6

\* the step to the next element of the list
LEMMA AdvanceList ==
  ASSUME ListInv, pc # "idle", Advance, arg' = arg, note'.listed = note.listed
  PROVE  ListInv' /\ list'.next = list.next /\ list'.at = list.next[list.at]
<1>1. list = [next |-> Chain, at |-> list.at]
  BY DEF ListInv
<1>2. list' = [next |-> Chain, at |-> list.next[list.at]] /\ list.next = Chain
  BY <1>1 DEF Advance
<1>3. list'.next = list.next /\ list'.at = list.next[list.at]
  BY <1>2
<1>4. Chain' = Chain
  BY <1>3, SameList
<1>5. QED
  BY <1>2, <1>3, <1>4 DEF ListInv

LEMMA MirrorSkip == Mirror /\ Skip => Mirror'
<1> SUFFICES ASSUME Mirror, Skip PROVE Mirror'
  OBVIOUS
<1>1. /\ pc = "list" /\ pc' = "list" /\ list.at # 0 /\ (Skipped(Pkg) \/ Opt("urls")) /\ Advance
      /\ arg' = arg /\ note' = note /\ tree' = tree /\ marks' = marks
  BY DEF Skip, disk
<1>2. ListInv /\ PlaceInv /\ FileInv /\ Walking
  BY <1>1 DEF Mirror, Walking
<1>3. ListInv' /\ list'.next = list.next /\ list'.at = list.next[list.at]
  BY <1>1, <1>2, AdvanceList
<1>4. /\ Positions' = Positions /\ Chosen' = Chosen /\ Wanted' = Wanted /\ EndNames' = EndNames
      /\ Sorted' = Sorted /\ (\A p : Skipped(p)' = Skipped(p) /\ Here(p)' = Here(p))
      /\ \A o : Opt(o)' = Opt(o)
  BY <1>1, <1>3, SameList
<1>5. ASSUME Sorted PROVE PlaceInv'
  <2>1. list.at \in Positions /\ Step(list.at, list.next[list.at], Positions, Chosen)
    BY <1>1, <1>2, <1>5, ListStep
  <2>2. Way(list'.at, Positions, Chosen)
    BY <1>3, <2>1 DEF Step
  <2>3. ASSUME NEW n \in Chosen, list'.at = 0 \/ n < list'.at, ~Skipped(Order[n])
        PROVE  Order[n] \in note.seen
    <3>1. n <= list.at
      BY <1>3, <2>1, <2>3 DEF Step
    <3>2. n # list.at
      BY <1>1, <1>5, <2>3 DEF Pkg, Sorted
    <3>3. n < list.at
      BY <2>1, <3>1, <3>2, ChainFacts, PositionFacts
    <3>4. QED
      BY <1>2, <1>5, <2>3, <3>3 DEF PlaceInv
  <2>4. note.seen \subseteq Wanted \cup EndNames
    BY <1>2, <1>5 DEF PlaceInv
  <2>5. QED
    BY <1>1, <1>4, <2>2, <2>3, <2>4 DEF PlaceInv
<1>6. PlaceInv'
  BY <1>4, <1>5 DEF PlaceInv
<1>7. FileInv'
  BY <1>1, <1>2, <1>4 DEF FileInv, Fresh, Walking
<1>8. QED
  BY <1>1, <1>3, <1>6, <1>7 DEF Mirror, TakenInv, PastInv, SweptInv, Past

\* a package that was wanted, or an older one of the names at the ends, is taken and marked
LEMMA MirrorMark == Mirror /\ Mark /\ IsNote => Mirror'
<1> SUFFICES ASSUME Mirror, Mark, IsNote PROVE Mirror'
  OBVIOUS
<1>1. /\ pc = "mark" /\ pc' = "list" /\ Advance /\ arg' = arg /\ tree' = tree
      /\ marks' = IF Opt("delete") THEN marks \cup {Here(Pkg)} ELSE marks
      /\ note' = [note EXCEPT !.seen = note.seen \cup {Pkg}]
  BY DEF Mark, Marked
<1>2. ListInv /\ PlaceInv /\ FileInv /\ Walking /\ list.at # 0 /\ ~Skipped(Pkg) /\ Here(Pkg) \in tree
  BY <1>1 DEF Mirror, Walking, TakenInv
<1>3. /\ note'.listed = note.listed /\ note'.tree = note.tree /\ note'.marks = note.marks
      /\ note'.seen = note.seen \cup {Pkg}
  BY <1>1 DEF IsNote
<1>4. ListInv' /\ list'.next = list.next /\ list'.at = list.next[list.at]
  BY <1>1, <1>2, <1>3, AdvanceList
<1>5. /\ Positions' = Positions /\ Chosen' = Chosen /\ Wanted' = Wanted /\ EndNames' = EndNames
      /\ Sorted' = Sorted /\ (\A p : Skipped(p)' = Skipped(p) /\ Here(p)' = Here(p))
      /\ \A o : Opt(o)' = Opt(o)
  BY <1>1, <1>3, <1>4, SameList
<1>6. ASSUME Sorted PROVE PlaceInv'
  <2>1. list.at \in Positions /\ Step(list.at, list.next[list.at], Positions, Chosen)
    BY <1>1, <1>2, <1>6, ListStep
  <2>2. Way(list'.at, Positions, Chosen)
    BY <1>4, <2>1 DEF Step
  <2>3. ASSUME NEW n \in Chosen, list'.at = 0 \/ n < list'.at, ~Skipped(Order[n])
        PROVE  Order[n] \in note.seen \cup {Pkg}
    <3>1. n <= list.at
      BY <1>4, <2>1, <2>3 DEF Step
    <3>2. n = list.at \/ n < list.at
      BY <2>1, <3>1, ChainFacts, PositionFacts
    <3>3. QED
      BY <1>2, <1>6, <2>3, <3>2 DEF PlaceInv, Pkg
  <2>4. note.seen \cup {Pkg} \subseteq Wanted \cup EndNames
    BY <1>2, <1>6, TakenIsWanted DEF PlaceInv
  <2>5. QED
    BY <1>1, <1>3, <1>5, <2>2, <2>3, <2>4 DEF PlaceInv
<1>7. PlaceInv'
  BY <1>5, <1>6 DEF PlaceInv
<1>8. FileInv'
  <2> SUFFICES ASSUME Opt("delete") PROVE FileInv'
    BY <1>5 DEF FileInv
  <2>1. Fresh' = Fresh \cup {Here(Pkg)}
    BY <1>3, <1>5 DEF Fresh
  <2>2. QED
    BY <1>1, <1>2, <1>3, <1>5, <2>1 DEF FileInv, Walking
<1>9. QED
  BY <1>1, <1>4, <1>7, <1>8 DEF Mirror, TakenInv, PastInv, SweptInv, Past

LEMMA MirrorFetch == Mirror /\ (Fetch \/ Check) => Mirror'
<1> SUFFICES ASSUME Mirror, Fetch \/ Check PROVE Mirror'
  OBVIOUS
<1>1. /\ pc \in {"list", "check"} /\ (pc' \in {"check", "mark"} \/ (pc' = "done" /\ err' # "none"))
      /\ arg' = arg /\ note' = note /\ list' = list /\ marks' = marks
  BY DEF Fetch, Check, Abort, disk
<1>2. ListInv /\ PlaceInv /\ FileInv /\ TakenInv /\ Walking
  BY <1>1 DEF Mirror, Walking
<1>3. /\ Positions' = Positions /\ Chosen' = Chosen /\ Chain' = Chain
      /\ Wanted' = Wanted /\ EndNames' = EndNames
      /\ Sorted' = Sorted /\ (\A p : Skipped(p)' = Skipped(p) /\ Here(p)' = Here(p))
      /\ \A o : Opt(o)' = Opt(o)
  BY <1>1, SameList
<1>4. Pkg' = Pkg /\ Fresh' = Fresh
  BY <1>1, <1>3 DEF Pkg, Fresh
<1>5. list.at # 0 /\ ~Skipped(Pkg) /\ ~Opt("urls") /\ tree' = tree \cup {Here(Pkg)}
  <2>1. CASE Fetch
    BY <2>1 DEF Fetch
  <2>2. CASE Check
    BY <1>2, <2>2 DEF Check, TakenInv, disk
  <2>3. QED
    BY <2>1, <2>2
<1>6. ListInv'
  BY <1>1, <1>2, <1>3 DEF ListInv
<1>7. PlaceInv' /\ TakenInv'
  BY <1>1, <1>2, <1>3, <1>4, <1>5 DEF PlaceInv, TakenInv
<1>8. FileInv'
  BY <1>1, <1>2, <1>3, <1>4, <1>5 DEF FileInv, Walking, Past
<1>9. QED
  BY <1>1, <1>6, <1>7, <1>8 DEF Mirror, PastInv, SweptInv, Past

\* the steps that leave the options, what was noted and the list alone, and end no run badly
LEMMA SameNote ==
  ASSUME arg' = arg, note' = note, list' = list, Mirror, pc # "idle"
  PROVE  /\ Wanted' = Wanted /\ EndNames' = EndNames /\ Sorted' = Sorted /\ Fresh' = Fresh
         /\ \A o : Opt(o)' = Opt(o)
         /\ ListInv'
<1>1. /\ Wanted' = Wanted /\ EndNames' = EndNames /\ Sorted' = Sorted /\ Chain' = Chain
      /\ (\A p : Here(p)' = Here(p)) /\ \A o : Opt(o)' = Opt(o)
  BY SameList
<1>2. Fresh' = Fresh
  BY <1>1 DEF Fresh
<1>3. ListInv'
  BY <1>1 DEF ListInv, Mirror
<1>4. QED
  BY <1>1, <1>2, <1>3

LEMMA MirrorEndOfList == Mirror /\ EndOfList => Mirror'
<1> SUFFICES ASSUME Mirror, EndOfList PROVE Mirror'
  OBVIOUS
<1>1. /\ pc = "list" /\ list.at = 0 /\ pc' = (IF Opt("delete") THEN "sweep" ELSE "metadata")
      /\ todo' = arg.enabled /\ swept' = {} /\ tree' = tree /\ marks' = marks
      /\ arg' = arg /\ note' = note /\ list' = list
  BY DEF EndOfList, disk
<1>2. /\ Wanted' = Wanted /\ EndNames' = EndNames /\ Sorted' = Sorted /\ Fresh' = Fresh
      /\ (\A o : Opt(o)' = Opt(o)) /\ ListInv'
  BY <1>1, SameNote
<1>3. ListInv /\ PlaceInv /\ FileInv /\ Walking
  BY <1>1 DEF Mirror, Walking
<1>4. ASSUME Sorted PROVE Wanted \subseteq note.seen /\ note.seen \subseteq Wanted \cup EndNames
  <2>1. \A n \in Chosen : ~Skipped(Order[n]) => Order[n] \in note.seen
    BY <1>1, <1>3, <1>4 DEF PlaceInv
  <2>2. \A p \in Wanted : ~Skipped(p) /\ \E n \in Chosen : Order[n] = p
    BY <1>1, <1>3, ChosenIsWanted DEF Wanted
  <2>3. QED
    BY <1>3, <1>4, <2>1, <2>2 DEF PlaceInv
<1>5. PastInv' /\ FileInv'
  BY <1>1, <1>2, <1>3, <1>4 DEF PastInv, FileInv, Walking
<1>6. SweptInv'
  BY <1>1, <1>2 DEF SweptInv
<1>7. QED
  BY <1>1, <1>2, <1>5, <1>6 DEF Mirror, PlaceInv, TakenInv, Walking

LEMMA MirrorVisit == Mirror /\ Inv /\ Visit => Mirror'
<1> SUFFICES ASSUME Mirror, Inv, Visit PROVE Mirror'
  OBVIOUS
<1>1. pc = "sweep" /\ pc' = pc /\ todo' = todo /\ arg' = arg /\ note' = note /\ list' = list
  BY DEF Visit
<1>2. /\ Wanted' = Wanted /\ EndNames' = EndNames /\ Sorted' = Sorted /\ Fresh' = Fresh
      /\ (\A o : Opt(o)' = Opt(o)) /\ ListInv'
  BY <1>1, SameNote
<1>3. PastInv /\ FileInv /\ SweptInv /\ Past /\ Opt("delete") /\ Fresh \subseteq marks \cup swept
  BY <1>1 DEF Mirror, Past, Inv, SweepInv, Fresh
<1>4. PICK f \in UNION {Unvisited(r) : r \in todo} :
        /\ swept' = swept \cup {f}
        /\ IF f \in marks THEN marks' = marks \ {f} /\ tree' = tree
           ELSE tree' = tree \ {f} /\ marks' = marks
  BY Zenon DEF Visit
<1>5. f \in tree /\ f \notin swept
  BY <1>4 DEF Unvisited
<1>6. FileInv'
  BY <1>1, <1>2, <1>3, <1>4, <1>5 DEF FileInv, Past
<1>7. f \in marks => f \in Fresh \/ f \in note.tree \cap note.marks
  BY <1>1, <1>3, <1>5 DEF FileInv
<1>8. SweptInv'
  BY <1>1, <1>2, <1>3, <1>4, <1>5, <1>7 DEF SweptInv
<1>9. PastInv'
  BY <1>1, <1>2, <1>3 DEF PastInv
<1>10. QED
  BY <1>1, <1>2, <1>6, <1>8, <1>9 DEF Mirror, PlaceInv, TakenInv, Walking

LEMMA MirrorSwept == Mirror /\ (Swept \/ SweepEnds) => Mirror'
<1> SUFFICES ASSUME Mirror, Swept \/ SweepEnds PROVE Mirror'
  OBVIOUS
<1>1. /\ pc = "sweep" /\ pc' \in {"sweep", "metadata", "done"} /\ (pc' = "done" => err' # "none")
      /\ arg' = arg /\ note' = note /\ list' = list /\ tree' = tree /\ marks' = marks /\ swept' = swept
  BY DEF Swept, SweepEnds, Abort, disk
<1>2. /\ Wanted' = Wanted /\ EndNames' = EndNames /\ Sorted' = Sorted /\ Fresh' = Fresh
      /\ (\A o : Opt(o)' = Opt(o)) /\ ListInv'
  BY <1>1, SameNote
<1>3. PastInv /\ FileInv /\ SweptInv /\ Past
  BY <1>1 DEF Mirror, Past
<1>4. PastInv' /\ FileInv'
  BY <1>1, <1>2, <1>3 DEF PastInv, FileInv, Walking, Past
<1>5. SweptInv'
  <2>1. CASE Swept
    <3>1. PICK r \in todo : Unvisited(r) = {} /\ todo' = todo \ {r}
      BY <2>1 DEF Swept
    <3>2. \A f \in tree : f.dir = r => f \in swept
      BY <3>1 DEF Unvisited
    <3>3. pc' \in {"sweep", "done"}
      BY <2>1 DEF Swept, Abort
    <3>4. QED
      BY <1>1, <1>2, <1>3, <3>1, <3>2, <3>3 DEF SweptInv, Past
  <2>2. CASE SweepEnds
    BY <1>1, <1>2, <1>3, <2>2 DEF SweepEnds, SweptInv, Past
  <2>3. QED
    BY <2>1, <2>2
<1>6. QED
  BY <1>1, <1>2, <1>4, <1>5 DEF Mirror, PlaceInv, TakenInv, Walking

\* the metadata and the end leave the packages alone; a run that fails or is killed promises nothing
LEMMA MirrorEnd == Mirror /\ (FetchFails \/ Metadata \/ MetadataFails \/ Success \/ Finish \/ Killed) => Mirror'
<1> SUFFICES ASSUME Mirror, FetchFails \/ Metadata \/ MetadataFails \/ Success \/ Finish \/ Killed
             PROVE  Mirror'
  OBVIOUS
<1>1. CASE Finish \/ Killed
  BY <1>1 DEF Finish, Killed, Exit, Mirror, ListInv, PlaceInv, TakenInv, PastInv, FileInv, SweptInv,
              Walking, Past
<1>2. CASE FetchFails \/ MetadataFails
  <2>1. /\ pc # "idle" /\ pc' = "done" /\ err' # "none" /\ arg' = arg /\ note' = note /\ list' = list
    BY <1>2 DEF FetchFails, MetadataFails, Abort
  <2>2. ListInv'
    BY <2>1, SameNote
  <2>3. QED
    BY <2>1, <2>2 DEF Mirror, PlaceInv, TakenInv, PastInv, FileInv, SweptInv, Walking, Past
<1>3. CASE Metadata \/ Success
  <2>1. /\ pc = "metadata" /\ pc' \in {"metadata", "done"} /\ arg' = arg /\ note' = note /\ list' = list
        /\ tree' = tree /\ marks' = marks /\ swept' = swept
    BY <1>3 DEF Metadata, Success, disk
  <2>2. /\ Wanted' = Wanted /\ EndNames' = EndNames /\ Sorted' = Sorted /\ Fresh' = Fresh
        /\ (\A o : Opt(o)' = Opt(o)) /\ ListInv'
    BY <2>1, SameNote
  <2>3. PastInv /\ FileInv /\ SweptInv /\ Past
    BY <2>1 DEF Mirror, Past
  <2>4. PastInv' /\ FileInv' /\ SweptInv'
    BY <2>1, <2>2, <2>3 DEF PastInv, FileInv, SweptInv, Walking
  <2>5. QED
    BY <2>1, <2>2, <2>4 DEF Mirror, PlaceInv, TakenInv, Walking
<1>4. QED
  BY <1>1, <1>2, <1>3

\* what the repositories serve does not matter to what a run has listed
LEMMA MirrorSame == Mirror /\ (Publish \/ UNCHANGED vars) => Mirror'
<1> SUFFICES ASSUME Mirror, Publish \/ UNCHANGED vars PROVE Mirror'
  OBVIOUS
<1>1. /\ pc' = pc /\ arg' = arg /\ list' = list /\ note' = note /\ todo' = todo /\ swept' = swept
      /\ err' = err /\ tree' = tree /\ marks' = marks
  BY DEF Publish, vars, disk
<1>2. /\ Positions' = Positions /\ Chosen' = Chosen /\ Chain' = Chain
      /\ Wanted' = Wanted /\ EndNames' = EndNames /\ Sorted' = Sorted
      /\ (\A p : Skipped(p)' = Skipped(p) /\ Here(p)' = Here(p)) /\ \A o : Opt(o)' = Opt(o)
  BY <1>1, SameList
<1>3. Pkg' = Pkg /\ Fresh' = Fresh
  BY <1>1, <1>2 DEF Pkg, Fresh
<1>4. ListInv' /\ PlaceInv'
  BY <1>1, <1>2 DEF Mirror, ListInv, PlaceInv, Walking
<1>5. TakenInv' /\ PastInv' /\ FileInv' /\ SweptInv'
  BY <1>1, <1>2, <1>3 DEF Mirror, TakenInv, PastInv, FileInv, SweptInv, Walking, Past
<1>6. QED
  BY <1>4, <1>5 DEF Mirror

\* What has been seen of the list, and what a sweep has left, is what was asked for so far: the
\* inductive invariant of DeleteIsExact (TDNFRepoSync, TDNFPkgInfoFilterNewest, _rm_rpms).
THEOREM MirrorInvariant == Spec => [](Inv /\ Mirror)
<1>1. Init => Inv /\ Mirror
  BY InitInv, MirrorInit
<1>2. Inv /\ Mirror /\ [Next]_vars => Inv' /\ Mirror'
  <2>1. Inv /\ [Next]_vars => Inv'
    BY StartInv, MarkInv, SweepSteps, OtherSteps DEF Next, Run
  <2>2. Inv => IsNote
    BY DEF Inv
  <2>3. QED
    BY <2>1, <2>2, MirrorStart, MirrorSkip, MirrorMark, MirrorFetch, MirrorEndOfList, MirrorVisit,
       MirrorSwept, MirrorEnd, MirrorSame DEF Next, Run
<1>3. QED
  BY <1>1, <1>2, PTL DEF Spec

\* After reposync --delete the mirror holds what was asked for, older versions of the names at
\* the ends of the list and what an earlier run had left marked, and nothing else (TDNFRepoSync).
THEOREM DeleteIsExactAlways == Spec => []DeleteIsExact
<1>1. Mirror => DeleteIsExact
  <2> SUFFICES ASSUME Mirror, pc = "done", err = "none", Opt("delete"), ~Opt("urls"),
                      Opt("newest") => InOrder,
                      NEW mine, mine = {f \in tree : f.dir \in arg.enabled}
               PROVE  /\ {Here(p) : p \in Wanted} \subseteq mine
                      /\ mine \subseteq {Here(p) : p \in Wanted \cup EndNames}
                                          \cup (note.tree \cap note.marks)
                      /\ mine \cap marks = {}
    BY DEF DeleteIsExact
  <2>1. PastInv /\ FileInv /\ SweptInv /\ ListInv /\ Past /\ Sorted
    BY DEF Mirror, Past, Sorted
  <2>2. /\ Wanted \subseteq note.seen /\ note.seen \subseteq Wanted \cup EndNames
        /\ ~Opt("norepopath") /\ Fresh \subseteq tree /\ swept \cap marks = {}
    BY <2>1 DEF PastInv, FileInv, SweptInv
  <2>3. \A f \in mine : f \in swept /\ (f \in Fresh \/ f \in note.tree \cap note.marks)
    BY <2>1 DEF SweptInv
  <2>4. \A p \in Wanted : Here(p) \in mine
    <3>1. \A p \in Wanted : Here(p) \in tree
      BY <2>2 DEF Fresh
    <3>2. \A p \in Wanted : RepoOf[p] \in arg.enabled
      BY <2>1 DEF ListInv, Wanted
    <3>3. \A p \in Wanted : Here(p).dir = RepoOf[p]
      BY <2>2 DEF Here
    <3>4. QED
      BY <3>1, <3>2, <3>3
  <2>5. Fresh \subseteq {Here(p) : p \in Wanted \cup EndNames}
    BY <2>2 DEF Fresh
  <2>6. QED
    BY <2>2, <2>3, <2>4, <2>5
<1>2. QED
  BY <1>1, MirrorInvariant, PTL
=============================================================================
