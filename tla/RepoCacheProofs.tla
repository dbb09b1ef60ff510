--------------------------- MODULE RepoCacheProofs ---------------------------
(***************************************************************************)
(* What is proved about RepoCache, for any number of commands, mirrors,    *)
(* versions and parts, and any configurations.                             *)
(***************************************************************************)
EXTENDS RepoCacheProps, FiniteSetTheorems, SequenceTheorems, TLAPS

(* What a command knows at the places where it uses it.                    *)
StepOK(p) ==
    /\ pc[p] = "remove" => rm[p].then \in {"start", "install", "failed", "cleaned"}
    /\ pc[p] \in {"parts", "cookie", "use", "write"} => loc[p].md \in Version
    /\ pc[p] \in {"use", "write"} => loc[p].cookie \in Version
    /\ pc[p] = "write" => pool[p] \in [version : Version, content : Content]
Steps == \A p \in Procs : StepOK(p)
TypeInv == TypeOK /\ Steps

USE DEF TypeInv, TypeOK, Steps, Absent, Never
-----------------------------------------------------------------------------
LEMMA ConstantTypes ==
  NoOpt \in Opt /\ NoRm \in Rm /\ NoLoc \in Loc /\ NoPool \in Pool /\ NoNote \in Note
<1>1. NoOpt \in Opt
  BY DEF NoOpt, Opt
<1>2. NoRm \in Rm
  BY EmptySeq DEF NoRm, Rm
<1>3. NoLoc \in Loc
  BY CacheConstants DEF NoLoc, Loc, MaybeVersion
<1>4. NoPool \in Pool
  BY DEF Pool
<1>5. NoNote \in Note
  BY CacheConstants DEF NoNote, Note, MaybeVersion
<1>6. QED
  BY <1>1, <1>2, <1>3, <1>4, <1>5

LEMMA NameType == \A q \in Parts, v \in MaybeVersion : Name(q, v) \in PartName
  BY CacheConstants DEF Name, PartName, MaybeVersion

LEMMA OnErrorType ==
  /\ [todo |-> OnError, then |-> "failed", stuck |-> FALSE] \in Rm
  /\ [todo |-> Replaced, then |-> "install", stuck |-> FALSE] \in Rm
  /\ [todo |-> <<"repodata", "solv">>, then |-> "start", stuck |-> FALSE] \in Rm
  /\ \A kind \in Cleans : [todo |-> CleanSteps[kind], then |-> "cleaned", stuck |-> FALSE] \in Rm
<1>1. OnError \in Seq(Target) /\ <<"repodata", "solv">> \in Seq(Target)
  BY DEF OnError, Target
<1>2. Replaced \in Seq(Target)
  <2>1. <<"repodata", "solv", "marker">> \in Seq(Target) /\ <<>> \in Seq(Target)
        /\ <<"rpms">> \in Seq(Target)
    BY DEF Target
  <2>2. QED
    BY <2>1, ConcatProperties DEF Replaced
<1>3. \A kind \in Cleans : CleanSteps[kind] \in Seq(Target)
  <2>1. SUFFICES ASSUME NEW kind \in {"metadata", "dbcache", "packages", "expire", "all"}
        PROVE CleanSteps[kind] \in Seq(Target)
    BY CacheConstants
  <2>2. /\ <<"repodata">> \in Seq(Target) /\ <<"solv">> \in Seq(Target)
        /\ <<"rpms">> \in Seq(Target) /\ <<"marker", "mirrorlist">> \in Seq(Target)
        /\ <<"repodata", "solv", "rpms", "marker", "mirrorlist">> \in Seq(Target)
    BY DEF Target
  <2>3. CASE kind = "metadata"
    BY <2>2, <2>3 DEF CleanSteps
  <2>4. CASE kind = "dbcache"
    BY <2>2, <2>4 DEF CleanSteps
  <2>5. CASE kind = "packages"
    BY <2>2, <2>5 DEF CleanSteps
  <2>6. CASE kind = "expire"
    BY <2>2, <2>6 DEF CleanSteps
  <2>7. CASE kind = "all"
    BY <2>2, <2>7 DEF CleanSteps
  <2>8. QED
    BY <2>3, <2>4, <2>5, <2>6, <2>7
<1>4. QED
  BY <1>1, <1>2, <1>3 DEF Rm, Pc

LEMMA NoteType ==
  ASSUME NEW n \in Note, NEW b \in BOOLEAN
  PROVE  /\ [n EXCEPT !.eacces = b] \in Note
         /\ [n EXCEPT !.ready = b] \in Note
         /\ [n EXCEPT !.calm = b] \in Note
         /\ [n EXCEPT !.upset = b] \in Note
         /\ \A k \in MaybeVersion : [n EXCEPT !.floor = k] \in Note
         /\ \A o \in {"ok", "error", "skipped", "crashed"} : [n EXCEPT !.outcome = o] \in Note
         /\ n.calm \in BOOLEAN /\ n.upset \in BOOLEAN /\ n.ready \in BOOLEAN
  BY DEF Note

LEMMA FailType ==
  ASSUME TypeInv, NEW p \in Procs, NEW cause, Fail(p, cause),
         cause \in {"net", "io"} => faults < MaxFaults
  PROVE  TypeInv'
<1>1. WorldOK'
  BY CacheConstants DEF Fail, WorldOK, world
<1>2. DiskOK'
  BY DEF Fail, DiskOK, disk, repodata
<1>3. CommandsOK'
  <2>1. /\ pc' \in [Procs -> Pc] /\ opt' \in [Procs -> Opt] /\ rm' \in [Procs -> Rm]
        /\ loc' \in [Procs -> Loc] /\ pool' \in [Procs -> Pool]
    BY ConstantTypes, OnErrorType DEF Fail, Goto, CommandsOK, Pc
  <2>2. note' \in [Procs -> Note]
    <3>1. note[p] \in Note
      BY DEF CommandsOK
    <3> DEFINE n1 == [note[p] EXCEPT !.eacces = (cause = "eacces")]
               n2 == [n1 EXCEPT !.calm = note[p].calm /\ cause # "net"]
               n3 == [n2 EXCEPT !.upset = note[p].upset \/ cause = "io"]
    <3>2. n1 \in Note
      BY <3>1, NoteType
    <3>3. n2 \in Note
      BY <3>2, NoteType
    <3>4. n3 \in Note
      BY <3>3, NoteType
    <3>5. note' = [note EXCEPT ![p] = n3]
      BY <3>1 DEF Fail, CommandsOK
    <3>6. QED
      BY <3>4, <3>5 DEF CommandsOK
  <2>3. QED
    BY <2>1, <2>2 DEF Fail, CommandsOK
<1>4. Steps'
  BY DEF Fail, Goto, CommandsOK, StepOK
<1>5. QED
  BY <1>1, <1>2, <1>3, <1>4

LEMMA EndType ==
  ASSUME TypeInv, NEW p \in Procs, NEW upset \in BOOLEAN,
         NEW outcome \in {"ok", "error", "skipped", "crashed"}, End(p, outcome, upset)
  PROVE  CommandsOK' /\ Steps'
<1>1. /\ pc' \in [Procs -> Pc] /\ opt' \in [Procs -> Opt] /\ rm' \in [Procs -> Rm]
      /\ loc' \in [Procs -> Loc] /\ pool' \in [Procs -> Pool]
  BY ConstantTypes DEF End, Goto, CommandsOK, Pc
<1>2. note' \in [Procs -> Note]
  <2>1. note[p] \in Note
    BY DEF CommandsOK
  <2> DEFINE n1 == [NoNote EXCEPT !.outcome = outcome]
             n2 == [n1 EXCEPT !.ready = note[p].ready]
             n3 == [n2 EXCEPT !.upset = upset]
  <2>2. n1 \in Note
    BY ConstantTypes, NoteType
  <2>3. n2 \in Note
    BY <2>1, <2>2, NoteType
  <2>4. n3 \in Note
    BY <2>3, NoteType
  <2>5. note' = [note EXCEPT ![p] = n3]
    BY DEF End
  <2>6. QED
    BY <2>4, <2>5 DEF CommandsOK
<1>3. failures' \in Nat
  BY DEF End, CommandsOK
<1>4. Steps'
  BY DEF End, Goto, CommandsOK, StepOK
<1>5. QED
  BY <1>1, <1>2, <1>3, <1>4 DEF CommandsOK

LEMMA TypeInit == Init => TypeInv
<1> SUFFICES ASSUME Init PROVE TypeInv
  OBVIOUS
<1>1. WorldOK
  BY CacheConstants DEF Init, WorldOK, Version, Mirrors
<1>2. DiskOK
  <2>1. Cardinality(solv) <= 1
    BY FS_EmptySet DEF Init
  <2>2. part \in [PartName -> MaybeVersion]
    BY CacheConstants DEF Init, MaybeVersion
  <2>3. mirrorlist \in Age /\ marker \in Age
    BY CacheConstants DEF Init, Age
  <2>4. repomd \in MaybeVersion /\ metalink \in MaybeVersion
    BY CacheConstants DEF Init, MaybeVersion
  <2>5. solv \in SUBSET [cookie : Version, content : Content] /\ rpms \in SUBSET {KeptIn, LookedForIn}
    BY DEF Init
  <2>6. QED
    BY <2>1, <2>2, <2>3, <2>4, <2>5 DEF DiskOK
<1>3. CommandsOK /\ Steps
  BY ConstantTypes DEF Init, CommandsOK, Pc, StepOK
<1>4. QED
  BY <1>1, <1>2, <1>3
-----------------------------------------------------------------------------
(* The steps of a command.                                                 *)

LEMMA TypeStart ==
  ASSUME TypeInv, NEW p \in Procs, NEW ready \in BOOLEAN, NEW floor \in MaybeVersion,
         Starts(p, ready, floor)
  PROVE  note' \in [Procs -> Note]
<1>1. SUFFICES ASSUME NEW q \in Procs PROVE note'[q] \in Note
  BY DEF Starts
<1> DEFINE calm == p \in Root /\ \A m \in Mirrors : mirror[m] = latest
           busy == \E r \in Root : Running(r)
           upset == note[q].upset \/ (p \in Root /\ Running(q))
           n1 == [NoNote EXCEPT !.ready = ready]
           n2 == [n1 EXCEPT !.floor = floor]
           n3 == [n2 EXCEPT !.calm = calm]
           n4 == [n3 EXCEPT !.upset = busy]
<1>2. CASE q = p
  <2>1. n1 \in Note
    BY ConstantTypes, NoteType
  <2>2. n2 \in Note
    BY <2>1, NoteType
  <2>3. n3 \in Note
    BY <2>2, NoteType
  <2>4. n4 \in Note
    BY <2>3, NoteType
  <2>5. note'[q] = n4
    BY <1>2 DEF Starts
  <2>6. QED
    BY <2>4, <2>5
<1>3. CASE q # p
  <2>1. note[q] \in Note
    BY DEF CommandsOK
  <2>2. [note[q] EXCEPT !.upset = upset] \in Note
    BY <2>1, NoteType
  <2>3. note'[q] = [note[q] EXCEPT !.upset = upset]
    BY <1>3 DEF Starts
  <2>4. QED
    BY <2>2, <2>3
<1>4. QED
  BY <1>2, <1>3

LEMMA TypeBegin ==
  ASSUME TypeInv, NEW p \in Procs, Begin(p) \/ BeginClean(p)
  PROVE  TypeInv'
<1>1. WorldOK' /\ DiskOK'
  BY DEF Begin, BeginClean, WorldOK, DiskOK, world, disk, repodata
<1>2. CASE Begin(p)
  <2>1. PICK refresh \in BOOLEAN, cacheonly \in BOOLEAN, oldest \in Version :
          /\ opt' = [opt EXCEPT ![p] = [refresh |-> refresh, cacheonly |-> cacheonly,
                                        clean |-> "no"]]
          /\ Starts(p, Complete /\ (cacheonly \/ (~refresh /\ ~Expired)),
                    IF p \in Root /\ refresh /\ ~cacheonly THEN oldest ELSE Absent)
    BY <1>2 DEF Begin
  <2>2. oldest \in MaybeVersion /\ Absent \in MaybeVersion
    BY CacheConstants DEF Version, MaybeVersion
  <2>3. note' \in [Procs -> Note]
    BY <2>1, <2>2, TypeStart
  <2>4. opt' \in [Procs -> Opt]
    BY <2>1 DEF Opt, CommandsOK
  <2>5. CommandsOK' /\ Steps'
    BY <1>2, <2>3, <2>4 DEF Begin, Goto, CommandsOK, StepOK, Pc
  <2>6. QED
    BY <1>1, <2>5
<1>3. CASE BeginClean(p)
  <2>1. PICK kind \in Cleans :
          /\ opt' = [opt EXCEPT ![p] = [NoOpt EXCEPT !.clean = kind]]
          /\ rm' = [rm EXCEPT ![p] = [todo |-> CleanSteps[kind], then |-> "cleaned",
                                      stuck |-> FALSE]]
    BY <1>3 DEF BeginClean
  <2>2. note' \in [Procs -> Note]
    <3>1. Absent \in MaybeVersion
      BY CacheConstants DEF MaybeVersion
    <3>2. QED
      BY <1>3, <3>1, TypeStart DEF BeginClean
  <2>3. opt' \in [Procs -> Opt] /\ rm' \in [Procs -> Rm]
    BY <2>1, OnErrorType DEF NoOpt, Opt, CommandsOK
  <2>4. CommandsOK' /\ Steps'
    BY <1>3, <2>1, <2>2, <2>3 DEF BeginClean, Goto, CommandsOK, StepOK, Pc
  <2>5. QED
    BY <1>1, <2>4
<1>4. QED
  BY <1>2, <1>3

LEMMA TypeRemoval ==
  ASSUME TypeInv, NEW p \in Procs,
         CheckExpired(p) \/ NextRemoval(p) \/ Removed(p)
  PROVE  TypeInv'
<1>1. WorldOK' /\ DiskOK'
  BY DEF CheckExpired, NextRemoval, Removed, WorldOK, DiskOK, world, disk, repodata
<1>2. CASE CheckExpired(p)
  <2>1. CASE Expired /\ ~opt[p].cacheonly
    <3> DEFINE r == [todo |-> <<"repodata", "solv">>, then |-> "start", stuck |-> FALSE]
    <3>1. r \in Rm /\ r.then = "start"
      BY OnErrorType
    <3>2. rm' = [rm EXCEPT ![p] = r]
      BY <1>2, <2>1 DEF CheckExpired
    <3> HIDE DEF r
    <3>3. rm' \in [Procs -> Rm]
      BY <3>1, <3>2 DEF CommandsOK
    <3>4. QED
      BY <1>1, <1>2, <2>1, <3>1, <3>2, <3>3 DEF CheckExpired, Goto, CommandsOK, StepOK, Pc
  <2>2. CASE ~(Expired /\ ~opt[p].cacheonly)
    BY <1>1, <1>2, <2>2 DEF CheckExpired, Goto, CommandsOK, StepOK, Pc
  <2>3. QED
    BY <2>1, <2>2
<1>3. CASE NextRemoval(p)
  <2>1. rm[p] \in Rm /\ rm[p].todo # <<>>
    BY <1>3 DEF NextRemoval, CommandsOK
  <2>2. Tail(rm[p].todo) \in Seq(Target)
    BY <2>1, HeadTailProperties DEF Rm
  <2>3. rm' \in [Procs -> Rm] /\ \A q \in Procs : rm'[q].then = rm[q].then
    BY <1>3, <2>1, <2>2 DEF NextRemoval, CommandsOK, Rm
  <2>4. QED
    BY <1>1, <1>3, <2>3 DEF NextRemoval, CommandsOK, StepOK
<1>4. CASE Removed(p)
  BY <1>1, <1>4 DEF Removed, Goto, locals, CommandsOK, StepOK, Pc
<1>5. QED
  BY <1>2, <1>3, <1>4

LEMMA TypeLookup ==
  ASSUME TypeInv, NEW p \in Procs,
         FindMirrors(p) \/ KeepRepomd(p) \/ Parse(p) \/ PartsThere(p) \/ Cookie(p)
  PROVE  TypeInv'
<1>1. WorldOK' /\ DiskOK'
  BY DEF FindMirrors, KeepRepomd, Parse, PartsThere, Cookie, WorldOK, DiskOK, world, disk,
         repodata
<1> USE DEF Goto, CommandsOK, StepOK, Pc
<1>2. CASE FindMirrors(p)
  BY <1>1, <1>2, SMTT(30) DEF FindMirrors, DiskOK, Loc
<1>3. CASE KeepRepomd(p)
  BY <1>1, <1>3 DEF KeepRepomd, locals
<1>4. CASE Parse(p)
  BY <1>1, <1>4, ConstantTypes DEF Parse, DiskOK, Loc, MaybeVersion, Version
<1>5. CASE PartsThere(p)
  BY <1>1, <1>5 DEF PartsThere, locals
<1>6. CASE Cookie(p)
  BY <1>1, <1>6 DEF Cookie, DiskOK, Loc, MaybeVersion, Version
<1>7. QED
  BY <1>2, <1>3, <1>4, <1>5, <1>6

LEMMA TypeLoad ==
  ASSUME TypeInv, NEW p \in Procs, UseSolv(p) \/ Build(p)
  PROVE  TypeInv'
<1>1. WorldOK' /\ DiskOK'
  BY DEF UseSolv, Build, WorldOK, DiskOK, world, disk, repodata
<1> USE DEF Goto, CommandsOK, StepOK, Pc
<1>2. CASE UseSolv(p)
  <2>1. PICK s \in solv : pool' = [pool EXCEPT ![p] = [version |-> s.cookie,
                                                      content |-> s.content]]
    BY <1>2 DEF UseSolv
  <2>2. [version |-> s.cookie, content |-> s.content] \in Pool
    BY DEF DiskOK, Pool
  <2>3. QED
    BY <1>1, <1>2, <2>1, <2>2 DEF UseSolv
<1>3. CASE Build(p)
  <2> DEFINE content == [q \in Parts |-> part[Name(q, loc[p].md)]]
  <2>1. content \in Content
    <3>1. SUFFICES ASSUME NEW q \in Parts PROVE part[Name(q, loc[p].md)] \in Version
      BY DEF Content
    <3>2. loc[p].md \in MaybeVersion
      BY DEF Loc
    <3>3. part[Name(q, loc[p].md)] \in MaybeVersion
      BY <3>2, NameType DEF DiskOK
    <3>4. part[Name(q, loc[p].md)] # Absent
      BY <1>3 DEF Build, Readable, Missing
    <3>5. QED
      BY <3>3, <3>4 DEF MaybeVersion, Version
  <2>2. [version |-> repomd, content |-> content] \in [version : Version, content : Content]
    BY <1>3, <2>1 DEF Build, Readable, DiskOK, MaybeVersion, Version
  <2>3. pool' = [pool EXCEPT ![p] = [version |-> repomd, content |-> content]]
    BY <1>3 DEF Build
  <2> HIDE DEF content
  <2>4. QED
    BY <1>1, <1>3, <2>2, <2>3 DEF Build, Pool
<1>4. QED
  BY <1>2, <1>3

(* The steps that write.                                                   *)

LEMMA CardinalityAtMostOne == Cardinality({}) <= 1 /\ \A s : Cardinality({s}) <= 1
  BY FS_EmptySet, FS_Singleton

LEMMA TypeRemove ==
  ASSUME TypeInv, NEW p \in Procs, Remove(p)
  PROVE  TypeInv'
<1>1. WorldOK'
  BY DEF Remove, WorldOK, world
<1>2. DiskOK'
  <2>1. CASE RemoveRepodata
    <3>1. repomd' \in MaybeVersion /\ metalink' \in MaybeVersion
      BY <2>1, CacheConstants DEF RemoveRepodata, DiskOK, MaybeVersion
    <3>2. part' \in [PartName -> MaybeVersion]
      BY <2>1, CacheConstants DEF RemoveRepodata, DiskOK, MaybeVersion
    <3>3. QED
      BY <2>1, <3>1, <3>2 DEF RemoveRepodata, DiskOK
  <2>2. ASSUME NEW t, RemoveOther(t) PROVE DiskOK'
    <3>1. solv' \in SUBSET [cookie : Version, content : Content] /\ Cardinality(solv') <= 1
      BY <2>2, CardinalityAtMostOne DEF RemoveOther, DiskOK
    <3>2. mirrorlist' \in Age /\ marker' \in Age
      BY <2>2, CacheConstants DEF RemoveOther, DiskOK, Age
    <3>3. rpms' \in SUBSET {KeptIn, LookedForIn}
      BY <2>2 DEF RemoveOther, DiskOK
    <3>4. QED
      BY <2>2, <3>1, <3>2, <3>3 DEF RemoveOther, DiskOK, repodata
  <2>3. QED
    BY <2>1, <2>2 DEF Remove
<1>3. CommandsOK' /\ Steps'
  BY DEF Remove, locals, CommandsOK, StepOK
<1>4. QED
  BY <1>1, <1>2, <1>3

LEMMA TypeRemoveFails ==
  ASSUME TypeInv, NEW p \in Procs, RemoveFails(p)
  PROVE  TypeInv'
<1>1. WorldOK' /\ DiskOK'
  BY CacheConstants DEF RemoveFails, CanFail, WorldOK, DiskOK, world, disk, repodata
<1>2. CASE rm[p].then \in {"start", "cleaned"}
  BY <1>1, <1>2, EndType DEF RemoveFails
<1>3. CASE rm[p].then \notin {"start", "cleaned"}
  <2>1. rm[p] \in Rm /\ rm[p].todo # <<>>
    BY DEF RemoveFails, CommandsOK
  <2>2. Tail(rm[p].todo) \in Seq(Target)
    BY <2>1, HeadTailProperties DEF Rm
  <2> DEFINE stuck == rm[p].stuck \/ Head(rm[p].todo) = "repodata"
  <2>3. stuck \in BOOLEAN
    BY <2>1 DEF Rm
  <2>4. rm' = [rm EXCEPT ![p] = [todo |-> Tail(rm[p].todo), then |-> rm[p].then,
                                 stuck |-> stuck]]
    BY <1>3, <2>1 DEF RemoveFails, CommandsOK, Rm
  <2> HIDE DEF stuck
  <2>5. rm' \in [Procs -> Rm] /\ \A q \in Procs : rm'[q].then = rm[q].then
    BY <2>1, <2>2, <2>3, <2>4 DEF CommandsOK, Rm
  <2>6. note' \in [Procs -> Note]
    <3>1. [note[p] EXCEPT !.upset = TRUE] \in Note
      BY NoteType DEF CommandsOK
    <3>2. QED
      BY <1>3, <3>1 DEF RemoveFails, CommandsOK
  <2>7. QED
    BY <1>1, <1>3, <2>5, <2>6 DEF RemoveFails, CommandsOK, StepOK
<1>4. QED
  BY <1>2, <1>3

LEMMA TypeEnd ==
  ASSUME TypeInv, NEW p \in Procs, Cleaned(p) \/ Failed(p) \/ Crash(p) \/ Finish(p)
  PROVE  TypeInv'
<1>1. WorldOK' /\ DiskOK'
  <2>1. WorldOK'
    <3>1. CASE Crash(p)
      BY <3>1, CacheConstants DEF Crash, CanFail, WorldOK, world
    <3>2. CASE Cleaned(p) \/ Failed(p) \/ Finish(p)
      <4>1. UNCHANGED <<world, checked, faults>>
        BY <3>2 DEF Cleaned, Failed, Finish
      <4>2. QED
        BY <4>1 DEF WorldOK, world
    <3>3. QED
      BY <3>1, <3>2
  <2>2. CASE Finish(p)
    <3>1. rpms' = rpms \/ rpms' = rpms \cup {KeptIn}
      BY <2>2 DEF Finish
    <3>2. rpms' \in SUBSET {KeptIn, LookedForIn}
      BY <3>1 DEF DiskOK
    <3>3. QED
      BY <2>1, <2>2, <3>2 DEF Finish, DiskOK, repodata
  <2>3. CASE Cleaned(p) \/ Failed(p) \/ Crash(p)
    BY <2>1, <2>3 DEF Cleaned, Failed, Crash, DiskOK, disk, repodata
  <2>4. QED
    BY <2>2, <2>3
<1>2. note[p].upset \in BOOLEAN
  BY NoteType DEF CommandsOK
<1>3. CommandsOK' /\ Steps'
  BY <1>2, EndType DEF Cleaned, Failed, Crash, Finish
<1>4. QED
  BY <1>1, <1>3

LEMMA TypeFails ==
  ASSUME TypeInv, NEW p \in Procs,
         \/ FetchListFails(p) \/ FetchRepomdFails(p) \/ InstallFails(p) \/ TouchFails(p)
         \/ ParseFails(p) \/ FetchPartFails(p) \/ CookieFails(p) \/ UseSolvFails(p)
         \/ BuildFails(p) \/ WriteSolvFails(p)
  PROVE  TypeInv'
<1>1. \A cause \in {"eacces", "digest", "exists", "missing", "cookie", "other"} :
        Fail(p, cause) => TypeInv'
  BY FailType
<1>2. CannotWrite(p) \/ CannotFetch(p) => TypeInv'
  BY <1>1, FailType DEF CannotWrite, CannotFetch, CanFail
<1>3. QED
  BY <1>1, <1>2 DEF FetchListFails, FetchRepomdFails, InstallFails, TouchFails, ParseFails,
       FetchPartFails, CookieFails, UseSolvFails, BuildFails, WriteSolvFails

LEMMA TypeFetch ==
  ASSUME TypeInv, NEW p \in Procs, FetchList(p) \/ FetchRepomd(p) \/ FetchPart(p)
  PROVE  TypeInv'
<1>1. \A m \in Mirrors : mirror[m] \in Version /\ mirror[m] \in MaybeVersion
  BY CacheConstants DEF WorldOK, Version, MaybeVersion
<1>2. CASE FetchList(p)
  <2>1. metalink' \in MaybeVersion /\ mirrorlist' \in Age
    BY <1>2, CacheConstants DEF FetchList, WorldOK, DiskOK, Version, MaybeVersion, Age
  <2>2. WorldOK' /\ DiskOK'
    BY <1>2, <2>1 DEF FetchList, WorldOK, DiskOK, world
  <2>3. CommandsOK' /\ Steps'
    BY <1>2, <2>1 DEF FetchList, Goto, CommandsOK, StepOK, Pc, Loc
  <2>4. QED
    BY <2>2, <2>3
<1>3. CASE FetchRepomd(p)
  <2>1. PICK down \in Downs, m \in Mirrors :
          /\ checked' = IF repomd = mirror[m] THEN 0 ELSE checked
          /\ faults' = IF down = {} THEN faults ELSE faults + 1
          /\ note' = [note EXCEPT ![p].calm = @ /\ down = {}]
          /\ loc' = [loc EXCEPT ![p].new = mirror[m]]
          /\ IF Same(repomd, mirror[m])
             THEN Goto(p, "touch") /\ UNCHANGED rm
             ELSE /\ Goto(p, "remove")
                  /\ rm' = [rm EXCEPT ![p] = [todo |-> Replaced, then |-> "install",
                                              stuck |-> FALSE]]
    BY <1>3 DEF FetchRepomd
  <2>2. WorldOK' /\ DiskOK'
    BY <1>3, <2>1, CacheConstants DEF FetchRepomd, Downs, CanFail, WorldOK, DiskOK, world, disk,
                                      repodata
  <2>3. note' \in [Procs -> Note]
    <3>1. note[p] \in Note /\ (note[p].calm /\ down = {}) \in BOOLEAN
      BY DEF CommandsOK
    <3>2. [note[p] EXCEPT !.calm = note[p].calm /\ down = {}] \in Note
      BY <3>1, NoteType
    <3>3. note' = [note EXCEPT ![p] = [note[p] EXCEPT !.calm = note[p].calm /\ down = {}]]
      BY <2>1 DEF CommandsOK
    <3>4. QED
      BY <3>2, <3>3 DEF CommandsOK
  <2>4. loc' \in [Procs -> Loc] /\ \A q \in Procs : loc'[q].md = loc[q].md
                                                 /\ loc'[q].cookie = loc[q].cookie
    BY <1>1, <2>1 DEF CommandsOK, Loc
  <2>5. CASE Same(repomd, mirror[m])
    BY <1>3, <2>1, <2>2, <2>3, <2>4, <2>5 DEF FetchRepomd, Goto, CommandsOK, StepOK, Pc
  <2>6. CASE ~Same(repomd, mirror[m])
    <3> DEFINE r == [todo |-> Replaced, then |-> "install", stuck |-> FALSE]
    <3>1. r \in Rm /\ r.then = "install" /\ rm' = [rm EXCEPT ![p] = r]
      BY <2>1, <2>6, OnErrorType
    <3> HIDE DEF r
    <3>2. rm' \in [Procs -> Rm]
      BY <3>1 DEF CommandsOK
    <3>3. QED
      BY <1>3, <2>1, <2>2, <2>3, <2>4, <2>6, <3>1, <3>2
         DEF FetchRepomd, Goto, CommandsOK, StepOK, Pc
  <2>7. QED
    BY <2>5, <2>6
<1>4. CASE FetchPart(p)
  <2>1. PICK q \in Missing(p), down \in Downs, m \in Mirrors :
          /\ part' = [part EXCEPT ![Name(q, loc[p].md)] = mirror[m]]
          /\ faults' = IF down = {} THEN faults ELSE faults + 1
          /\ note' = [note EXCEPT ![p].calm = @ /\ down = {}]
    BY <1>4 DEF FetchPart
  <2>2. WorldOK'
    BY <1>4, <2>1, CacheConstants DEF FetchPart, Downs, CanFail, WorldOK, world
  <2>3. DiskOK'
    BY <1>1, <1>4, <2>1 DEF FetchPart, DiskOK
  <2>4. note' \in [Procs -> Note]
    <3>1. note[p] \in Note /\ (note[p].calm /\ down = {}) \in BOOLEAN
      BY DEF CommandsOK
    <3>2. [note[p] EXCEPT !.calm = note[p].calm /\ down = {}] \in Note
      BY <3>1, NoteType
    <3>3. note' = [note EXCEPT ![p] = [note[p] EXCEPT !.calm = note[p].calm /\ down = {}]]
      BY <2>1 DEF CommandsOK
    <3>4. QED
      BY <3>2, <3>3 DEF CommandsOK
  <2>5. QED
    BY <1>4, <2>2, <2>3, <2>4 DEF FetchPart, locals, CommandsOK, StepOK
<1>5. QED
  BY <1>2, <1>3, <1>4

LEMMA TypeWrite ==
  ASSUME TypeInv, NEW p \in Procs, Install(p) \/ Touch(p) \/ WriteSolv(p)
  PROVE  TypeInv'
<1>1. WorldOK'
  BY CacheConstants DEF Install, Touch, WriteSolv, WorldOK, world
<1>2. DiskOK'
  <2>1. CASE Install(p)
    BY <2>1 DEF Install, CommandsOK, Loc, DiskOK
  <2>2. CASE Touch(p)
    BY <2>2, CacheConstants DEF Touch, DiskOK, Age, repodata
  <2>3. CASE WriteSolv(p)
    <3>1. loc[p].cookie \in Version /\ pool[p].content \in Content
      BY <2>3 DEF WriteSolv, StepOK
    <3>2. solv' \in SUBSET [cookie : Version, content : Content]
      BY <2>3, <3>1 DEF WriteSolv
    <3>3. Cardinality(solv') <= 1
      BY <2>3, CardinalityAtMostOne DEF WriteSolv
    <3>4. QED
      BY <2>3, <3>2, <3>3 DEF WriteSolv, DiskOK, repodata
  <2>4. QED
    BY <2>1, <2>2, <2>3
<1>3. CommandsOK' /\ Steps'
  BY DEF Install, Touch, WriteSolv, Goto, locals, CommandsOK, StepOK, Pc
<1>4. QED
  BY <1>1, <1>2, <1>3
-----------------------------------------------------------------------------
LEMMA TypeWorld ==
  ASSUME TypeInv, Publish \/ (\E m \in Mirrors : Sync(m)) \/ Tick
  PROVE  TypeInv'
<1>1. ASSUME Unsettled PROVE note' \in [Procs -> Note]
  <2>1. SUFFICES ASSUME NEW q \in Procs PROVE note'[q] \in Note
    BY <1>1 DEF Unsettled
  <2>2. note[q] \in Note /\ (note[q].calm /\ ~Running(q)) \in BOOLEAN
    BY DEF CommandsOK
  <2>3. [note[q] EXCEPT !.calm = note[q].calm /\ ~Running(q)] \in Note
    BY <2>2, NoteType
  <2>4. QED
    BY <1>1, <2>3 DEF Unsettled
<1>2. CASE Publish
  BY <1>1, <1>2, CacheConstants DEF Publish, WorldOK, DiskOK, CommandsOK, StepOK, disk, repodata,
                                    locals, Version
<1>3. ASSUME NEW m \in Mirrors, Sync(m) PROVE TypeInv'
  BY <1>1, <1>3, CacheConstants DEF Sync, WorldOK, DiskOK, CommandsOK, StepOK, disk, repodata,
                                    locals, Version
<1>4. CASE Tick
  <2>1. \A age \in Age : Older(age) \in Age
    BY CacheConstants DEF Older, Age
  <2>2. checked' \in 0..MaxAge
    BY <1>4, CacheConstants DEF Tick, Older, WorldOK
  <2>3. QED
    BY <1>4, <2>1, <2>2 DEF Tick, WorldOK, DiskOK, CommandsOK, StepOK, world, repodata, locals
<1>5. QED
  BY <1>2, <1>3, <1>4

LEMMA TypeStutter == TypeInv /\ UNCHANGED vars => TypeInv'
  BY DEF vars, WorldOK, DiskOK, CommandsOK, StepOK, world, disk, repodata, locals

LEMMA TypeStep == TypeInv /\ [Next]_vars => TypeInv'
  BY TypeBegin, TypeRemoval, TypeLookup, TypeLoad, TypeRemove, TypeRemoveFails, TypeEnd,
     TypeFails, TypeFetch, TypeWrite, TypeWorld, TypeStutter DEF Next, Step

(* Every variable of the cache keeps its type, for any number of commands, *)
(* mirrors, parts and versions, in every configuration: what TDNFGetRepoMD *)
(* and TDNFInitRepo use at each of their steps is set.                     *)
THEOREM CacheTypes == Spec => []TypeOK
<1>1. Init => TypeInv
  BY TypeInit
<1>2. TypeInv /\ [Next]_vars => TypeInv'
  BY TypeStep
<1>3. TypeInv => TypeOK
  OBVIOUS
<1> HIDE DEF TypeInv, TypeOK
<1>4. QED
  BY <1>1, <1>2, <1>3, PTL DEF Spec
-----------------------------------------------------------------------------
(***************************************************************************)
(* Versions are not mixed, if the locations of the parts hold checksums.   *)
(* The files themselves are honest, and a privileged command may rely on   *)
(* the repomd file it parsed, because no other one replaces it meanwhile;  *)
(* an unprivileged one may not, but writes nothing.                        *)
(***************************************************************************)
Replacing(p) == pc[p] = "install" \/ (pc[p] = "remove" /\ rm[p].then = "install")
Installing(p) == Replacing(p) \/ pc[p] = "touch"
OneRoot ==
    /\ \A p, q \in Root : Running(p) /\ Running(q) => p = q
    /\ \A p \in Procs : Installing(p) => p \in Root
PartsHonest == \A q \in Parts, v \in Version : part[<<q, v>>] \in {Absent, v}
RootKnows(p) ==
    /\ pc[p] \in {"parts", "cookie", "use"} => loc[p].md = repomd
    /\ pc[p] = "use" => loc[p].cookie = repomd
    /\ pc[p] = "write" => /\ pool[p].version = loc[p].cookie
                          /\ Describes(loc[p].cookie, pool[p].content)
Honest ==
    conf.unique => /\ PartsHonest /\ SolvHonest
                   /\ \A p \in Root : RootKnows(p)
                   /\ \A p \in Procs : Loaded(p) => Describes(pool[p].version, pool[p].content)
VersionInv == TypeInv /\ OneRoot /\ Honest

LEMMA RootIsProc == \A p \in Root : p \in Procs
  BY CacheConstants

LEMMA FailMoves ==
  ASSUME TypeInv, NEW p \in Procs, NEW cause, Fail(p, cause)
  PROVE  /\ pc' = [pc EXCEPT ![p] = "remove"] /\ Running(p)' /\ ~Installing(p)'
         /\ \A q \in Procs \ {p} : pc'[q] = pc[q] /\ rm'[q] = rm[q] /\ loc'[q] = loc[q]
                                  /\ pool'[q] = pool[q]
         /\ UNCHANGED <<conf, repomd, part, solv>>
  BY DEF Fail, Goto, CommandsOK, Installing, Replacing, Running, world, disk, repodata

LEMMA EndMoves ==
  ASSUME TypeInv, NEW p \in Procs, NEW outcome, NEW upset, End(p, outcome, upset)
  PROVE  /\ pc' = [pc EXCEPT ![p] = "ended"] /\ ~Running(p)' /\ ~Installing(p)'
         /\ \A q \in Procs \ {p} : pc'[q] = pc[q] /\ rm'[q] = rm[q] /\ loc'[q] = loc[q]
                                  /\ pool'[q] = pool[q]
  BY DEF End, Goto, CommandsOK, Installing, Replacing, Running

(* What a step of one command leaves alone in the others.                  *)
Others(p) ==
    \A q \in Procs \ {p} : /\ pc'[q] = pc[q] /\ rm'[q] = rm[q]
                          /\ loc'[q] = loc[q] /\ pool'[q] = pool[q]
Fails(p) ==
    \/ FetchListFails(p) \/ FetchRepomdFails(p) \/ InstallFails(p) \/ TouchFails(p)
    \/ ParseFails(p) \/ FetchPartFails(p) \/ CookieFails(p) \/ UseSolvFails(p)
    \/ BuildFails(p) \/ WriteSolvFails(p)
Ends(p) == Cleaned(p) \/ Failed(p) \/ Crash(p) \/ Finish(p)

LEMMA FailsMove ==
  ASSUME TypeInv, NEW p \in Procs, Fails(p)
  PROVE  /\ Others(p) /\ Running(p) /\ pc'[p] = "remove" /\ ~Installing(p)'
         /\ UNCHANGED <<conf, repomd, part, solv>>
<1>1. PICK cause : Fail(p, cause)
  BY DEF Fails, FetchListFails, FetchRepomdFails, InstallFails, TouchFails, ParseFails,
         FetchPartFails, CookieFails, UseSolvFails, BuildFails, WriteSolvFails, CannotWrite,
         CannotFetch
<1>2. Running(p)
  BY DEF Fails, FetchListFails, FetchRepomdFails, InstallFails, TouchFails, ParseFails,
         FetchPartFails, CookieFails, UseSolvFails, BuildFails, WriteSolvFails, Running
<1>3. pc'[p] = "remove"
  BY <1>1, FailMoves DEF CommandsOK
<1>4. QED
  BY <1>1, <1>2, <1>3, FailMoves DEF Others

LEMMA EndsMove ==
  ASSUME TypeInv, NEW p \in Procs, Ends(p)
  PROVE  /\ Others(p) /\ pc'[p] = "ended" /\ ~Running(p)' /\ ~Installing(p)'
         /\ UNCHANGED <<conf, repomd, part, solv>>
<1>1. PICK outcome, upset : End(p, outcome, upset)
  BY DEF Ends, Cleaned, Failed, Crash, Finish
<1>2. UNCHANGED <<conf, repomd, part, solv>>
  BY DEF Ends, Cleaned, Failed, Crash, Finish, world, disk, repodata
<1>3. QED
  BY <1>1, <1>2, EndMoves DEF Others, CommandsOK

LEMMA OneRootStart ==
  ASSUME TypeInv, OneRoot, NEW p \in Procs, Begin(p) \/ BeginClean(p)
  PROVE  OneRoot'
<1>1. /\ pc' \in [Procs -> Pc] /\ pc'[p] \in {"expire", "remove"}
      /\ pc'[p] = "remove" => rm'[p].then = "cleaned"
      /\ \A q \in Procs \ {p} : pc'[q] = pc[q] /\ rm'[q] = rm[q]
  <2>1. CASE Begin(p)
    BY <2>1 DEF Begin, Goto, CommandsOK, Pc
  <2>2. CASE BeginClean(p)
    <3>1. PICK kind \in Cleans :
            rm' = [rm EXCEPT ![p] = [todo |-> CleanSteps[kind], then |-> "cleaned",
                                     stuck |-> FALSE]]
      BY <2>2 DEF BeginClean
    <3>2. pc' = [pc EXCEPT ![p] = "remove"]
      BY <2>2 DEF BeginClean, Goto
    <3>3. QED
      BY <3>1, <3>2 DEF CommandsOK, Pc
  <2>3. QED
    BY <2>1, <2>2
<1>2. \A q \in Root : p \in Root => ~Running(q)
  BY DEF Begin, BeginClean, MayStart
<1>3. QED
  BY <1>1, <1>2, RootIsProc DEF OneRoot, Running, Installing, Replacing

LEMMA OneRootStep == TypeInv /\ OneRoot /\ [Next]_vars => OneRoot'
<1> SUFFICES ASSUME TypeInv, OneRoot, [Next]_vars PROVE OneRoot'
  OBVIOUS
<1>1. ASSUME NEW p \in Procs, Others(p), Running(p) \/ ~Running(p)',
             Installing(p)' => Installing(p) \/ p \in Root
      PROVE  OneRoot'
  BY <1>1, RootIsProc DEF OneRoot, Others, Running, Installing, Replacing
<1>2. ASSUME NEW p \in Procs, Fails(p) \/ Ends(p) PROVE OneRoot'
  BY <1>1, <1>2, FailsMove, EndsMove
<1>3. ASSUME NEW p \in Procs, CheckExpired(p) \/ FetchRepomd(p) PROVE OneRoot'
  <2>1. CASE CheckExpired(p)
    <3>1. Others(p) /\ Running(p)
      BY <2>1 DEF CheckExpired, Goto, CommandsOK, Others, Running
    <3>2. ~Installing(p)'
      BY <2>1 DEF CheckExpired, Goto, CommandsOK, Installing, Replacing
    <3>3. QED
      BY <1>1, <3>1, <3>2
  <2>2. CASE FetchRepomd(p)
    <3>1. Others(p) /\ Running(p) /\ p \in Root
      BY <2>2 DEF FetchRepomd, Goto, CommandsOK, Others, Running
    <3>2. QED
      BY <1>1, <3>1
  <2>3. QED
    BY <1>3, <2>1, <2>2
<1>4. ASSUME NEW p \in Procs, NextRemoval(p) \/ Removed(p) PROVE OneRoot'
  <2>1. rm'[p].then = rm[p].then /\ Others(p)
    BY <1>4 DEF NextRemoval, Removed, Goto, CommandsOK, Others, Rm, locals
  <2>2. Running(p) /\ (Installing(p)' => Installing(p))
    BY <1>4, <2>1 DEF NextRemoval, Removed, Goto, CommandsOK, Running, Installing,
                Replacing, StepOK, locals
  <2>3. QED
    BY <1>1, <2>1, <2>2
<1>5. ASSUME NEW p \in Procs, RemoveFails(p) PROVE OneRoot'
  <2>1. CASE rm[p].then \in {"start", "cleaned"}
    BY <1>1, <1>5, <2>1, EndMoves DEF RemoveFails, Others
  <2>2. CASE rm[p].then \notin {"start", "cleaned"}
    <3>1. rm'[p].then = rm[p].then /\ Others(p)
      BY <1>5, <2>2 DEF RemoveFails, CommandsOK, Others, Rm
    <3>2. QED
      BY <1>1, <1>5, <2>2, <3>1 DEF RemoveFails, Running, Installing, Replacing
  <2>3. QED
    BY <2>1, <2>2
<1>6. ASSUME NEW p \in Procs,
             FindMirrors(p) \/ KeepRepomd(p) \/ Parse(p) \/ PartsThere(p) \/ Cookie(p)
               \/ UseSolv(p) \/ Build(p) \/ FetchList(p)
      PROVE  OneRoot'
  <2>1. Others(p)
    BY <1>6 DEF FindMirrors, KeepRepomd, Parse, PartsThere, Cookie, UseSolv, Build, FetchList,
                Goto, CommandsOK, Others, locals
  <2>2. Running(p) /\ ~Installing(p)'
    BY <1>6 DEF FindMirrors, KeepRepomd, Parse, PartsThere, Cookie, UseSolv, Build, FetchList,
                Goto, CommandsOK, Running, Installing, Replacing
  <2>3. QED
    BY <1>1, <2>1, <2>2
<1>7. ASSUME NEW p \in Procs,
             Remove(p) \/ FetchPart(p) \/ Install(p) \/ Touch(p) \/ WriteSolv(p)
      PROVE  OneRoot'
  BY <1>1, <1>7 DEF Remove, FetchPart, Install, Touch, WriteSolv,
                    Goto, CommandsOK, Others, Running, Installing, Replacing, locals
<1>8. CASE UNCHANGED vars \/ Publish \/ (\E m \in Mirrors : Sync(m)) \/ Tick
  BY <1>8 DEF vars, Publish, Sync, Tick, OneRoot, Running, Installing, Replacing, locals
<1>9. ASSUME NEW p \in Procs, Step(p) PROVE OneRoot'
  BY <1>2, <1>3, <1>4, <1>5, <1>6, <1>7, <1>9 DEF Step, Fails, Ends
<1>10. ASSUME NEW p \in Procs, Crash(p) PROVE OneRoot'
  BY <1>2, <1>10 DEF Ends
<1>11. QED
  BY <1>8, <1>9, <1>10, OneRootStart DEF Next

LEMMA HonestOthers ==
  ASSUME Honest, NEW p \in Procs, Others(p), UNCHANGED <<conf, repomd, part, solv>>,
         conf.unique /\ p \in Root => RootKnows(p)',
         conf.unique /\ Loaded(p)' => Describes(pool[p].version, pool[p].content)'
  PROVE  Honest'
<1>1. PartsHonest' = PartsHonest /\ SolvHonest' = SolvHonest
  BY DEF PartsHonest, SolvHonest, Describes
<1>2. \A q \in Root \ {p} : RootKnows(q)' = RootKnows(q)
  BY RootIsProc DEF Others, RootKnows, Describes
<1>3. \A q \in Procs \ {p} : Loaded(q)' = Loaded(q) /\ pool'[q] = pool[q]
  BY DEF Others, Loaded
<1>4. QED
  BY <1>1, <1>2, <1>3 DEF Honest, Describes

Knowing == {"parts", "cookie", "use", "write", "loaded"}

LEMMA HonestQuiet ==
  ASSUME Honest, NEW p \in Procs, Others(p), UNCHANGED <<conf, repomd, part, solv>>,
         pc'[p] \notin Knowing
  PROVE  Honest'
<1>1. RootKnows(p)' /\ ~Loaded(p)'
  BY DEF Knowing, RootKnows, Loaded
<1>2. QED
  BY <1>1, HonestOthers

LEMMA HonestStart ==
  ASSUME TypeInv, Honest, NEW p \in Procs,
         \/ Begin(p) \/ BeginClean(p) \/ CheckExpired(p) \/ NextRemoval(p) \/ Removed(p)
         \/ RemoveFails(p)
  PROVE  Honest'
<1>1. Others(p)
  <2>1. CASE RemoveFails(p) /\ rm[p].then \in {"start", "cleaned"}
    BY <2>1, EndMoves DEF RemoveFails, Others
  <2>2. CASE RemoveFails(p) /\ rm[p].then \notin {"start", "cleaned"}
    BY <2>2 DEF RemoveFails, CommandsOK, Others
  <2>3. CASE Begin(p) \/ BeginClean(p)
    BY <2>3 DEF Begin, BeginClean, Goto, CommandsOK, Others
  <2>4. CASE CheckExpired(p) \/ NextRemoval(p) \/ Removed(p)
    BY <2>4 DEF CheckExpired, NextRemoval, Removed, Goto, CommandsOK, Others, locals
  <2>5. QED
    BY <2>1, <2>2, <2>3, <2>4
<1>2. UNCHANGED <<conf, repomd, part, solv>>
  BY DEF Begin, BeginClean, CheckExpired, NextRemoval, Removed, RemoveFails, world, disk, repodata
<1>3. pc'[p] \notin Knowing
  <2>1. CASE RemoveFails(p) /\ rm[p].then \in {"start", "cleaned"}
    BY <2>1 DEF RemoveFails, End, Goto, CommandsOK, Knowing
  <2>2. CASE RemoveFails(p) /\ rm[p].then \notin {"start", "cleaned"}
    BY <2>2 DEF RemoveFails, CommandsOK, Knowing
  <2>3. CASE Begin(p) \/ BeginClean(p) \/ CheckExpired(p) \/ NextRemoval(p)
    BY <2>3 DEF Begin, BeginClean, CheckExpired, NextRemoval, Goto, CommandsOK, Knowing
  <2>4. CASE Removed(p)
    BY <2>4 DEF Removed, Goto, CommandsOK, StepOK, Knowing
  <2>5. QED
    BY <2>1, <2>2, <2>3, <2>4
<1>4. QED
  BY <1>1, <1>2, <1>3, HonestQuiet

LEMMA HonestFetch ==
  ASSUME TypeInv, Honest, NEW p \in Procs,
         FindMirrors(p) \/ FetchList(p) \/ KeepRepomd(p) \/ FetchRepomd(p) \/ Touch(p)
  PROVE  Honest'
<1>1. CASE FindMirrors(p) \/ FetchList(p) \/ KeepRepomd(p)
  <2>1. Others(p)
    BY <1>1 DEF FindMirrors, FetchList, KeepRepomd, Goto, CommandsOK, Others, locals
  <2>2. UNCHANGED <<conf, repomd, part, solv>>
    BY <1>1 DEF FindMirrors, FetchList, KeepRepomd, world, disk, repodata
  <2>3. pc'[p] \notin Knowing
    BY <1>1 DEF FindMirrors, FetchList, KeepRepomd, Goto, CommandsOK, Knowing
  <2>4. QED
    BY <2>1, <2>2, <2>3, HonestQuiet
<1>2. CASE FetchRepomd(p)
  <2>1. /\ \A q \in Procs \ {p} : loc'[q] = loc[q] /\ rm'[q] = rm[q]
        /\ \E next \in {"touch", "remove"} : Goto(p, next)
        /\ pool' = pool
    BY <1>2 DEF FetchRepomd, CommandsOK
  <2>2. UNCHANGED <<conf, repomd, part, solv>>
    BY <1>2 DEF FetchRepomd, world, disk, repodata
  <2>3. Others(p)
    BY <2>1 DEF Goto, Others, CommandsOK
  <2>4. pc'[p] \notin Knowing
    BY <2>1 DEF Goto, CommandsOK, Knowing
  <2>5. QED
    BY <2>2, <2>3, <2>4, HonestQuiet
<1>3. CASE Touch(p)
  <2>1. Others(p)
    BY <1>3 DEF Touch, Goto, CommandsOK, Others, locals
  <2>2. UNCHANGED <<conf, repomd, part, solv>>
    BY <1>3 DEF Touch, world, disk, repodata
  <2>3. pc'[p] \notin Knowing
    BY <1>3 DEF Touch, Goto, CommandsOK, Knowing
  <2>4. QED
    BY <2>1, <2>2, <2>3, HonestQuiet
<1>4. QED
  BY <1>1, <1>2, <1>3

LEMMA HonestKnows ==
  ASSUME TypeInv, Honest, NEW p \in Procs, Parse(p) \/ PartsThere(p) \/ Cookie(p)
  PROVE  Honest'
<1>1. Others(p)
  BY DEF Parse, PartsThere, Cookie, Goto, CommandsOK, Others, locals
<1>2. UNCHANGED <<conf, repomd, part, solv>>
  BY DEF Parse, PartsThere, Cookie, world, disk, repodata
<1>3. ~Loaded(p)'
  BY DEF Parse, PartsThere, Cookie, Goto, CommandsOK, Loaded
<1>4. ASSUME conf.unique, p \in Root PROVE RootKnows(p)'
  <2>1. RootKnows(p)
    BY <1>4 DEF Honest
  <2>2. CASE Parse(p)
    BY <2>2 DEF Parse, Goto, CommandsOK, Loc, RootKnows, disk, repodata
  <2>3. CASE PartsThere(p)
    BY <2>1, <2>3 DEF PartsThere, Goto, CommandsOK, RootKnows, disk, repodata, locals
  <2>4. CASE Cookie(p)
    BY <2>1, <2>4 DEF Cookie, Goto, CommandsOK, Loc, RootKnows, disk, repodata
  <2>5. QED
    BY <2>2, <2>3, <2>4
<1>5. QED
  BY <1>1, <1>2, <1>3, <1>4, HonestOthers

LEMMA HonestLoad ==
  ASSUME TypeInv, Honest, NEW p \in Procs, UseSolv(p) \/ Build(p)
  PROVE  Honest'
<1>1. Others(p)
  BY DEF UseSolv, Build, Goto, CommandsOK, Others
<1>2. UNCHANGED <<conf, repomd, part, solv>>
  BY DEF UseSolv, Build, world, disk, repodata
<1>3. CASE UseSolv(p)
  <2>1. RootKnows(p)'
    BY <1>3 DEF UseSolv, Goto, CommandsOK, RootKnows
  <2>2. PICK s \in solv : pool'[p] = [version |-> s.cookie, content |-> s.content]
    BY <1>3 DEF UseSolv, CommandsOK
  <2>3. conf.unique => Describes(pool[p].version, pool[p].content)'
    BY <2>2 DEF Honest, SolvHonest, Describes
  <2>4. QED
    BY <1>1, <1>2, <2>1, <2>3, HonestOthers
<1>4. CASE Build(p)
  <2>1. pc'[p] = "write" /\ loc' = loc
    BY <1>4 DEF Build, Goto, CommandsOK
  <2>2. pool'[p] = [version |-> repomd, content |-> [q \in Parts |-> part[Name(q, loc[p].md)]]]
    BY <1>4 DEF Build, CommandsOK
  <2>3. ASSUME conf.unique, p \in Root PROVE RootKnows(p)'
    <3>1. pc[p] = "use" /\ loc[p].md = repomd /\ loc[p].cookie = repomd
      BY <1>4, <2>3 DEF Build, Honest, RootKnows
    <3>2. \A q \in Parts : part[Name(q, repomd)] = repomd
      <4>1. TAKE q \in Parts
      <4>2. repomd \in Version
        BY <3>1 DEF StepOK
      <4>3. Name(q, repomd) = <<q, repomd>>
        BY <2>3 DEF Name
      <4>4. part[<<q, repomd>>] # Absent
        BY <1>4, <3>1, <4>3 DEF Build, Readable, Missing
      <4>5. QED
        BY <2>3, <4>2, <4>3, <4>4 DEF Honest, PartsHonest
    <3>3. Describes(repomd, pool'[p].content)
      BY <2>2, <3>1, <3>2 DEF Describes
    <3>4. QED
      BY <2>1, <2>2, <3>1, <3>3 DEF RootKnows, Describes
  <2>4. ~Loaded(p)'
    BY <2>1 DEF Loaded
  <2>5. QED
    BY <1>1, <1>2, <2>3, <2>4, HonestOthers
<1>5. QED
  BY <1>3, <1>4

(* The steps that change files are those of a privileged command, and then *)
(* no other one has read them.                                             *)
LEMMA HonestFiles ==
  ASSUME TypeInv, OneRoot, Honest, NEW p \in Root, Running(p), Others(p), pool' = pool,
         conf' = conf, conf.unique => PartsHonest' /\ SolvHonest', pc'[p] \notin Knowing
  PROVE  Honest'
<1>1. ASSUME NEW q \in Root PROVE RootKnows(q)'
  <2>1. CASE q = p
    BY <2>1 DEF RootKnows, Knowing
  <2>2. CASE q # p
    <3>1. ~Running(q)
      BY <2>2 DEF OneRoot
    <3>2. pc'[q] \in {"idle", "ended"}
      BY <2>2, <3>1, RootIsProc DEF Others, Running
    <3>3. QED
      BY <3>2 DEF RootKnows
  <2>3. QED
    BY <2>1, <2>2
<1>2. \A q \in Procs : Loaded(q)' => Loaded(q)
  BY DEF Others, Loaded, Knowing
<1>3. QED
  BY <1>1, <1>2 DEF Honest, Describes

LEMMA PartUpdate ==
  ASSUME TypeInv, PartsHonest, NEW n \in PartName, NEW c \in {Absent, n[2]},
         part' = [part EXCEPT ![n] = c]
  PROVE  PartsHonest'
<1>1. SUFFICES ASSUME NEW q \in Parts, NEW v \in Version PROVE part'[<<q, v>>] \in {Absent, v}
  BY DEF PartsHonest
<1>2. part[<<q, v>>] \in {Absent, v} /\ <<q, v>> \in PartName
  BY CacheConstants DEF PartsHonest, PartName, MaybeVersion, Version
<1>3. CASE n = <<q, v>>
  BY <1>2, <1>3 DEF DiskOK
<1>4. CASE n # <<q, v>>
  BY <1>2, <1>4 DEF DiskOK
<1>5. QED
  BY <1>3, <1>4

LEMMA HonestReplace ==
  ASSUME TypeInv, OneRoot, Honest, NEW p \in Procs, Remove(p) \/ Install(p)
  PROVE  Honest'
<1>1. /\ p \in Root /\ Running(p) /\ Others(p) /\ pc'[p] \notin Knowing
      /\ pool' = pool /\ conf' = conf
  BY DEF Remove, Install, Goto, CommandsOK, OneRoot, Installing, Replacing, Running, Others,
         Knowing, world, locals
<1>2. ASSUME conf.unique PROVE PartsHonest'
  <2>1. PartsHonest
    BY <1>2 DEF Honest
  <2>2. CASE Install(p) \/ RemoveOther(Head(rm[p].todo))
    BY <2>1, <2>2 DEF Install, RemoveOther, PartsHonest, repodata
  <2>3. CASE RemoveRepodata
    <3>1. part' = part \/ \E n \in PartName : part' = [part EXCEPT ![n] = Absent]
      BY <2>3 DEF RemoveRepodata
    <3>2. QED
      BY <2>1, <3>1, PartUpdate DEF PartsHonest
  <2>4. QED
    BY <2>2, <2>3 DEF Remove
<1>3. ASSUME conf.unique PROVE SolvHonest'
  BY <1>3 DEF Remove, RemoveRepodata, RemoveOther, Install, Honest, SolvHonest, Describes
<1>4. QED
  BY <1>1, <1>2, <1>3, HonestFiles

LEMMA HonestPart ==
  ASSUME TypeInv, Honest, NEW p \in Procs, FetchPart(p)
  PROVE  Honest'
<1>1. /\ pc' = pc /\ loc' = loc /\ pool' = pool /\ pc[p] = "parts"
      /\ UNCHANGED <<conf, repomd, solv>>
  BY DEF FetchPart, locals, world
<1>2. ASSUME conf.unique PROVE PartsHonest'
  <2>1. PICK q \in Missing(p), m \in Mirrors :
          /\ HasPart(p, m)
          /\ part' = [part EXCEPT ![Name(q, loc[p].md)] = mirror[m]]
    BY DEF FetchPart, First
  <2>2. mirror[m] = loc[p].md /\ Name(q, loc[p].md) = <<q, loc[p].md>>
    BY <1>2, <2>1 DEF HasPart, Name
  <2>3. PartsHonest
    BY <1>2 DEF Honest
  <2>4. <<q, loc[p].md>> \in PartName
    BY DEF Missing, CommandsOK, Loc, PartName
  <2>5. QED
    BY <2>1, <2>2, <2>3, <2>4, PartUpdate
<1>3. QED
  BY <1>1, <1>2 DEF Honest, SolvHonest, RootKnows, Loaded, Describes

LEMMA HonestWrite ==
  ASSUME TypeInv, OneRoot, Honest, NEW p \in Procs, WriteSolv(p)
  PROVE  Honest'
<1>1. /\ pc' = [pc EXCEPT ![p] = "loaded"] /\ pc[p] = "write" /\ p \in Root
      /\ loc' = loc /\ pool' = pool /\ UNCHANGED <<conf, repomd, part>>
      /\ solv' = {[cookie |-> loc[p].cookie, content |-> pool[p].content]}
  BY DEF WriteSolv, Goto, world, repodata, locals
<1>2. ASSUME conf.unique
      PROVE  pool[p].version = loc[p].cookie /\ Describes(loc[p].cookie, pool[p].content)
  BY <1>1, <1>2 DEF Honest, RootKnows
<1>3. ASSUME conf.unique PROVE PartsHonest' /\ SolvHonest'
  BY <1>1, <1>2, <1>3 DEF Honest, PartsHonest, SolvHonest, Describes
<1>4. ASSUME conf.unique, NEW q \in Root PROVE RootKnows(q)'
  BY <1>1, <1>4, RootIsProc DEF Honest, RootKnows, CommandsOK, Describes
<1>5. ASSUME conf.unique, NEW q \in Procs, Loaded(q)'
      PROVE  Describes(pool[q].version, pool[q].content)'
  BY <1>1, <1>2, <1>5 DEF Honest, Loaded, CommandsOK, Describes
<1>6. QED
  BY <1>1, <1>3, <1>4, <1>5 DEF Honest

LEMMA HonestStep == VersionInv /\ [Next]_vars => Honest'
<1> SUFFICES ASSUME VersionInv, [Next]_vars PROVE Honest'
  OBVIOUS
<1> USE DEF VersionInv
<1>1. ASSUME NEW p \in Procs, Fails(p) \/ Ends(p) PROVE Honest'
  <2>1. pc'[p] \notin Knowing /\ Others(p) /\ UNCHANGED <<conf, repomd, part, solv>>
    BY <1>1, FailsMove, EndsMove DEF Knowing
  <2>2. QED
    BY <2>1, HonestQuiet
<1>2. ASSUME NEW p \in Procs, Step(p) PROVE Honest'
  BY <1>1, <1>2, HonestStart, HonestFetch, HonestKnows, HonestLoad, HonestReplace, HonestPart,
     HonestWrite DEF Step, Fails, Ends
<1>3. ASSUME NEW p \in Procs, Crash(p) PROVE Honest'
  BY <1>1, <1>3 DEF Ends
<1>4. CASE UNCHANGED vars \/ Publish \/ (\E m \in Mirrors : Sync(m)) \/ Tick
  <2>1. UNCHANGED <<conf, repomd, part, solv, pc, loc, pool>>
    BY <1>4 DEF vars, Publish, Sync, Tick, world, disk, repodata, locals
  <2>2. QED
    BY <2>1 DEF Honest, PartsHonest, SolvHonest, RootKnows, Loaded, Describes
<1>5. QED
  BY <1>2, <1>3, <1>4, HonestStart DEF Next

LEMMA VersionInit == Init => VersionInv
<1> SUFFICES ASSUME Init PROVE VersionInv
  OBVIOUS
<1>1. TypeInv
  BY TypeInit
<1>2. OneRoot
  BY RootIsProc DEF Init, OneRoot, Running, Installing, Replacing
<1>3. PartsHonest
  BY CacheConstants DEF Init, PartsHonest, PartName, Version, MaybeVersion
<1>4. Honest
  BY <1>3, RootIsProc DEF Init, Honest, SolvHonest, RootKnows, Loaded
<1>5. QED
  BY <1>1, <1>2, <1>4 DEF VersionInv

LEMMA VersionStep == VersionInv /\ [Next]_vars => VersionInv'
  BY TypeStep, OneRootStep, HonestStep DEF VersionInv

LEMMA VersionImplies == VersionInv => LoadsOneVersion /\ SolvHonest
  BY DEF VersionInv, Honest, LoadsOneVersion, SolvHonest

LEMMA AlwaysVersionInv == Spec => []VersionInv
<1> HIDE DEF TypeInv, TypeOK, Steps
<1>1. QED
  BY VersionInit, VersionStep, PTL DEF Spec

(* Whatever a command has loaded, from the parts that                      *)
(* TDNFEnsureRepoMDParts collects or from solvcache/, is what one repomd   *)
(* file describes, although other commands replace the files.              *)
THEOREM LoadsOneVersionAlways == Spec => []LoadsOneVersion
  BY AlwaysVersionInv, VersionImplies, PTL

(* SolvCreateMetaDataCache never writes metadata with the cookie of another *)
(* repomd file, whatever was removed, published or interrupted before.     *)
THEOREM SolvHonestAlways == Spec => []SolvHonest
  BY AlwaysVersionInv, VersionImplies, PTL
-----------------------------------------------------------------------------
(***************************************************************************)
(* What a step of one command leaves alone: the mirrors, all that belongs  *)
(* to the other commands, and, if it is not privileged, every file.  A     *)
(* command that goes on keeps its options, and its note only gets worse.   *)
(***************************************************************************)
Apart(p) ==
    /\ Running(p) /\ UNCHANGED world
    /\ \A q \in Procs \ {p} : /\ pc'[q] = pc[q] /\ opt'[q] = opt[q] /\ rm'[q] = rm[q]
                             /\ loc'[q] = loc[q] /\ pool'[q] = pool[q] /\ note'[q] = note[q]
    /\ p \notin Root => UNCHANGED <<disk, checked, failures>>
GoesOn(p) ==
    Running(p)' => /\ opt'[p] = opt[p] /\ failures' = failures
                   /\ note'[p].floor = note[p].floor /\ note'[p].ready = note[p].ready
                   /\ note'[p].calm => note[p].calm
                   /\ note[p].upset => note'[p].upset

LEMMA ApartFail ==
  ASSUME TypeInv, NEW p \in Procs, NEW cause, Fail(p, cause), Running(p)
  PROVE  Apart(p) /\ GoesOn(p)
<1>1. \A q \in Procs \ {p} : /\ pc'[q] = pc[q] /\ opt'[q] = opt[q] /\ rm'[q] = rm[q]
                           /\ loc'[q] = loc[q] /\ pool'[q] = pool[q] /\ note'[q] = note[q]
  BY DEF Fail, Goto, CommandsOK
<1>2. note[p] \in Note
  BY DEF CommandsOK
<1>3. note'[p].floor = note[p].floor /\ note'[p].ready = note[p].ready
  BY <1>2 DEF Fail, CommandsOK, Note
<1>4. (note'[p].calm => note[p].calm) /\ (note[p].upset => note'[p].upset)
  BY <1>2 DEF Fail, CommandsOK, Note
<1>5. QED
  BY <1>1, <1>3, <1>4 DEF Fail, Apart, GoesOn

LEMMA ApartFails ==
  ASSUME TypeInv, NEW p \in Procs, Fails(p)
  PROVE  Apart(p) /\ GoesOn(p)
<1>1. PICK cause : Fail(p, cause)
  BY DEF Fails, FetchListFails, FetchRepomdFails, InstallFails, TouchFails, ParseFails,
         FetchPartFails, CookieFails, UseSolvFails, BuildFails, WriteSolvFails, CannotWrite,
         CannotFetch
<1>2. QED
  BY <1>1, FailsMove, ApartFail

LEMMA ApartEnd ==
  ASSUME TypeInv, NEW p \in Procs, NEW outcome, NEW upset, End(p, outcome, upset), Running(p),
         UNCHANGED world, p \notin Root => UNCHANGED <<disk, checked>>
  PROVE  Apart(p) /\ GoesOn(p) /\ ~Running(p)'
<1>1. \A q \in Procs \ {p} : /\ pc'[q] = pc[q] /\ opt'[q] = opt[q] /\ rm'[q] = rm[q]
                           /\ loc'[q] = loc[q] /\ pool'[q] = pool[q] /\ note'[q] = note[q]
  BY DEF End, Goto, CommandsOK
<1>2. ~Running(p)'
  BY EndMoves
<1>3. p \notin Root => failures' = failures
  BY DEF End
<1>4. QED
  BY <1>1, <1>2, <1>3 DEF Apart, GoesOn

LEMMA ApartEnds ==
  ASSUME TypeInv, NEW p \in Procs, Ends(p)
  PROVE  Apart(p) /\ GoesOn(p) /\ ~Running(p)'
<1>1. Running(p) /\ UNCHANGED world
  BY DEF Ends, Cleaned, Failed, Crash, Finish, Running
<1>2. p \notin Root => UNCHANGED <<disk, checked>>
  BY DEF Ends, Cleaned, Failed, Crash, Finish, disk
<1>3. PICK outcome, upset : End(p, outcome, upset)
  BY DEF Ends, Cleaned, Failed, Crash, Finish
<1>4. QED
  BY <1>1, <1>2, <1>3, ApartEnd

LEMMA ApartRemoveFails ==
  ASSUME TypeInv, NEW p \in Procs, RemoveFails(p)
  PROVE  Apart(p) /\ GoesOn(p)
<1>1. Running(p) /\ UNCHANGED <<world, disk, checked>>
  BY DEF RemoveFails, Running
<1>2. CASE rm[p].then \in {"start", "cleaned"}
  BY <1>1, <1>2, ApartEnd DEF RemoveFails
<1>3. CASE rm[p].then \notin {"start", "cleaned"}
  <2>1. \A q \in Procs \ {p} : rm'[q] = rm[q] /\ note'[q] = note[q]
    BY <1>3 DEF RemoveFails, CommandsOK
  <2>2. note'[p] = [note[p] EXCEPT !.upset = TRUE] /\ note[p] \in Note
    BY <1>3 DEF RemoveFails, CommandsOK
  <2>3. QED
    BY <1>1, <1>3, <2>1, <2>2 DEF RemoveFails, Apart, GoesOn, Note
<1>4. QED
  BY <1>2, <1>3

LEMMA ApartFetch ==
  ASSUME TypeInv, NEW p \in Procs, FetchRepomd(p) \/ FetchPart(p)
  PROVE  Apart(p) /\ GoesOn(p)
<1>1. Running(p) /\ p \in Root /\ UNCHANGED <<world, failures, opt, pool>>
  BY DEF FetchRepomd, FetchPart, Running, locals
<1>2. \A q \in Procs \ {p} : rm'[q] = rm[q] /\ pc'[q] = pc[q] /\ loc'[q] = loc[q]
  BY DEF FetchRepomd, FetchPart, Goto, CommandsOK, locals
<1>3. PICK b \in BOOLEAN : note' = [note EXCEPT ![p].calm = @ /\ b]
  <2>1. CASE FetchRepomd(p)
    <3>1. PICK down \in Downs : note' = [note EXCEPT ![p].calm = @ /\ down = {}]
      BY <2>1 DEF FetchRepomd
    <3>2. QED
      BY <3>1
  <2>2. CASE FetchPart(p)
    <3>1. PICK down \in Downs : note' = [note EXCEPT ![p].calm = @ /\ down = {}]
      BY <2>2 DEF FetchPart
    <3>2. QED
      BY <3>1
  <2>3. QED
    BY <2>1, <2>2
<1>4. note[p] \in Note
  BY DEF CommandsOK
<1>5. \A q \in Procs \ {p} : note'[q] = note[q]
  BY <1>3 DEF CommandsOK
<1>6. /\ note'[p].floor = note[p].floor /\ note'[p].ready = note[p].ready
      /\ (note'[p].calm => note[p].calm) /\ note'[p].upset = note[p].upset
  BY <1>3, <1>4 DEF CommandsOK, Note
<1>7. QED
  BY <1>1, <1>2, <1>5, <1>6 DEF Apart, GoesOn

(* The steps that leave the note alone.                                    *)
LEMMA ApartQuiet ==
  ASSUME TypeInv, OneRoot, NEW p \in Procs,
         \/ CheckExpired(p) \/ Remove(p) \/ NextRemoval(p) \/ Removed(p) \/ FindMirrors(p)
         \/ FetchList(p) \/ KeepRepomd(p) \/ Install(p) \/ Touch(p) \/ Parse(p) \/ PartsThere(p)
         \/ Cookie(p) \/ UseSolv(p) \/ Build(p) \/ WriteSolv(p)
  PROVE  Apart(p) /\ GoesOn(p)
<1>1. Running(p) /\ UNCHANGED <<world, opt, note, failures>>
  BY DEF CheckExpired, Remove, NextRemoval, Removed, FindMirrors, FetchList, KeepRepomd, Install,
         Touch, Parse, PartsThere, Cookie, UseSolv, Build, WriteSolv, Running, locals
<1>2. \A q \in Procs \ {p} : rm'[q] = rm[q] /\ pc'[q] = pc[q]
  BY DEF CheckExpired, Remove, NextRemoval, Removed, FindMirrors, FetchList, KeepRepomd, Install,
         Touch, Parse, PartsThere, Cookie, UseSolv, Build, WriteSolv, Goto, CommandsOK, locals
<1>3. \A q \in Procs \ {p} : loc'[q] = loc[q] /\ pool'[q] = pool[q]
  BY DEF CheckExpired, Remove, NextRemoval, Removed, FindMirrors, FetchList, KeepRepomd, Install,
         Touch, Parse, PartsThere, Cookie, UseSolv, Build, WriteSolv, CommandsOK, locals
<1>4. p \notin Root => UNCHANGED <<disk, checked>>
  BY DEF CheckExpired, Remove, NextRemoval, Removed, FindMirrors, FetchList, KeepRepomd, Install,
         Touch, Parse, PartsThere, Cookie, UseSolv, Build, WriteSolv, OneRoot, Installing,
         Replacing
<1>5. QED
  BY <1>1, <1>2, <1>3, <1>4 DEF Apart, GoesOn

LEMMA ApartStep ==
  ASSUME TypeInv, OneRoot, NEW p \in Procs, Step(p) \/ Crash(p)
  PROVE  Apart(p) /\ GoesOn(p)
<1>1. CASE Fails(p)
  BY <1>1, ApartFails
<1>2. CASE Ends(p)
  BY <1>2, ApartEnds
<1>3. CASE RemoveFails(p)
  BY <1>3, ApartRemoveFails
<1>4. CASE FetchRepomd(p) \/ FetchPart(p)
  BY <1>4, ApartFetch
<1>5. CASE Step(p) /\ ~(Fails(p) \/ Ends(p) \/ RemoveFails(p) \/ FetchRepomd(p) \/ FetchPart(p))
  BY <1>5, ApartQuiet DEF Step, Fails, Ends
<1>6. QED
  BY <1>1, <1>2, <1>3, <1>4, <1>5 DEF Ends
-----------------------------------------------------------------------------
(***************************************************************************)
(* The age of the marker.  It is set only after the repomd file was seen   *)
(* at a mirror, and time does not pass within a command.                   *)
(***************************************************************************)
SeenWhenTouched == \A p \in Procs : pc[p] = "touch" => checked = 0
MarkInv == MarkerHonest /\ SeenWhenTouched

LEMMA MarkQuiet ==
  ASSUME TypeInv, OneRoot, MarkInv, NEW p \in Procs, Step(p) \/ Crash(p),
         UNCHANGED <<marker, repomd, checked>>, pc'[p] # "touch"
  PROVE  MarkInv'
<1>1. MarkerHonest'
  BY DEF MarkInv, MarkerHonest
<1>2. SeenWhenTouched'
  BY ApartStep DEF Apart, MarkInv, SeenWhenTouched
<1>3. QED
  BY <1>1, <1>2 DEF MarkInv

LEMMA MarkRemoval ==
  ASSUME TypeInv, OneRoot, MarkInv, NEW p \in Procs, Remove(p)
  PROVE  MarkInv'
<1>1. (repomd' = repomd \/ repomd' = Absent) /\ (marker' = marker \/ marker' = Never)
      /\ checked' = checked /\ pc' = pc
  BY DEF Remove, RemoveRepodata, RemoveOther, repodata
<1>2. QED
  BY <1>1 DEF MarkInv, MarkerHonest, SeenWhenTouched

LEMMA MarkFetch ==
  ASSUME TypeInv, OneRoot, MarkInv, NEW p \in Procs,
         FetchRepomd(p) \/ Install(p) \/ Touch(p)
  PROVE  MarkInv'
<1>1. CASE FetchRepomd(p)
  <2>1. PICK m \in Mirrors :
          /\ checked' = IF repomd = mirror[m] THEN 0 ELSE checked
          /\ IF Same(repomd, mirror[m]) THEN Goto(p, "touch") ELSE Goto(p, "remove")
    BY <1>1 DEF FetchRepomd
  <2>2. repomd' = repomd /\ marker' = marker
    BY <1>1 DEF FetchRepomd, disk, repodata
  <2>3. checked' <= checked /\ checked' \in Nat /\ (checked = 0 => checked' = 0)
    BY <2>1, CacheConstants DEF WorldOK
  <2>4. MarkerHonest'
    BY <2>2, <2>3, CacheConstants DEF MarkInv, MarkerHonest, DiskOK, WorldOK, Age
  <2>5. pc'[p] = "touch" => checked' = 0
    BY <2>1 DEF Same, Goto, CommandsOK
  <2>6. \A q \in Procs \ {p} : pc'[q] = pc[q]
    BY <2>1 DEF Goto, CommandsOK
  <2>7. QED
    BY <2>3, <2>4, <2>5, <2>6 DEF MarkInv, SeenWhenTouched
<1>2. CASE Install(p)
  BY <1>2, CacheConstants DEF Install, MarkInv, MarkerHonest, SeenWhenTouched, DiskOK, Age
<1>3. CASE Touch(p)
  <2>1. checked = 0 /\ checked' = 0 /\ marker' = 0
    BY <1>3 DEF Touch, MarkInv, SeenWhenTouched
  <2>2. QED
    BY <2>1 DEF MarkInv, MarkerHonest, SeenWhenTouched
<1>4. QED
  BY <1>1, <1>2, <1>3

LEMMA MarkStep == VersionInv /\ MarkInv /\ [Next]_vars => MarkInv'
<1> SUFFICES ASSUME VersionInv, MarkInv, [Next]_vars PROVE MarkInv'
  OBVIOUS
<1>1. TypeInv /\ OneRoot
  BY DEF VersionInv
<1>2. ASSUME NEW p \in Procs, Step(p) \/ Crash(p) PROVE MarkInv'
  <2>1. CASE Remove(p) \/ FetchRepomd(p) \/ Install(p) \/ Touch(p)
    BY <1>1, <2>1, MarkRemoval, MarkFetch
  <2>2. CASE Fails(p)
    <3>1. UNCHANGED <<marker, repomd, checked>>
      BY <2>2 DEF Fails, FetchListFails, FetchRepomdFails, InstallFails, TouchFails, ParseFails,
                  FetchPartFails, CookieFails, UseSolvFails, BuildFails, WriteSolvFails,
                  CannotWrite, CannotFetch, Fail, disk, repodata
    <3>2. QED
      BY <1>1, <1>2, <2>2, <3>1, FailsMove, MarkQuiet
  <2>3. CASE Ends(p)
    <3>1. UNCHANGED <<marker, repomd, checked>>
      BY <2>3 DEF Ends, Cleaned, Failed, Crash, Finish, disk, repodata
    <3>2. QED
      BY <1>1, <1>2, <2>3, <3>1, EndsMove, MarkQuiet
  <2>4. CASE CheckExpired(p) \/ NextRemoval(p) \/ Removed(p) \/ RemoveFails(p)
    <3>1. UNCHANGED <<marker, repomd, checked>>
      BY <2>4 DEF CheckExpired, NextRemoval, Removed, RemoveFails, disk, repodata
    <3>2. pc'[p] # "touch"
      <4>1. CASE RemoveFails(p)
        BY <1>1, <4>1 DEF RemoveFails, End, Goto, CommandsOK
      <4>2. CASE CheckExpired(p) \/ NextRemoval(p) \/ Removed(p)
        BY <1>1, <4>2 DEF CheckExpired, NextRemoval, Removed, Goto, CommandsOK, StepOK
      <4>3. QED
        BY <2>4, <4>1, <4>2
    <3>3. QED
      BY <1>1, <1>2, <3>1, <3>2, MarkQuiet
  <2>5. CASE \/ FindMirrors(p) \/ FetchList(p) \/ KeepRepomd(p) \/ Parse(p) \/ FetchPart(p)
             \/ PartsThere(p) \/ Cookie(p) \/ UseSolv(p) \/ Build(p) \/ WriteSolv(p)
    <3>1. UNCHANGED <<marker, repomd, checked>>
      BY <2>5 DEF FindMirrors, FetchList, KeepRepomd, Parse, FetchPart, PartsThere, Cookie, UseSolv,
                  Build, WriteSolv, disk, repodata
    <3>2. pc'[p] # "touch"
      BY <1>1, <2>5 DEF FindMirrors, FetchList, KeepRepomd, Parse, FetchPart, PartsThere, Cookie,
                        UseSolv, Build, WriteSolv, Goto, CommandsOK
    <3>3. QED
      BY <1>1, <1>2, <3>1, <3>2, MarkQuiet
  <2>6. QED
    BY <1>2, <2>1, <2>2, <2>3, <2>4, <2>5 DEF Step, Fails, Ends
<1>3. ASSUME NEW p \in Procs, Begin(p) \/ BeginClean(p) PROVE MarkInv'
  <2>1. /\ UNCHANGED <<marker, repomd, checked>>
        /\ \A q \in Procs : pc'[q] = "touch" => pc[q] = "touch"
    BY <1>1, <1>3 DEF Begin, BeginClean, Goto, CommandsOK, disk, repodata
  <2>2. QED
    BY <2>1 DEF MarkInv, MarkerHonest, SeenWhenTouched
<1>4. CASE Tick
  <2>1. marker' = Older(marker) /\ checked' = Older(checked) /\ repomd' = repomd /\ pc' = pc
        /\ \A p \in Procs : ~Running(p)
    BY <1>4 DEF Tick, repodata
  <2>2. MarkerHonest'
    BY <1>1, <2>1, CacheConstants DEF MarkInv, MarkerHonest, Older, DiskOK, WorldOK, Age
  <2>3. SeenWhenTouched'
    BY <2>1 DEF SeenWhenTouched, Running
  <2>4. QED
    BY <2>2, <2>3 DEF MarkInv
<1>5. CASE UNCHANGED vars \/ Publish \/ (\E m \in Mirrors : Sync(m))
  BY <1>5 DEF vars, Publish, Sync, disk, repodata, MarkInv, MarkerHonest, SeenWhenTouched
<1>6. QED
  BY <1>2, <1>3, <1>4, <1>5 DEF Next

(* lastrefresh is never younger than the last look at a mirror: neither an *)
(* interrupted replacement of the repomd file, nor a failing removal, nor  *)
(* a command without a download makes old metadata look fresh.             *)
THEOREM MarkerHonestAlways == Spec => []MarkerHonest
<1>1. Init => MarkInv
  BY DEF Init, MarkInv, MarkerHonest, SeenWhenTouched
<1>2. MarkInv => MarkerHonest
  BY DEF MarkInv
<1> HIDE DEF TypeInv, TypeOK, Steps
<1>3. QED
  BY <1>1, <1>2, MarkStep, AlwaysVersionInv, PTL DEF Spec
-----------------------------------------------------------------------------
(***************************************************************************)
(* What a refresh loads.  Mirrors only move forward; the version that was  *)
(* fetched is carried from the mirror to the repomd file, from there to    *)
(* the cookie, and to what is loaded.                                      *)
(***************************************************************************)
Refreshing(p) == Running(p) /\ opt[p].refresh /\ ~opt[p].cacheonly
FloorKept(p) ==
    /\ \A m \in Mirrors : note[p].floor <= mirror[m]
    /\ Replacing(p) => note[p].floor <= loc[p].new
    /\ pc[p] \in {"touch", "parse", "parts", "cookie", "use"} => note[p].floor <= repomd
    /\ pc[p] = "use" => note[p].floor <= loc[p].cookie
    /\ pc[p] \in {"write", "loaded"} => note[p].floor <= pool[p].version
RefreshInv == \A p \in Root : Refreshing(p) => FloorKept(p)

(* The others: only one privileged command runs, and only it writes.       *)
LEMMA RefreshOthers ==
  ASSUME TypeInv, OneRoot, RefreshInv, NEW p \in Procs, Step(p) \/ Crash(p),
         p \in Root /\ Refreshing(p)' => FloorKept(p)'
  PROVE  RefreshInv'
<1>1. SUFFICES ASSUME NEW q \in Root, q # p, Refreshing(q)' PROVE FloorKept(q)'
  BY DEF RefreshInv
<1>2. Apart(p) /\ q \in Procs
  BY ApartStep, RootIsProc
<1>3. Running(q) /\ Refreshing(q)
  BY <1>1, <1>2 DEF Apart, Running, Refreshing
<1>4. p \notin Root
  BY <1>1, <1>2, <1>3 DEF Apart, OneRoot
<1>5. repomd' = repomd
  BY <1>2, <1>4 DEF Apart, disk, repodata
<1>6. FloorKept(q)
  BY <1>3 DEF RefreshInv
<1>7. QED
  BY <1>1, <1>2, <1>5, <1>6 DEF Apart, world, FloorKept, Replacing

LEMMA RefreshOwn ==
  ASSUME TypeInv, OneRoot, RefreshInv, NEW p \in Root, Step(p) \/ Crash(p), Refreshing(p)'
  PROVE  /\ Refreshing(p) /\ FloorKept(p) /\ note'[p].floor = note[p].floor
         /\ \A m \in Mirrors : note'[p].floor <= mirror'[m]
<1>1. Apart(p) /\ GoesOn(p) /\ p \in Procs
  BY ApartStep, RootIsProc
<1>2. Refreshing(p) /\ note'[p].floor = note[p].floor
  BY <1>1 DEF Apart, GoesOn, Refreshing
<1>3. QED
  BY <1>1, <1>2 DEF RefreshInv, FloorKept, Apart, world

(* Steps after which nothing is known of the version yet.                  *)
LEMMA RefreshQuiet ==
  ASSUME TypeInv, OneRoot, RefreshInv, NEW p \in Procs, Step(p) \/ Crash(p), ~Replacing(p)',
         pc'[p] \notin {"touch", "parse", "parts", "cookie", "use", "write", "loaded"}
  PROVE  RefreshInv'
<1>1. SUFFICES ASSUME p \in Root, Refreshing(p)' PROVE FloorKept(p)'
  BY RefreshOthers
<1>2. QED
  BY <1>1, RefreshOwn DEF FloorKept

LEMMA RefreshRemoval ==
  ASSUME TypeInv, OneRoot, RefreshInv, NEW p \in Procs,
         Remove(p) \/ NextRemoval(p) \/ Removed(p) \/ RemoveFails(p)
  PROVE  RefreshInv'
<1>1. Step(p)
  BY DEF Step
<1>2. SUFFICES ASSUME p \in Root, Refreshing(p)' PROVE FloorKept(p)'
  BY <1>1, RefreshOthers
<1>3. /\ Refreshing(p) /\ FloorKept(p) /\ note'[p].floor = note[p].floor
      /\ \A m \in Mirrors : note'[p].floor <= mirror'[m]
  BY <1>1, <1>2, RefreshOwn
<1>4. /\ pc'[p] \in {"remove", "install", "start", "failed", "cleaned"}
      /\ Replacing(p)' => Replacing(p) /\ loc'[p] = loc[p]
  <2>1. CASE RemoveFails(p) /\ rm[p].then \in {"start", "cleaned"}
    <3>1. ~Running(p)'
      BY <2>1, EndMoves DEF RemoveFails
    <3>2. QED
      BY <1>2, <3>1 DEF Refreshing
  <2>2. CASE RemoveFails(p) /\ rm[p].then \notin {"start", "cleaned"}
    BY <2>2 DEF RemoveFails, Replacing, CommandsOK, Rm
  <2>3. CASE Remove(p)
    BY <2>3 DEF Remove, Replacing, locals
  <2>4. CASE NextRemoval(p)
    BY <2>4 DEF NextRemoval, Replacing, CommandsOK, Rm
  <2>5. CASE Removed(p)
    BY <2>5 DEF Removed, Replacing, CommandsOK, StepOK, Goto, locals
  <2>6. QED
    BY <2>1, <2>2, <2>3, <2>4, <2>5
<1>5. QED
  BY <1>3, <1>4 DEF FloorKept

LEMMA RefreshFetch ==
  ASSUME TypeInv, OneRoot, RefreshInv, NEW p \in Procs,
         KeepRepomd(p) \/ FetchRepomd(p) \/ Install(p) \/ Touch(p)
  PROVE  RefreshInv'
<1>1. Step(p)
  BY DEF Step
<1>2. SUFFICES ASSUME p \in Root, Refreshing(p)' PROVE FloorKept(p)'
  BY <1>1, RefreshOthers
<1>3. /\ Refreshing(p) /\ FloorKept(p) /\ note'[p].floor = note[p].floor
      /\ \A m \in Mirrors : note'[p].floor <= mirror'[m]
  BY <1>1, <1>2, RefreshOwn
<1>4. CASE KeepRepomd(p)
  BY <1>3, <1>4 DEF KeepRepomd, NeedsRepomd, Refreshing
<1>5. CASE FetchRepomd(p)
  <2>1. PICK m \in Mirrors :
          /\ loc' = [loc EXCEPT ![p].new = mirror[m]]
          /\ IF Same(repomd, mirror[m]) THEN Goto(p, "touch") ELSE Goto(p, "remove")
    BY <1>5 DEF FetchRepomd
  <2>2. loc'[p].new = mirror[m] /\ repomd' = repomd
    BY <1>5, <2>1 DEF FetchRepomd, CommandsOK, Loc, disk, repodata
  <2>3. note'[p].floor <= mirror[m]
    BY <1>3 DEF FloorKept
  <2>4. CASE Same(repomd, mirror[m])
    BY <1>3, <2>1, <2>2, <2>3, <2>4 DEF Same, Goto, CommandsOK, FloorKept, Replacing
  <2>5. CASE ~Same(repomd, mirror[m])
    BY <1>3, <2>1, <2>2, <2>3, <2>5 DEF Goto, CommandsOK, FloorKept
  <2>6. QED
    BY <2>4, <2>5
<1>6. CASE Install(p)
  BY <1>3, <1>6 DEF Install, Goto, CommandsOK, FloorKept, Replacing
<1>7. CASE Touch(p)
  BY <1>3, <1>7 DEF Touch, Goto, CommandsOK, FloorKept, Replacing, repodata
<1>8. QED
  BY <1>4, <1>5, <1>6, <1>7

LEMMA RefreshLoad ==
  ASSUME TypeInv, OneRoot, RefreshInv, NEW p \in Procs,
         \/ Parse(p) \/ FetchPart(p) \/ PartsThere(p) \/ Cookie(p) \/ UseSolv(p) \/ Build(p)
         \/ WriteSolv(p)
  PROVE  RefreshInv'
<1>1. Step(p)
  BY DEF Step
<1>2. SUFFICES ASSUME p \in Root, Refreshing(p)' PROVE FloorKept(p)'
  BY <1>1, RefreshOthers
<1>3. /\ Refreshing(p) /\ FloorKept(p) /\ note'[p].floor = note[p].floor
      /\ \A m \in Mirrors : note'[p].floor <= mirror'[m]
  BY <1>1, <1>2, RefreshOwn
<1>4. CASE Parse(p)
  BY <1>3, <1>4 DEF Parse, Goto, CommandsOK, FloorKept, Replacing, disk, repodata
<1>5. CASE FetchPart(p)
  BY <1>3, <1>5 DEF FetchPart, FloorKept, Replacing
<1>6. CASE PartsThere(p)
  BY <1>3, <1>6 DEF PartsThere, Goto, CommandsOK, FloorKept, Replacing, disk, repodata
<1>7. CASE Cookie(p)
  BY <1>3, <1>7 DEF Cookie, Goto, CommandsOK, Loc, FloorKept, Replacing, disk, repodata
<1>8. CASE UseSolv(p)
  <2>1. PICK s \in solv : pool'[p] = [version |-> s.cookie, content |-> s.content]
                          /\ s.cookie = loc[p].cookie
    BY <1>8 DEF UseSolv, CommandsOK
  <2>2. QED
    BY <1>3, <1>8, <2>1 DEF UseSolv, Goto, CommandsOK, FloorKept, Replacing
<1>9. CASE Build(p)
  <2>1. pool'[p].version = repomd
    BY <1>9 DEF Build, CommandsOK
  <2>2. QED
    BY <1>3, <1>9, <2>1 DEF Build, Goto, CommandsOK, FloorKept, Replacing
<1>10. CASE WriteSolv(p)
  BY <1>3, <1>10 DEF WriteSolv, Goto, CommandsOK, FloorKept, Replacing, locals
<1>11. QED
  BY <1>4, <1>5, <1>6, <1>7, <1>8, <1>9, <1>10

LEMMA RefreshBegin ==
  ASSUME TypeInv, OneRoot, RefreshInv, NEW p \in Procs, Begin(p) \/ BeginClean(p)
  PROVE  RefreshInv'
<1>1. SUFFICES ASSUME NEW q \in Root, Refreshing(q)' PROVE FloorKept(q)'
  BY DEF RefreshInv
<1>2. q \in Procs /\ UNCHANGED <<world, disk, loc, pool>>
  BY RootIsProc DEF Begin, BeginClean
<1>3. CASE Begin(p) /\ q = p
  <2>1. PICK refresh \in BOOLEAN, cacheonly \in BOOLEAN, oldest \in Version :
          /\ Oldest(oldest)
          /\ opt' = [opt EXCEPT ![p] = [refresh |-> refresh, cacheonly |-> cacheonly,
                                        clean |-> "no"]]
          /\ Starts(p, Complete /\ (cacheonly \/ (~refresh /\ ~Expired)),
                    IF p \in Root /\ refresh /\ ~cacheonly THEN oldest ELSE Absent)
    BY <1>3 DEF Begin
  <2>2. note'[p].floor = oldest
    BY <1>1, <1>3, <2>1 DEF Starts, NoNote, Refreshing, CommandsOK
  <2>3. pc'[p] = "expire"
    BY <1>3 DEF Begin, Goto, CommandsOK
  <2>4. QED
    BY <1>2, <1>3, <2>1, <2>2, <2>3 DEF Oldest, FloorKept, Replacing, world
<1>4. CASE BeginClean(p) /\ q = p
  <2>1. ~opt'[p].refresh
    BY <1>4 DEF BeginClean, CommandsOK, NoOpt
  <2>2. QED
    BY <1>1, <1>4, <2>1 DEF Refreshing
<1>5. CASE q # p
  <2>1. pc'[q] = pc[q] /\ rm'[q] = rm[q] /\ opt'[q] = opt[q]
    BY <1>2, <1>5 DEF Begin, BeginClean, Goto, CommandsOK
  <2>2. note'[q].floor = note[q].floor
    <3>1. PICK ready, floor : Starts(p, ready, floor)
      BY DEF Begin, BeginClean
    <3>2. QED
      BY <1>2, <1>5, <3>1 DEF Starts, CommandsOK, Note
  <2>3. Refreshing(q) /\ FloorKept(q)
    BY <1>1, <2>1 DEF Refreshing, Running, RefreshInv
  <2>4. QED
    BY <1>2, <2>1, <2>2, <2>3 DEF FloorKept, Replacing, world, disk, repodata
<1>6. QED
  BY <1>3, <1>4, <1>5

LEMMA RefreshWorld ==
  ASSUME TypeInv, RefreshInv, UNCHANGED vars \/ Publish \/ (\E m \in Mirrors : Sync(m)) \/ Tick
  PROVE  RefreshInv'
<1>1. UNCHANGED <<pc, opt, rm, loc, pool, repomd>>
  BY DEF vars, Publish, Sync, Tick, disk, repodata, locals
<1>2. \A q \in Procs : note'[q].floor = note[q].floor
  BY DEF vars, Publish, Sync, Tick, Unsettled, CommandsOK, Note
<1>3. \A m \in Mirrors : mirror[m] <= mirror'[m]
  BY CacheConstants DEF vars, Publish, Sync, Tick, world, WorldOK, Version
<1>4. ASSUME NEW q \in Root, Refreshing(q)' PROVE FloorKept(q)'
  <2>1. FloorKept(q) /\ q \in Procs
    BY <1>1, <1>4, RootIsProc DEF Refreshing, Running, RefreshInv
  <2>2. \A m \in Mirrors : note'[q].floor <= mirror'[m]
    <3>1. TAKE m \in Mirrors
    <3>2. note[q].floor <= mirror[m] /\ mirror[m] <= mirror'[m] /\ note'[q].floor = note[q].floor
      BY <1>2, <1>3, <2>1 DEF FloorKept
    <3>3. note[q].floor \in Int /\ mirror[m] \in Int /\ mirror'[m] \in Int
      BY <2>1, TypeWorld, TypeStutter DEF CommandsOK, Note, MaybeVersion, WorldOK
    <3>4. QED
      BY <3>2, <3>3
  <2>3. QED
    BY <1>1, <1>2, <2>1, <2>2 DEF FloorKept, Replacing
<1>5. QED
  BY <1>4 DEF RefreshInv

LEMMA RefreshStep == VersionInv /\ RefreshInv /\ [Next]_vars => RefreshInv'
<1> SUFFICES ASSUME VersionInv, RefreshInv, [Next]_vars PROVE RefreshInv'
  OBVIOUS
<1>1. TypeInv /\ OneRoot
  BY DEF VersionInv
<1>2. ASSUME NEW p \in Procs, Fails(p) \/ Ends(p), Step(p) \/ Crash(p) PROVE RefreshInv'
  <2>1. ~Installing(p)' /\ pc'[p] \in {"remove", "ended"}
    BY <1>1, <1>2, FailsMove, EndsMove
  <2>2. QED
    BY <1>1, <1>2, <2>1, RefreshQuiet DEF Installing
<1>3. ASSUME NEW p \in Procs, CheckExpired(p) \/ FindMirrors(p) \/ FetchList(p) PROVE RefreshInv'
  <2>1. pc'[p] \in {"remove", "start", "fetch"} /\ ~Replacing(p)'
    BY <1>1, <1>3 DEF CheckExpired, FindMirrors, FetchList, Goto, CommandsOK, Replacing
  <2>2. Step(p)
    BY <1>3 DEF Step
  <2>3. QED
    BY <1>1, <2>1, <2>2, RefreshQuiet
<1>4. ASSUME NEW p \in Procs, Step(p) \/ Crash(p) PROVE RefreshInv'
  BY <1>1, <1>2, <1>3, <1>4, RefreshRemoval, RefreshFetch, RefreshLoad DEF Step, Fails, Ends
<1>5. QED
  BY <1>1, <1>4, RefreshBegin, RefreshWorld DEF Next

(* A privileged command that asked for a refresh goes on with a version    *)
(* that is at least as new as what each mirror served when it started,     *)
(* although the mirrors, the caches and the other commands go on.          *)
THEOREM RefreshIsCurrentAlways == Spec => []RefreshIsCurrent
<1>1. Init => RefreshInv
  BY RootIsProc DEF Init, RefreshInv, Refreshing, Running
<1>2. VersionInv /\ RefreshInv => RefreshIsCurrent
  <2>1. SUFFICES ASSUME VersionInv, RefreshInv, NEW p \in Root, Loaded(p), opt[p].refresh,
                        ~opt[p].cacheonly
                 PROVE  pool[p].version >= note[p].floor
    BY DEF RefreshIsCurrent
  <2>2. note[p].floor <= pool[p].version
    BY <2>1 DEF RefreshInv, Refreshing, FloorKept, Loaded, Running
  <2>3. QED
    BY <2>2
<1> HIDE DEF TypeInv, TypeOK, Steps
<1>3. QED
  BY <1>1, <1>2, RefreshStep, AlwaysVersionInv, PTL DEF Spec
-----------------------------------------------------------------------------
(***************************************************************************)
(* A complete cache is enough.  A command that finds one goes through it   *)
(* without a download or a write, unless a privileged command runs at the  *)
(* same time, and then it is upset.                                        *)
(***************************************************************************)
OneSolv == \A s, t \in solv : s = t
UpsetWhenNotAlone ==
    \A p \in Procs, r \in Root : (Running(p) /\ Running(r) /\ p # r) => note[p].upset
Prepared(p) == Running(p) /\ note[p].ready /\ ~note[p].upset
UsesCache(p) ==
    /\ Complete
    /\ opt[p].cacheonly \/ ~opt[p].refresh
    /\ pc[p] = "expire" => ~(Expired /\ ~opt[p].cacheonly)
    /\ pc[p] \in {"expire", "start", "fetch", "parse", "parts", "cookie", "use", "loaded"}
    /\ pc[p] \in {"parts", "cookie", "use"} => loc[p].md = repomd
    /\ pc[p] = "use" => loc[p].cookie = repomd
FromCache(p) == (Prepared(p) => UsesCache(p)) /\ SucceedsFromCache(p)
ReadyInv ==
    /\ OneSolv /\ UpsetWhenNotAlone
    /\ conf.source = "baseurl" => \A p \in Procs : FromCache(p)

LEMMA OneSolvStep ==
  ASSUME TypeInv, OneSolv, [Next]_vars
  PROVE  OneSolv'
<1>1. CASE UNCHANGED solv
  BY <1>1 DEF OneSolv
<1>2. ASSUME NEW p \in Procs, Remove(p) PROVE OneSolv'
  BY <1>2 DEF Remove, RemoveRepodata, RemoveOther, OneSolv
<1>3. ASSUME NEW p \in Procs, WriteSolv(p) PROVE OneSolv'
  BY <1>3 DEF WriteSolv, OneSolv
<1>4. ASSUME NEW p \in Procs, Step(p) \/ Crash(p), ~(Remove(p) \/ WriteSolv(p))
      PROVE  UNCHANGED solv
  <2>1. CASE Fails(p)
    BY <2>1, FailsMove
  <2>2. CASE Ends(p)
    BY <2>2, EndsMove
  <2>3. CASE ~Fails(p) /\ ~Ends(p)
    BY <1>4, <2>3
       DEF Step, Fails, Ends, CheckExpired, NextRemoval, Removed, RemoveFails, FindMirrors,
           FetchList, KeepRepomd, FetchRepomd, Install, Touch, Parse, FetchPart, PartsThere,
           Cookie, UseSolv, Build, disk
  <2>4. QED
    BY <2>1, <2>2, <2>3
<1>5. ASSUME NEW p \in Procs, Begin(p) \/ BeginClean(p) PROVE UNCHANGED solv
  BY <1>5 DEF Begin, BeginClean, disk
<1>6. CASE UNCHANGED vars \/ Publish \/ (\E m \in Mirrors : Sync(m)) \/ Tick
  BY <1>6 DEF vars, Publish, Sync, Tick, disk, OneSolv
<1>7. QED
  BY <1>1, <1>2, <1>3, <1>4, <1>5, <1>6 DEF Next

(* How a command starts.                                                   *)
LEMMA StartsNotes ==
  ASSUME TypeInv, NEW p \in Procs, NEW ready, NEW floor, Starts(p, ready, floor)
  PROVE  /\ note'[p].ready = ready
         /\ note'[p].upset = \E r \in Root : Running(r)
         /\ note'[p].calm => \A m \in Mirrors : mirror[m] = latest
         /\ note'[p].outcome = "none"
         /\ \A q \in Procs \ {p} :
              /\ note'[q].upset = (note[q].upset \/ (p \in Root /\ Running(q)))
              /\ note'[q].ready = note[q].ready /\ note'[q].outcome = note[q].outcome
              /\ note'[q].calm = note[q].calm
<1>1. ASSUME NEW q \in Procs \ {p}
      PROVE  /\ note'[q].upset = (note[q].upset \/ (p \in Root /\ Running(q)))
             /\ note'[q].ready = note[q].ready /\ note'[q].outcome = note[q].outcome
             /\ note'[q].calm = note[q].calm
  BY DEF Starts, CommandsOK, Note
<1>2. /\ note'[p].ready = ready
      /\ note'[p].upset = \E r \in Root : Running(r)
      /\ note'[p].calm => \A m \in Mirrors : mirror[m] = latest
      /\ note'[p].outcome = "none"
  BY DEF Starts, NoNote
<1>3. QED
  BY <1>1, <1>2

LEMMA BeginMoves ==
  ASSUME TypeInv, NEW p \in Procs, Begin(p) \/ BeginClean(p)
  PROVE  /\ ~Running(p) /\ (p \in Root => \A r \in Root : ~Running(r))
         /\ Running(p)' /\ pc'[p] \in {"expire", "remove"}
         /\ UNCHANGED <<world, disk, checked, faults, failures, loc, pool>>
         /\ \A q \in Procs \ {p} : pc'[q] = pc[q] /\ opt'[q] = opt[q] /\ rm'[q] = rm[q]
<1>1. /\ ~Running(p) /\ (p \in Root => \A r \in Root : ~Running(r))
      /\ UNCHANGED <<world, disk, checked, faults, failures, loc, pool>>
  BY DEF Begin, BeginClean, MayStart
<1>2. \A q \in Procs \ {p} : pc'[q] = pc[q] /\ opt'[q] = opt[q] /\ rm'[q] = rm[q]
  BY DEF Begin, BeginClean, Goto, CommandsOK
<1>3. pc'[p] \in {"expire", "remove"}
  BY DEF Begin, BeginClean, Goto, CommandsOK
<1>4. QED
  BY <1>1, <1>2, <1>3 DEF Running

LEMMA UpsetStep ==
  ASSUME TypeInv, OneRoot, UpsetWhenNotAlone, [Next]_vars
  PROVE  UpsetWhenNotAlone'
<1>1. SUFFICES ASSUME NEW q \in Procs, NEW r \in Root, Running(q)', Running(r)', q # r
               PROVE  note'[q].upset
  BY DEF UpsetWhenNotAlone
<1>2. r \in Procs
  BY RootIsProc
<1>3. ASSUME NEW p \in Procs, Step(p) \/ Crash(p) PROVE note'[q].upset
  <2>1. Apart(p) /\ GoesOn(p)
    BY <1>3, ApartStep
  <2>2. Running(q) /\ Running(r)
    BY <1>1, <1>2, <2>1 DEF Apart, Running
  <2>3. note[q].upset
    BY <1>1, <2>2 DEF UpsetWhenNotAlone
  <2>4. QED
    BY <1>1, <2>1, <2>3 DEF Apart, GoesOn
<1>4. ASSUME NEW p \in Procs, Begin(p) \/ BeginClean(p) PROVE note'[q].upset
  <2>1. PICK ready, floor : Starts(p, ready, floor)
    BY <1>4 DEF Begin, BeginClean
  <2>2. CASE q = p
    <3>1. Running(r)
      BY <1>1, <1>2, <1>4, <2>2, BeginMoves DEF Running
    <3>2. QED
      BY <2>1, <2>2, <3>1, StartsNotes
  <2>3. CASE q # p
    <3>1. Running(q)
      BY <1>1, <1>4, <2>3, BeginMoves DEF Running
    <3>2. CASE r = p
      BY <2>1, <2>3, <3>1, <3>2, StartsNotes
    <3>3. CASE r # p
      <4>1. Running(r)
        BY <1>1, <1>2, <1>4, <3>3, BeginMoves DEF Running
      <4>2. QED
        BY <1>1, <2>1, <2>3, <3>1, <4>1, StartsNotes DEF UpsetWhenNotAlone
    <3>4. QED
      BY <3>2, <3>3
  <2>4. QED
    BY <2>2, <2>3
<1>5. CASE UNCHANGED vars \/ Publish \/ (\E m \in Mirrors : Sync(m)) \/ Tick
  <2>1. pc' = pc /\ note'[q].upset = note[q].upset
    BY <1>5 DEF vars, Publish, Sync, Tick, Unsettled, CommandsOK, Note
  <2>2. QED
    BY <1>1, <2>1 DEF UpsetWhenNotAlone, Running
<1>6. QED
  BY <1>3, <1>4, <1>5 DEF Next

(* What another command does: a privileged one upsets this one, and the    *)
(* others write nothing.                                                   *)
LEMMA CacheOthers ==
  ASSUME TypeInv, OneRoot, ReadyInv, NEW p \in Procs, NEW q \in Procs, q # p, FromCache(q),
         Step(p) \/ Crash(p)
  PROVE  FromCache(q)'
<1>1. Apart(p)
  BY ApartStep
<1>2. SucceedsFromCache(q)'
  BY <1>1 DEF Apart, FromCache, SucceedsFromCache
<1>3. ASSUME Prepared(q)' PROVE UsesCache(q)'
  <2>1. Prepared(q)
    BY <1>1, <1>3 DEF Apart, Prepared, Running
  <2>2. p \notin Root
    BY <1>1, <2>1 DEF Apart, Prepared, ReadyInv, UpsetWhenNotAlone
  <2>3. UNCHANGED <<conf, repomd, part, solv, marker>>
    BY <1>1, <2>2 DEF Apart, disk, repodata, world
  <2>4. UsesCache(q)
    BY <2>1 DEF FromCache
  <2>5. QED
    BY <1>1, <2>3, <2>4 DEF Apart, UsesCache, Complete, Name, Expired
<1>4. QED
  BY <1>2, <1>3 DEF FromCache

LEMMA CacheBegin ==
  ASSUME TypeInv, ReadyInv, NEW p \in Procs, NEW q \in Procs, FromCache(q),
         Begin(p) \/ BeginClean(p)
  PROVE  FromCache(q)'
<1>1. PICK ready, floor : Starts(p, ready, floor)
  BY DEF Begin, BeginClean
<1>2. UNCHANGED <<conf, repomd, part, solv, marker>>
  BY BeginMoves DEF disk, repodata, world
<1>3. CASE q # p
  <2>1. pc'[q] = pc[q] /\ opt'[q] = opt[q] /\ loc'[q] = loc[q]
    BY <1>3, BeginMoves
  <2>2. note'[q].ready = note[q].ready /\ (note[q].upset => note'[q].upset)
        /\ note'[q].outcome = note[q].outcome
    BY <1>1, <1>3, StartsNotes
  <2>3. SucceedsFromCache(q)'
    BY <2>1, <2>2 DEF FromCache, SucceedsFromCache
  <2>4. ASSUME Prepared(q)' PROVE UsesCache(q)'
    <3>1. UsesCache(q)
      BY <2>1, <2>2, <2>4 DEF FromCache, Prepared, Running
    <3>2. QED
      BY <1>2, <2>1, <3>1 DEF UsesCache, Complete, Name, Expired
  <2>5. QED
    BY <2>3, <2>4 DEF FromCache
<1>4. CASE q = p /\ Begin(p)
  <2>1. PICK refresh \in BOOLEAN, cacheonly \in BOOLEAN, oldest \in Version :
          /\ opt' = [opt EXCEPT ![p] = [refresh |-> refresh, cacheonly |-> cacheonly,
                                        clean |-> "no"]]
          /\ Starts(p, Complete /\ (cacheonly \/ (~refresh /\ ~Expired)),
                    IF p \in Root /\ refresh /\ ~cacheonly THEN oldest ELSE Absent)
    BY <1>4 DEF Begin
  <2>2. pc'[p] = "expire" /\ opt'[p].refresh = refresh /\ opt'[p].cacheonly = cacheonly
    BY <1>4, <2>1 DEF Begin, Goto, CommandsOK
  <2>3. note'[p].ready => Complete /\ (cacheonly \/ (~refresh /\ ~Expired))
    BY <2>1, StartsNotes
  <2>4. QED
    BY <1>2, <1>4, <2>2, <2>3 DEF FromCache, Prepared, UsesCache, SucceedsFromCache, Complete,
                                  Name, Expired
<1>5. CASE q = p /\ BeginClean(p)
  <2>1. ~note'[p].ready
    BY <1>5, StartsNotes DEF BeginClean
  <2>2. QED
    BY <1>5, <2>1 DEF FromCache, Prepared, SucceedsFromCache
<1>6. QED
  BY <1>3, <1>4, <1>5

LEMMA CacheWorld ==
  ASSUME TypeInv, NEW q \in Procs, FromCache(q),
         UNCHANGED vars \/ Publish \/ (\E m \in Mirrors : Sync(m)) \/ Tick
  PROVE  FromCache(q)'
<1>1. UNCHANGED <<conf, repomd, part, solv, pc, opt, loc>>
  BY DEF vars, Publish, Sync, Tick, disk, repodata, world, locals
<1>2. /\ note'[q].ready = note[q].ready /\ note'[q].upset = note[q].upset
      /\ note'[q].outcome = note[q].outcome
  BY DEF vars, Publish, Sync, Tick, Unsettled, CommandsOK, Note
<1>3. CASE Tick
  BY <1>1, <1>2, <1>3 DEF Tick, FromCache, Prepared, SucceedsFromCache, Running
<1>4. CASE ~Tick
  <2>1. marker' = marker
    BY <1>4 DEF vars, Publish, Sync, disk
  <2>2. QED
    BY <1>1, <1>2, <2>1 DEF FromCache, Prepared, SucceedsFromCache, Running, UsesCache, Complete,
                            Name, Expired
<1>5. QED
  BY <1>3, <1>4

(* The own steps of a command that uses the cache.                         *)
LEMMA CacheUsed ==
  ASSUME TypeInv, OneSolv, conf.source = "baseurl", NEW p \in Procs, UsesCache(p),
         Step(p) \/ Crash(p)
  PROVE  \/ Crash(p) \/ Finish(p) \/ CheckExpired(p) \/ FindMirrors(p) \/ KeepRepomd(p)
         \/ Parse(p) \/ PartsThere(p) \/ Cookie(p) \/ UseSolv(p)
<1>1. pc[p] \notin {"remove", "cleaned", "failed", "install", "touch", "write"}
  BY DEF UsesCache
<1>2. ~NeedsList(p) /\ ~NeedsRepomd(p) /\ repomd # Absent
  BY DEF UsesCache, Complete, NeedsList, NeedsRepomd
<1>3. pc[p] = "parts" => Missing(p) = {}
  BY DEF UsesCache, Complete, Missing
<1>4. /\ solv # {}
      /\ pc[p] = "use" => \A s \in solv : s.cookie = loc[p].cookie
  BY DEF UsesCache, Complete, OneSolv
<1>5. QED
  BY <1>1, <1>2, <1>3, <1>4
     DEF Step, Remove, NextRemoval, Removed, RemoveFails, Cleaned, Failed, FetchList,
         FetchListFails, FetchRepomd, FetchRepomdFails, Install, InstallFails, Touch, TouchFails,
         ParseFails, FetchPart, FetchPartFails, CookieFails, UseSolvFails, Build, BuildFails,
         WriteSolv, WriteSolvFails

(* How a command may end.                                                  *)
LEMMA EndedBy ==
  ASSUME TypeInv, NEW p \in Procs, Step(p) \/ Crash(p), pc'[p] = "ended"
  PROVE  /\ Ends(p) \/ RemoveFails(p)
         /\ note'[p].ready = note[p].ready
         /\ note[p].upset => note'[p].upset
         /\ RemoveFails(p) => note'[p].upset
         /\ Crash(p) => note'[p].outcome = "crashed"
         /\ Finish(p) => note'[p].outcome = "ok"
<1>1. Ends(p) \/ RemoveFails(p)
  <2>1. CASE Fails(p)
    BY <2>1, FailsMove
  <2>2. CASE Step(p) /\ ~(Fails(p) \/ Ends(p) \/ RemoveFails(p))
    BY <2>2 DEF Step, Ends, Fails, CheckExpired, Remove, NextRemoval, Removed, FindMirrors,
         FetchList, KeepRepomd, FetchRepomd, Install, Touch, Parse, FetchPart, PartsThere, Cookie,
         UseSolv, Build, WriteSolv, Goto, CommandsOK, StepOK
  <2>3. QED
    BY <2>1, <2>2 DEF Ends
<1>2. ASSUME NEW outcome, NEW upset, End(p, outcome, upset)
      PROVE  /\ note'[p].outcome = outcome /\ note'[p].upset = upset
             /\ note'[p].ready = note[p].ready
  BY <1>2 DEF End, CommandsOK, NoNote
<1>3. CASE RemoveFails(p)
  <2>1. End(p, "error", TRUE)
    BY <1>3 DEF RemoveFails
  <2>2. ~Crash(p) /\ ~Finish(p)
    <3>1. note'[p].outcome = "error"
      BY <1>2, <2>1
    <3>2. Crash(p) \/ Finish(p) => note'[p].outcome \in {"crashed", "ok"}
      BY <1>2 DEF Crash, Finish
    <3>3. QED
      BY <3>1, <3>2
  <2>3. note'[p].upset = TRUE /\ note'[p].ready = note[p].ready
    BY <1>2, <2>1
  <2>4. QED
    BY <1>1, <2>2, <2>3
<1>4. CASE Ends(p) /\ ~RemoveFails(p)
  <2>1. PICK outcome : End(p, outcome, note[p].upset)
    BY <1>4 DEF Ends, Cleaned, Failed, Crash, Finish
  <2>2. note'[p].upset = note[p].upset /\ note'[p].ready = note[p].ready
    BY <1>2, <2>1
  <2>3. (Crash(p) => note'[p].outcome = "crashed") /\ (Finish(p) => note'[p].outcome = "ok")
    BY <1>2 DEF Crash, Finish
  <2>4. QED
    BY <1>1, <1>4, <2>2, <2>3
<1>5. QED
  BY <1>1, <1>3, <1>4

LEMMA CacheOwn ==
  ASSUME TypeInv, OneRoot, ReadyInv, NEW p \in Procs, FromCache(p), conf.source = "baseurl",
         Step(p) \/ Crash(p)
  PROVE  FromCache(p)'
<1>1. Apart(p) /\ GoesOn(p)
  BY ApartStep
<1>2. ASSUME Prepared(p)' PROVE UsesCache(p)'
  <2>1. Prepared(p) /\ opt'[p] = opt[p]
    BY <1>1, <1>2 DEF Apart, GoesOn, Prepared
  <2>2. UsesCache(p)
    BY <2>1 DEF FromCache
  <2>3. \/ CheckExpired(p) \/ FindMirrors(p) \/ KeepRepomd(p) \/ Parse(p) \/ PartsThere(p)
        \/ Cookie(p) \/ UseSolv(p)
    <3>1. ~Ends(p)
      BY <1>2, ApartEnds DEF Prepared
    <3>2. QED
      BY <2>2, <3>1, CacheUsed DEF ReadyInv, Ends
  <2>4. UNCHANGED <<conf, repomd, part, solv, marker>>
    BY <2>3 DEF CheckExpired, FindMirrors, KeepRepomd, Parse, PartsThere, Cookie, UseSolv, disk,
                repodata, world
  <2>5. /\ pc'[p] \in {"start", "fetch", "parse", "parts", "cookie", "use", "loaded"}
        /\ pc'[p] \in {"parts", "cookie", "use"} => loc'[p].md = repomd
        /\ pc'[p] = "use" => loc'[p].cookie = repomd
    <3>1. CASE CheckExpired(p) \/ FindMirrors(p) \/ KeepRepomd(p)
      BY <2>2, <3>1 DEF CheckExpired, FindMirrors, KeepRepomd, UsesCache, Goto, CommandsOK
    <3>2. CASE Parse(p) \/ PartsThere(p)
      BY <2>2, <3>2 DEF Parse, PartsThere, UsesCache, Goto, CommandsOK, NoLoc, locals
    <3>3. CASE Cookie(p)
      BY <2>2, <3>3 DEF Cookie, UsesCache, Goto, CommandsOK, Loc
    <3>4. CASE UseSolv(p)
      BY <3>4 DEF UseSolv, Goto, CommandsOK
    <3>5. QED
      BY <2>3, <3>1, <3>2, <3>3, <3>4
  <2>6. QED
    BY <2>1, <2>2, <2>4, <2>5 DEF UsesCache, Complete, Name, Expired
<1>3. SucceedsFromCache(p)'
  <2>1. SUFFICES ASSUME pc'[p] = "ended", note'[p].ready, ~note'[p].upset,
                        note'[p].outcome # "crashed"
                 PROVE  note'[p].outcome = "ok"
    BY DEF SucceedsFromCache
  <2>2. /\ Prepared(p) /\ (Ends(p) \/ RemoveFails(p)) /\ ~RemoveFails(p) /\ ~Crash(p)
        /\ Finish(p) => note'[p].outcome = "ok"
    BY <1>1, <2>1, EndedBy DEF Apart, Prepared
  <2>3. UsesCache(p)
    BY <2>2 DEF FromCache
  <2>4. pc[p] \notin {"cleaned", "failed"}
    BY <2>3 DEF UsesCache
  <2>5. QED
    BY <2>2, <2>4 DEF Ends, Cleaned, Failed
<1>4. QED
  BY <1>2, <1>3 DEF FromCache

LEMMA ReadyStep == VersionInv /\ ReadyInv /\ [Next]_vars => ReadyInv'
<1> SUFFICES ASSUME VersionInv, ReadyInv, [Next]_vars PROVE ReadyInv'
  OBVIOUS
<1>1. TypeInv /\ OneRoot
  BY DEF VersionInv
<1>2. OneSolv' /\ UpsetWhenNotAlone'
  BY <1>1, OneSolvStep, UpsetStep DEF ReadyInv
<1>3. conf' = conf
  <2>1. ASSUME NEW p \in Procs, Step(p) \/ Crash(p) PROVE conf' = conf
    BY <1>1, <2>1, ApartStep DEF Apart, world
  <2>2. ASSUME NEW p \in Procs, Begin(p) \/ BeginClean(p) PROVE conf' = conf
    BY <2>2 DEF Begin, BeginClean, world
  <2>3. QED
    BY <2>1, <2>2 DEF Next, vars, Publish, Sync, Tick, world
<1>4. ASSUME conf.source = "baseurl", NEW q \in Procs PROVE FromCache(q)'
  <2>1. FromCache(q)
    BY <1>4 DEF ReadyInv
  <2>2. ASSUME NEW p \in Procs, Step(p) \/ Crash(p) PROVE FromCache(q)'
    BY <1>1, <1>4, <2>1, <2>2, CacheOthers, CacheOwn
  <2>3. QED
    BY <1>1, <2>1, <2>2, CacheBegin, CacheWorld DEF Next
<1>5. QED
  BY <1>2, <1>3, <1>4 DEF ReadyInv

(* A command that finds a complete cache succeeds with it, privileged or   *)
(* not, whatever fails: it needs no mirror, no lock and no right to write. *)
THEOREM CacheSufficesAlways == Spec => []CacheSuffices
<1>1. Init => ReadyInv
  BY RootIsProc DEF Init, ReadyInv, OneSolv, UpsetWhenNotAlone, FromCache, Prepared,
                    SucceedsFromCache, Running
<1>2. ReadyInv => CacheSuffices
  BY DEF ReadyInv, FromCache, CacheSuffices
<1> HIDE DEF TypeInv, TypeOK, Steps
<1>3. QED
  BY <1>1, <1>2, ReadyStep, AlwaysVersionInv, PTL DEF Spec
-----------------------------------------------------------------------------
(***************************************************************************)
(* A command that nothing is in the way of fails at most once: its error   *)
(* path leaves an empty cache, and a command that starts with an empty     *)
(* cache and mirrors in sync gets through.                                 *)
(***************************************************************************)
Empty == repomd = Absent /\ metalink = Absent /\ solv = {}
Clears(p) ==
    /\ rm[p].todo \in {OnError, <<"solv", "marker">>, <<"marker">>, <<>>}
    /\ rm[p].todo # OnError => repomd = Absent /\ metalink = Absent
    /\ rm[p].todo \in {<<"marker">>, <<>>} => solv = {}
Clearing(p) == pc[p] = "remove" /\ rm[p].then = "failed"
ErrorPath(p) ==
    Running(p) /\ ~note[p].upset => /\ Clearing(p) => Clears(p)
                                    /\ pc[p] = "failed" => Empty
InSync(p) == Running(p) /\ note[p].calm => \A m \in Mirrors : mirror[m] = latest
Free(p) == Running(p) /\ note[p].calm /\ ~note[p].upset /\ ~opt[p].cacheonly
GetsThrough(p) ==
    /\ pc[p] \in {"expire", "start"} \/ (pc[p] = "remove" /\ rm[p].then = "start") => Empty
    /\ pc[p] = "fetch" => /\ repomd = Absent /\ solv = {}
                          /\ conf.source = "metalink" => loc[p].digest = latest
    /\ Replacing(p) => solv = {} /\ loc[p].new = latest /\ ~rm[p].stuck
    /\ pc[p] \in {"touch", "parse", "parts", "cookie", "use"} => solv = {} /\ repomd = latest
    /\ pc[p] \in {"parts", "cookie", "use"} => loc[p].md = latest
    /\ pc[p] \in {"cookie", "use"} => Missing(p) = {}
    /\ pc[p] # "failed" /\ ~Clearing(p)
RetryInv ==
    /\ failures = 1 /\ (\A r \in Root : ~Running(r)) => Empty
    /\ failures = 1 => \A p \in Root : Free(p) => GetsThrough(p)
FailInv == FailsOnce /\ RetryInv /\ \A p \in Root : ErrorPath(p) /\ InSync(p)

LEMMA InSyncStep ==
  ASSUME TypeInv, OneRoot, [Next]_vars, \A p \in Root : InSync(p), NEW q \in Root
  PROVE  InSync(q)'
<1>1. SUFFICES ASSUME Running(q)', note'[q].calm PROVE \A m \in Mirrors : mirror'[m] = latest'
  BY DEF InSync
<1>2. q \in Procs /\ InSync(q)
  BY RootIsProc
<1>3. ASSUME NEW p \in Procs, Step(p) \/ Crash(p) PROVE \A m \in Mirrors : mirror'[m] = latest'
  <2>1. Apart(p) /\ GoesOn(p)
    BY <1>3, ApartStep
  <2>2. Running(q) /\ note[q].calm
    BY <1>1, <1>2, <2>1 DEF Apart, GoesOn, Running
  <2>3. QED
    BY <1>2, <2>1, <2>2 DEF Apart, InSync, world
<1>4. ASSUME NEW p \in Procs, Begin(p) \/ BeginClean(p)
      PROVE  \A m \in Mirrors : mirror'[m] = latest'
  <2>1. PICK ready, floor : Starts(p, ready, floor)
    BY <1>4 DEF Begin, BeginClean
  <2>2. UNCHANGED world
    BY <1>4, BeginMoves
  <2>3. CASE q = p
    BY <1>1, <2>1, <2>2, <2>3, StartsNotes DEF world
  <2>4. CASE q # p
    <3>1. Running(q)
      BY <1>1, <1>2, <1>4, <2>4, BeginMoves DEF Running
    <3>2. note[q].calm
      BY <1>1, <1>2, <2>1, <2>4, StartsNotes
    <3>3. QED
      BY <1>2, <2>2, <3>1, <3>2 DEF InSync, world
  <2>5. QED
    BY <2>3, <2>4
<1>5. CASE Publish \/ \E m \in Mirrors : Sync(m)
  <2>1. Unsettled /\ pc' = pc
    BY <1>5 DEF Publish, Sync
  <2>2. ~note'[q].calm
    BY <1>1, <1>2, <2>1 DEF Unsettled, Running, CommandsOK, Note
  <2>3. QED
    BY <1>1, <2>2
<1>6. CASE UNCHANGED vars \/ Tick
  <2>1. UNCHANGED <<world, pc, note>>
    BY <1>6 DEF vars, Tick
  <2>2. QED
    BY <1>1, <1>2, <2>1 DEF InSync, Running, world
<1>7. QED
  BY <1>3, <1>4, <1>5, <1>6 DEF Next

(* A failure that is not the network's or the disk's is no longer free.    *)
LEMMA CannotIsNotFree ==
  ASSUME TypeInv, NEW p \in Root, CannotWrite(p) \/ CannotFetch(p)
  PROVE  ~Free(p)'
<1>1. p \in Procs /\ note[p] \in Note
  BY RootIsProc DEF CommandsOK
<1>2. ASSUME Fail(p, "io") PROVE note'[p].upset
  BY <1>1, <1>2 DEF Fail, CommandsOK, Note
<1>3. ASSUME Fail(p, "net") PROVE ~note'[p].calm
  BY <1>1, <1>3 DEF Fail, CommandsOK, Note
<1>4. QED
  BY <1>2, <1>3 DEF CannotWrite, CannotFetch, Free

(* Removing only ever makes the cache emptier.                             *)
LEMMA RemoveEmpties ==
  ASSUME TypeInv, NEW p \in Procs, Remove(p)
  PROVE  /\ repomd' = repomd \/ repomd' = Absent
         /\ metalink' = metalink \/ metalink' = Absent
         /\ solv' = solv \/ solv' = {}
         /\ UNCHANGED <<conf, latest, mirror, pc, opt, rm, loc, note, failures>>
  BY DEF Remove, RemoveRepodata, RemoveOther, world, repodata, locals

LEMMA ErrorPathOwn ==
  ASSUME TypeInv, OneRoot, NEW p \in Root, ErrorPath(p), Step(p) \/ Crash(p)
  PROVE  ErrorPath(p)'
<1>1. p \in Procs /\ Apart(p) /\ GoesOn(p)
  BY RootIsProc, ApartStep
<1>2. SUFFICES ASSUME Running(p)', ~note'[p].upset
               PROVE  (Clearing(p) => Clears(p))' /\ (pc'[p] = "failed" => Empty')
  BY DEF ErrorPath
<1>3. (Clearing(p) => Clears(p)) /\ (pc[p] = "failed" => Empty)
  BY <1>1, <1>2 DEF Apart, GoesOn, ErrorPath
<1>4. CASE Fails(p)
  <2>1. PICK cause : Fail(p, cause)
    BY <1>4 DEF Fails, FetchListFails, FetchRepomdFails, InstallFails, TouchFails, ParseFails,
         FetchPartFails, CookieFails, UseSolvFails, BuildFails, WriteSolvFails, CannotWrite,
         CannotFetch
  <2>2. rm'[p].todo = OnError /\ pc'[p] = "remove"
    BY <1>1, <2>1 DEF Fail, Goto, CommandsOK
  <2>3. OnError # <<"marker">> /\ OnError # <<>>
    BY DEF OnError
  <2>4. QED
    BY <2>2, <2>3 DEF Clears
<1>5. CASE Ends(p)
  BY <1>1, <1>2, <1>5, ApartEnds
<1>6. CASE RemoveFails(p)
  <2>1. CASE rm[p].then \in {"start", "cleaned"}
    BY <1>1, <1>2, <1>6, <2>1, EndMoves DEF RemoveFails
  <2>2. CASE rm[p].then \notin {"start", "cleaned"}
    BY <1>1, <1>2, <1>6, <2>2 DEF RemoveFails, CommandsOK, Note
  <2>3. QED
    BY <2>1, <2>2
<1>7. CASE Remove(p)
  BY <1>1, <1>3, <1>7, RemoveEmpties DEF Clearing, Clears, Empty, Remove
<1>8. CASE NextRemoval(p)
  <2>1. /\ pc' = pc /\ pc[p] = "remove" /\ rm'[p].then = rm[p].then
        /\ rm'[p].todo = Tail(rm[p].todo) /\ rm[p].todo # <<>> /\ Gone(Head(rm[p].todo))
        /\ UNCHANGED <<repomd, metalink, solv>>
    BY <1>1, <1>8 DEF NextRemoval, CommandsOK, Rm, disk, repodata
  <2>2. SUFFICES ASSUME Clearing(p), Clears(p) PROVE Clears(p)'
    BY <1>3, <2>1 DEF Clearing
  <2>3. CASE rm[p].todo = OnError
    <3>1. rm'[p].todo = <<"solv", "marker">> /\ Gone("repodata")
      BY <2>1, <2>3 DEF OnError
    <3>2. repomd = Absent /\ metalink = Absent
      BY <3>1 DEF Gone
    <3>3. rm'[p].todo # <<"marker">> /\ rm'[p].todo # <<>>
      BY <3>1
    <3>4. QED
      BY <2>1, <3>1, <3>2, <3>3 DEF Clears
  <2>4. CASE rm[p].todo = <<"solv", "marker">>
    <3>1. rm'[p].todo = <<"marker">> /\ Gone("solv") /\ rm[p].todo # OnError
      BY <2>1, <2>4 DEF OnError
    <3>2. QED
      BY <2>1, <2>2, <3>1 DEF Gone, Clears
  <2>5. CASE rm[p].todo = <<"marker">>
    <3>1. rm'[p].todo = <<>> /\ rm[p].todo # OnError
      BY <2>1, <2>5 DEF OnError
    <3>2. QED
      BY <2>1, <2>2, <2>5, <3>1 DEF Clears
  <2>6. QED
    BY <2>1, <2>2, <2>3, <2>4, <2>5 DEF Clears
<1>9. CASE Removed(p)
  <2>1. pc'[p] = rm[p].then /\ rm[p].todo = <<>> /\ pc[p] = "remove" /\ rm[p].then # "remove"
        /\ UNCHANGED <<repomd, metalink, solv>>
    BY <1>1, <1>9 DEF Removed, Goto, CommandsOK, StepOK, disk, repodata
  <2>2. OnError # <<>>
    BY DEF OnError
  <2>3. QED
    BY <1>3, <2>1, <2>2 DEF Clearing, Clears, Empty
<1>10. CASE Step(p) /\ ~(Fails(p) \/ Ends(p) \/ RemoveFails(p) \/ Remove(p) \/ NextRemoval(p)
                         \/ Removed(p))
  <2>1. pc'[p] # "failed"
    BY <1>1, <1>10 DEF Step, Fails, Ends, CheckExpired, FindMirrors, FetchList, KeepRepomd,
         FetchRepomd, Install, Touch, Parse, FetchPart, PartsThere, Cookie, UseSolv, Build,
         WriteSolv, Goto, CommandsOK
  <2>2. ~Clearing(p)'
    <3>1. CASE CheckExpired(p)
      BY <1>1, <3>1 DEF CheckExpired, Goto, CommandsOK, Clearing
    <3>2. CASE FetchRepomd(p)
      <4>1. Goto(p, "touch") \/ rm' = [rm EXCEPT ![p] = [todo |-> Replaced, then |-> "install",
                                                        stuck |-> FALSE]]
        BY <3>2 DEF FetchRepomd
      <4>2. QED
        BY <1>1, <4>1 DEF Goto, CommandsOK, Clearing
    <3>3. CASE ~CheckExpired(p) /\ ~FetchRepomd(p)
      BY <1>1, <1>10, <3>3 DEF Step, Fails, Ends, FindMirrors, FetchList, KeepRepomd, Install,
           Touch, Parse, FetchPart, PartsThere, Cookie, UseSolv, Build, WriteSolv, Goto,
           CommandsOK, Clearing
    <3>4. QED
      BY <3>1, <3>2, <3>3
  <2>3. QED
    BY <2>1, <2>2
<1>11. QED
  BY <1>4, <1>5, <1>6, <1>7, <1>8, <1>9, <1>10 DEF Ends

(* The steps of a command that starts with an empty cache and is free.     *)
LEMMA ThroughRemoval ==
  ASSUME TypeInv, NEW p \in Root, GetsThrough(p), Free(p)',
         CheckExpired(p) \/ Remove(p) \/ NextRemoval(p) \/ Removed(p) \/ RemoveFails(p)
  PROVE  GetsThrough(p)'
<1>1. p \in Procs
  BY RootIsProc
<1>2. CASE CheckExpired(p)
  <2>1. Empty /\ Empty'
    BY <1>2 DEF CheckExpired, GetsThrough, Empty, disk, repodata
  <2>2. pc'[p] = "start" \/ (pc'[p] = "remove" /\ rm'[p].then = "start")
    BY <1>1, <1>2 DEF CheckExpired, Goto, CommandsOK
  <2>3. QED
    BY <2>1, <2>2 DEF GetsThrough, Replacing, Clearing
<1>3. CASE Remove(p)
  BY <1>1, <1>3, RemoveEmpties DEF Remove, GetsThrough, Empty, Replacing, Clearing
<1>4. CASE NextRemoval(p)
  <2>1. /\ pc' = pc /\ pc[p] = "remove" /\ rm'[p].then = rm[p].then /\ rm'[p].stuck = rm[p].stuck
        /\ UNCHANGED <<conf, latest, repomd, metalink, solv, loc>>
    BY <1>1, <1>4 DEF NextRemoval, CommandsOK, Rm, disk, repodata, world
  <2>2. QED
    BY <2>1 DEF GetsThrough, Empty, Replacing, Clearing
<1>5. CASE Removed(p)
  <2>1. /\ pc'[p] = rm[p].then /\ pc[p] = "remove" /\ rm' = rm
        /\ rm[p].then \in {"start", "install", "failed", "cleaned"}
        /\ UNCHANGED <<conf, latest, repomd, metalink, solv, loc>>
    BY <1>1, <1>5 DEF Removed, Goto, CommandsOK, StepOK, disk, repodata, world, locals
  <2>2. QED
    BY <2>1 DEF GetsThrough, Empty, Replacing, Clearing
<1>6. CASE RemoveFails(p)
  <2>1. CASE rm[p].then \in {"start", "cleaned"}
    BY <1>1, <1>6, <2>1, EndMoves DEF RemoveFails, Free
  <2>2. CASE rm[p].then \notin {"start", "cleaned"}
    <3>1. note'[p].upset
      BY <1>1, <1>6, <2>2 DEF RemoveFails, CommandsOK, Note
    <3>2. QED
      BY <3>1 DEF Free
  <2>3. QED
    BY <2>1, <2>2
<1>7. QED
  BY <1>2, <1>3, <1>4, <1>5, <1>6

LEMMA ThroughFetch ==
  ASSUME TypeInv, NEW p \in Root, GetsThrough(p), Free(p), InSync(p), Free(p)',
         \/ FindMirrors(p) \/ FetchList(p) \/ KeepRepomd(p) \/ FetchRepomd(p) \/ Install(p)
         \/ Touch(p)
  PROVE  GetsThrough(p)'
<1>1. p \in Procs /\ latest # Absent /\ \A m \in Mirrors : mirror[m] = latest
  BY RootIsProc, CacheConstants DEF Free, InSync, WorldOK, Version
<1>2. CASE FindMirrors(p)
  <2>1. /\ pc'[p] = "fetch" /\ Empty /\ Empty' /\ UNCHANGED <<conf, latest, rm>>
        /\ conf.source # "metalink"
    BY <1>1, <1>2 DEF FindMirrors, NeedsList, GetsThrough, Empty, Goto, CommandsOK, disk, repodata,
                      world
  <2>2. QED
    BY <2>1 DEF GetsThrough, Empty, Replacing, Clearing
<1>3. CASE FetchList(p)
  <2>1. /\ pc'[p] = "fetch" /\ repomd' = Absent /\ solv' = {} /\ UNCHANGED <<conf, latest, rm>>
        /\ conf.source = "metalink" => metalink' = latest
    BY <1>1, <1>3 DEF FetchList, GetsThrough, Empty, Goto, CommandsOK, world
  <2>2. loc'[p].digest = metalink'
    BY <1>1, <1>3 DEF FetchList, CommandsOK, Loc
  <2>3. QED
    BY <2>1, <2>2 DEF GetsThrough, Replacing, Clearing
<1>4. CASE KeepRepomd(p)
  BY <1>4 DEF KeepRepomd, NeedsRepomd, GetsThrough, Free
<1>5. CASE FetchRepomd(p)
  <2>1. repomd = Absent /\ solv = {}
    BY <1>5 DEF FetchRepomd, GetsThrough
  <2>2. ~Same(repomd, latest)
    BY <1>1, <2>1 DEF Same
  <2>3. /\ loc' = [loc EXCEPT ![p].new = latest] /\ Goto(p, "remove")
        /\ rm' = [rm EXCEPT ![p] = [todo |-> Replaced, then |-> "install", stuck |-> FALSE]]
    BY <1>1, <1>5, <2>2 DEF FetchRepomd
  <2>4. /\ loc'[p].new = latest /\ pc'[p] = "remove" /\ rm'[p].then = "install" /\ ~rm'[p].stuck
        /\ solv' = {} /\ latest' = latest
    BY <1>1, <1>5, <2>1, <2>3 DEF FetchRepomd, Goto, CommandsOK, Loc, disk, world
  <2>5. QED
    BY <2>4 DEF GetsThrough, Replacing, Clearing
<1>6. CASE Install(p)
  <2>1. pc'[p] = "touch" /\ repomd' = latest /\ latest' = latest /\ solv' = {}
    BY <1>1, <1>6 DEF Install, GetsThrough, Replacing, Goto, CommandsOK, world
  <2>2. QED
    BY <2>1 DEF GetsThrough, Replacing, Clearing
<1>7. CASE Touch(p)
  <2>1. pc'[p] = "parse" /\ repomd' = latest /\ latest' = latest /\ solv' = {}
    BY <1>1, <1>7 DEF Touch, GetsThrough, Goto, CommandsOK, world, repodata
  <2>2. QED
    BY <2>1 DEF GetsThrough, Replacing, Clearing
<1>8. QED
  BY <1>2, <1>3, <1>4, <1>5, <1>6, <1>7

LEMMA ThroughLoad ==
  ASSUME TypeInv, NEW p \in Root, GetsThrough(p),
         \/ Parse(p) \/ FetchPart(p) \/ PartsThere(p) \/ Cookie(p) \/ UseSolv(p) \/ Build(p)
         \/ WriteSolv(p)
  PROVE  GetsThrough(p)'
<1>1. p \in Procs
  BY RootIsProc
<1>2. CASE Parse(p)
  <2>1. /\ pc'[p] = "parts" /\ repomd = latest /\ solv = {} /\ UNCHANGED <<repomd, solv, latest>>
        /\ loc'[p].md = repomd
    BY <1>1, <1>2 DEF Parse, GetsThrough, Goto, CommandsOK, NoLoc, disk, repodata, world
  <2>2. QED
    BY <2>1 DEF GetsThrough, Replacing, Clearing
<1>3. CASE FetchPart(p)
  BY <1>3 DEF FetchPart, GetsThrough, Replacing, Clearing, world, locals
<1>4. CASE PartsThere(p)
  <2>1. /\ pc'[p] = "cookie" /\ pc[p] = "parts" /\ Missing(p) = {}
        /\ UNCHANGED <<conf, repomd, part, solv, latest, loc>>
    BY <1>1, <1>4 DEF PartsThere, Goto, CommandsOK, disk, repodata, world, locals
  <2>2. Missing(p)' = {}
    BY <2>1 DEF Missing, Name
  <2>3. QED
    BY <2>1, <2>2 DEF GetsThrough, Replacing, Clearing
<1>5. CASE Cookie(p)
  <2>1. /\ pc'[p] = "use" /\ pc[p] = "cookie" /\ loc'[p].md = loc[p].md
        /\ UNCHANGED <<conf, repomd, part, solv, latest>>
    BY <1>1, <1>5 DEF Cookie, Goto, CommandsOK, Loc, disk, repodata, world
  <2>2. Missing(p)' = Missing(p)
    BY <2>1 DEF Missing, Name
  <2>3. QED
    BY <2>1, <2>2 DEF GetsThrough, Replacing, Clearing
<1>6. CASE UseSolv(p)
  BY <1>6 DEF UseSolv, GetsThrough
<1>7. CASE Build(p) \/ WriteSolv(p)
  <2>1. pc'[p] \in {"write", "loaded"}
    BY <1>1, <1>7 DEF Build, WriteSolv, Goto, CommandsOK
  <2>2. QED
    BY <2>1 DEF GetsThrough, Replacing, Clearing
<1>8. QED
  BY <1>2, <1>3, <1>4, <1>5, <1>6, <1>7

(* It does not fail, but for the network or the disk.                      *)
LEMMA ThroughFails ==
  ASSUME TypeInv, NEW p \in Root, GetsThrough(p), Free(p), InSync(p), Fails(p)
  PROVE  ~Free(p)'
<1>1. /\ p \in Procs /\ latest # Absent /\ \A m \in Mirrors : mirror[m] = latest
      /\ 1 \in Mirrors
  BY RootIsProc, CacheConstants DEF Free, InSync, WorldOK, Version, Mirrors
<1>2. SUFFICES ASSUME ~CannotWrite(p), ~CannotFetch(p) PROVE FALSE
  BY CannotIsNotFree
<1>3. CASE FetchRepomdFails(p)
  BY <1>1, <1>2, <1>3 DEF FetchRepomdFails, GetsThrough, Genuine
<1>4. CASE ParseFails(p) \/ CookieFails(p) \/ UseSolvFails(p)
  BY <1>1, <1>4 DEF ParseFails, CookieFails, UseSolvFails, GetsThrough
<1>5. CASE FetchPartFails(p)
  BY <1>1, <1>2, <1>5 DEF FetchPartFails, GetsThrough, HasPart
<1>6. CASE BuildFails(p)
  BY <1>1, <1>6 DEF BuildFails, Readable, GetsThrough
<1>7. CASE FetchListFails(p) \/ TouchFails(p) \/ WriteSolvFails(p) \/ InstallFails(p)
  BY <1>2, <1>7 DEF FetchListFails, TouchFails, WriteSolvFails, InstallFails, GetsThrough, Replacing
<1>8. QED
  BY <1>3, <1>4, <1>5, <1>6, <1>7 DEF Fails

LEMMA ThroughOwn ==
  ASSUME TypeInv, OneRoot, NEW p \in Root, Step(p) \/ Crash(p), InSync(p), Free(p)',
         Free(p) => GetsThrough(p)
  PROVE  GetsThrough(p)'
<1>1. p \in Procs /\ Apart(p) /\ GoesOn(p)
  BY RootIsProc, ApartStep
<1>2. Free(p) /\ GetsThrough(p)
  BY <1>1 DEF Apart, GoesOn, Free
<1>3. ~Ends(p) /\ ~Fails(p)
  BY <1>1, <1>2, ApartEnds, ThroughFails DEF Free
<1>4. QED
  BY <1>2, <1>3, ThroughRemoval, ThroughFetch, ThroughLoad DEF Step, Ends, Fails

(* A failure is counted where the error path has emptied the cache, and    *)
(* only after a success or a command that something was in the way of.     *)
LEMMA CountOwn ==
  ASSUME TypeInv, OneRoot, FailInv, NEW p \in Root, Step(p) \/ Crash(p), ~Running(p)'
  PROVE  FailsOnce' /\ (failures' = 1 => Empty')
<1>1. p \in Procs /\ Apart(p) /\ Running(p)
  BY RootIsProc, ApartStep DEF Apart
<1>2. ErrorPath(p) /\ failures \in 0..1
  BY DEF FailInv, FailsOnce, CommandsOK
<1>3. Ends(p) \/ RemoveFails(p)
  <2>1. pc'[p] = "ended"
    <3>1. CASE Step(p) /\ ~(Fails(p) \/ Ends(p) \/ RemoveFails(p))
      <4>1. pc'[p] # "idle"
        BY <1>1, <3>1 DEF Step, Ends, Fails, CheckExpired, Remove, NextRemoval, Removed,
             FindMirrors, FetchList, KeepRepomd, FetchRepomd, Install, Touch, Parse, FetchPart,
             PartsThere, Cookie, UseSolv, Build, WriteSolv, Goto, CommandsOK, StepOK
      <4>2. QED
        BY <4>1 DEF Running
    <3>2. CASE Fails(p)
      BY <1>1, <3>2, FailsMove DEF Running
    <3>3. CASE Ends(p)
      BY <1>1, <3>3, EndsMove
    <3>4. CASE RemoveFails(p)
      <4>1. CASE rm[p].then \in {"start", "cleaned"}
        BY <1>1, <3>4, <4>1 DEF RemoveFails, End, Goto, CommandsOK
      <4>2. CASE rm[p].then \notin {"start", "cleaned"}
        BY <1>1, <3>4, <4>2 DEF RemoveFails, Running
      <4>3. QED
        BY <4>1, <4>2
    <3>5. QED
      BY <3>1, <3>2, <3>3, <3>4 DEF Ends
  <2>2. QED
    BY <1>1, <2>1, EndedBy
<1>4. CASE RemoveFails(p) \/ Crash(p) \/ Finish(p) \/ Cleaned(p)
  <2>1. CASE RemoveFails(p)
    <3>1. rm[p].then \in {"start", "cleaned"}
      BY <1>1, <2>1 DEF RemoveFails, Running
    <3>2. failures' = 0
      BY <2>1, <3>1 DEF RemoveFails, End
    <3>3. QED
      BY <3>2 DEF FailsOnce
  <2>2. CASE Crash(p) \/ Finish(p) \/ Cleaned(p)
    <3>1. failures' = 0
      BY <2>2 DEF Crash, Finish, Cleaned, End
    <3>2. QED
      BY <3>1 DEF FailsOnce
  <2>3. QED
    BY <1>4, <2>1, <2>2
<1>5. CASE Failed(p)
  <2>1. pc[p] = "failed" /\ UNCHANGED <<repomd, metalink, solv>>
    BY <1>5 DEF Failed, disk, repodata
  <2>2. CASE Free(p)
    <3>1. failures = 0
      BY <1>2, <2>1, <2>2 DEF FailInv, RetryInv, GetsThrough
    <3>2. failures' \in {0, 1}
      BY <1>5, <3>1 DEF Failed, End
    <3>3. Empty
      BY <1>1, <1>2, <2>1, <2>2 DEF ErrorPath, Free
    <3>4. QED
      BY <2>1, <3>2, <3>3 DEF FailsOnce, Empty
  <2>3. CASE ~Free(p)
    <3>1. failures' = 0
      BY <1>1, <1>5, <2>3 DEF Failed, End, Free
    <3>2. QED
      BY <3>1 DEF FailsOnce
  <2>4. QED
    BY <2>2, <2>3
<1>6. QED
  BY <1>3, <1>4, <1>5 DEF Ends

LEMMA ErrorPathStep ==
  ASSUME TypeInv, OneRoot, [Next]_vars, \A p \in Root : ErrorPath(p), NEW q \in Root
  PROVE  ErrorPath(q)'
<1>1. q \in Procs /\ ErrorPath(q)
  BY RootIsProc
<1>2. ASSUME NEW p \in Procs, Step(p) \/ Crash(p) PROVE ErrorPath(q)'
  <2>1. CASE p = q
    BY <1>1, <1>2, <2>1, ErrorPathOwn
  <2>2. CASE p # q
    <3>1. Apart(p)
      BY <1>2, ApartStep
    <3>2. CASE p \in Root
      <4>1. ~Running(q)'
        BY <1>1, <2>2, <3>1, <3>2 DEF Apart, OneRoot, Running
      <4>2. QED
        BY <4>1 DEF ErrorPath
    <3>3. CASE p \notin Root
      BY <1>1, <2>2, <3>1, <3>3 DEF Apart, ErrorPath, Running, Clearing, Clears, Empty, disk, repodata
    <3>4. QED
      BY <3>2, <3>3
  <2>3. QED
    BY <2>1, <2>2
<1>3. ASSUME NEW p \in Procs, Begin(p) \/ BeginClean(p) PROVE ErrorPath(q)'
  <2>1. CASE p = q
    <3>1. pc'[q] # "failed" /\ ~Clearing(q)'
      <4>1. CASE Begin(p)
        BY <1>1, <2>1, <4>1 DEF Begin, Goto, CommandsOK, Clearing
      <4>2. CASE BeginClean(p)
        <5>1. \E kind \in Cleans : rm' = [rm EXCEPT ![p] = [todo |-> CleanSteps[kind],
                                                           then |-> "cleaned", stuck |-> FALSE]]
          BY <4>2 DEF BeginClean
        <5>2. QED
          BY <1>1, <2>1, <4>2, <5>1 DEF BeginClean, Goto, CommandsOK, Clearing
      <4>3. QED
        BY <1>3, <4>1, <4>2
    <3>2. QED
      BY <3>1 DEF ErrorPath
  <2>2. CASE p # q
    <3>1. PICK ready, floor : Starts(p, ready, floor)
      BY <1>3 DEF Begin, BeginClean
    <3>2. note'[q].upset = (note[q].upset \/ (p \in Root /\ Running(q)))
      BY <1>1, <2>2, <3>1, StartsNotes
    <3>3. pc'[q] = pc[q] /\ rm'[q] = rm[q] /\ UNCHANGED <<repomd, metalink, solv>>
      BY <1>1, <1>3, <2>2, BeginMoves DEF disk, repodata
    <3>4. QED
      BY <1>1, <3>2, <3>3 DEF ErrorPath, Running, Clearing, Clears, Empty
  <2>3. QED
    BY <2>1, <2>2
<1>4. CASE UNCHANGED vars \/ Publish \/ (\E m \in Mirrors : Sync(m)) \/ Tick
  <2>1. UNCHANGED <<pc, rm, repomd, metalink, solv>> /\ note'[q].upset = note[q].upset
    BY <1>1, <1>4 DEF vars, Publish, Sync, Tick, Unsettled, CommandsOK, Note, disk, repodata, locals
  <2>2. QED
    BY <1>1, <2>1 DEF ErrorPath, Running, Clearing, Clears, Empty
<1>5. QED
  BY <1>2, <1>3, <1>4 DEF Next

LEMMA RetryStep ==
  ASSUME TypeInv, OneRoot, FailInv, [Next]_vars
  PROVE  FailsOnce' /\ RetryInv'
<1>1. ASSUME NEW p \in Procs, Step(p) \/ Crash(p) PROVE FailsOnce' /\ RetryInv'
  <2>1. Apart(p) /\ GoesOn(p)
    BY <1>1, ApartStep
  <2>2. CASE p \notin Root
    <3>1. UNCHANGED <<failures, repomd, metalink, solv, part, conf, latest, mirror>>
      BY <2>1, <2>2 DEF Apart, disk, repodata, world
    <3>2. \A q \in Root : /\ pc'[q] = pc[q] /\ opt'[q] = opt[q] /\ rm'[q] = rm[q]
                         /\ loc'[q] = loc[q] /\ note'[q] = note[q]
      BY <2>1, <2>2, RootIsProc DEF Apart
    <3>3. \A q \in Root : (Running(q)' <=> Running(q)) /\ (Free(q)' <=> Free(q))
      BY <3>2 DEF Running, Free
    <3>4. \A q \in Root : GetsThrough(q) => GetsThrough(q)'
      BY <3>1, <3>2 DEF GetsThrough, Empty, Replacing, Clearing, Missing, Name
    <3>5. QED
      BY <3>1, <3>3, <3>4 DEF FailInv, FailsOnce, RetryInv, Empty
  <2>3. CASE p \in Root /\ Running(p)'
    <3>1. failures' = failures
      BY <2>1, <2>3 DEF GoesOn
    <3>2. ASSUME failures = 1, NEW q \in Root, Free(q)' PROVE GetsThrough(q)'
      <4>1. q = p
        BY <2>1, <2>3, <3>2, RootIsProc DEF Apart, OneRoot, Free, Running
      <4>2. (Free(p) => GetsThrough(p)) /\ InSync(p)
        BY <2>3, <3>2 DEF FailInv, RetryInv
      <4>3. QED
        BY <1>1, <2>3, <3>2, <4>1, <4>2, ThroughOwn
    <3>3. QED
      BY <2>3, <3>1, <3>2 DEF FailInv, FailsOnce, RetryInv
  <2>4. CASE p \in Root /\ ~Running(p)'
    <3>1. FailsOnce' /\ (failures' = 1 => Empty')
      BY <1>1, <2>4, CountOwn
    <3>2. \A q \in Root : ~Running(q)'
      BY <2>1, <2>4, RootIsProc DEF Apart, OneRoot, Running
    <3>3. QED
      BY <3>1, <3>2 DEF RetryInv, Free
  <2>5. QED
    BY <2>2, <2>3, <2>4
<1>2. ASSUME NEW p \in Procs, Begin(p) \/ BeginClean(p) PROVE FailsOnce' /\ RetryInv'
  <2>1. UNCHANGED <<failures, repomd, metalink, solv, part, conf, latest, mirror, loc>>
    BY <1>2, BeginMoves DEF disk, repodata, world
  <2>2. \A q \in Root \ {p} : pc'[q] = pc[q] /\ opt'[q] = opt[q] /\ rm'[q] = rm[q]
    BY <1>2, BeginMoves, RootIsProc
  <2>3. PICK ready, floor : Starts(p, ready, floor)
    BY <1>2 DEF Begin, BeginClean
  <2>4. ASSUME failures = 1, NEW q \in Root, Free(q)' PROVE GetsThrough(q)'
    <3>1. q \in Procs
      BY RootIsProc
    <3>2. CASE q = p
      <4>1. Empty
        BY <1>2, <2>4, <3>2, BeginMoves DEF FailInv, RetryInv
      <4>2. CASE Begin(p)
        <5>1. pc'[p] = "expire"
          BY <4>2 DEF Begin, Goto, CommandsOK
        <5>2. QED
          BY <2>1, <3>2, <4>1, <5>1 DEF GetsThrough, Empty, Replacing, Clearing
      <4>3. CASE BeginClean(p)
        <5>1. \E kind \in Cleans : rm' = [rm EXCEPT ![p] = [todo |-> CleanSteps[kind],
                                                           then |-> "cleaned", stuck |-> FALSE]]
          BY <4>3 DEF BeginClean
        <5>2. pc'[p] = "remove" /\ rm'[p].then = "cleaned"
          BY <4>3, <5>1 DEF BeginClean, Goto, CommandsOK
        <5>3. QED
          BY <3>2, <5>2 DEF GetsThrough, Replacing, Clearing
      <4>4. QED
        BY <1>2, <4>2, <4>3
    <3>3. CASE q # p
      <4>1. Running(q)
        BY <2>2, <2>4, <3>3 DEF Free, Running
      <4>2. /\ note'[q].upset = (note[q].upset \/ (p \in Root /\ Running(q)))
            /\ note'[q].calm = note[q].calm
        BY <2>3, <3>1, <3>3, StartsNotes
      <4>3. Free(q)
        BY <2>2, <2>4, <3>3, <4>1, <4>2 DEF Free
      <4>4. GetsThrough(q)
        BY <2>4, <4>3 DEF FailInv, RetryInv
      <4>5. QED
        BY <2>1, <2>2, <3>3, <4>4 DEF GetsThrough, Empty, Replacing, Clearing, Missing, Name
    <3>4. QED
      BY <3>2, <3>3
  <2>5. ASSUME failures = 1, \A r \in Root : ~Running(r)' PROVE Empty'
    <3>1. \A r \in Root : ~Running(r)
      <4>1. TAKE r \in Root
      <4>2. r # p
        BY <1>2, <2>5, BeginMoves
      <4>3. QED
        BY <2>2, <2>5, <4>2 DEF Running
    <3>2. QED
      BY <2>1, <2>5, <3>1 DEF FailInv, RetryInv, Empty
  <2>6. QED
    BY <2>1, <2>4, <2>5 DEF FailInv, FailsOnce, RetryInv
<1>3. CASE Publish \/ \E m \in Mirrors : Sync(m)
  <2>1. Unsettled /\ UNCHANGED <<pc, failures, repomd, metalink, solv>>
    BY <1>3 DEF Publish, Sync, disk, repodata
  <2>2. \A q \in Root : ~Free(q)'
    BY <2>1, RootIsProc DEF Unsettled, Free, Running, CommandsOK, Note
  <2>3. QED
    BY <2>1, <2>2 DEF FailInv, FailsOnce, RetryInv, Running, Empty
<1>4. CASE UNCHANGED vars
  BY <1>4 DEF vars, world, disk, repodata, locals, FailInv, FailsOnce, RetryInv, Free, Running,
              GetsThrough, Empty, Replacing, Clearing, Missing, Name
<1>5. CASE Tick
  BY <1>5, RootIsProc DEF Tick, FailInv, FailsOnce, RetryInv, Free, Running, Empty, repodata
<1>6. QED
  BY <1>1, <1>2, <1>3, <1>4, <1>5 DEF Next

LEMMA FailStep == VersionInv /\ FailInv /\ [Next]_vars => FailInv'
<1> SUFFICES ASSUME VersionInv, FailInv, [Next]_vars PROVE FailInv'
  OBVIOUS
<1>1. TypeInv /\ OneRoot /\ \A p \in Root : ErrorPath(p) /\ InSync(p)
  BY DEF VersionInv, FailInv
<1>2. FailsOnce' /\ RetryInv'
  BY <1>1, RetryStep
<1>3. \A q \in Root : ErrorPath(q)' /\ InSync(q)'
  BY <1>1, ErrorPathStep, InSyncStep
<1>4. QED
  BY <1>2, <1>3 DEF FailInv

(* Two privileged commands in a row do not both fail with nothing in their *)
(* way: what the first one leaves of a broken cache, the second one can    *)
(* load, whatever failed or was interrupted before the first.              *)
THEOREM FailsOnceAlways == Spec => []FailsOnce
<1>1. Init => FailInv
  BY RootIsProc DEF Init, FailInv, FailsOnce, RetryInv, ErrorPath, InSync, Running
<1>2. FailInv => FailsOnce
  BY DEF FailInv
<1> HIDE DEF TypeInv, TypeOK, Steps
<1>3. QED
  BY <1>1, <1>2, FailStep, AlwaysVersionInv, PTL DEF Spec
=============================================================================
