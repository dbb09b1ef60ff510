--------------------------- MODULE RpmTransProofs ---------------------------
(***************************************************************************)
(* What is proved about RpmTrans, for any packages, repositories, keys,    *)
(* options, jobs and faults: what the checks of a package established      *)
(* when it was added still holds when rpm runs, and the list of cached     *)
(* files misses none that was accepted.                                    *)
(*                                                                         *)
(* Files are what the argument turns on.  A file that matched is never     *)
(* written again by the same command, because a download starts only where *)
(* there is no file that counts (Source), and keys are only added to the   *)
(* rpm database.                                                           *)
(***************************************************************************)
EXTENDS RpmTransProps, TLAPS

Members(s) == {s[i] : i \in 1..Len(s)}
Element == [op : Ops, pkg : Pkgs, file : {"none", "dir", "repo", "cache"}]
Files == [Pkgs -> Content \cup {Absent}]

\* where the command is: it has a package in hand, has its file, has compared it
Compared == {"read", "ask", "import", "unlink", "accept"}
HasFile == Compared \cup {"check"}
InHand == HasFile \cup {"download"}
Running == InHand \cup {"add", "test", "run"}

Types ==
    /\ cache \in Files /\ dir \in Files /\ installed \in Files
    /\ todo \in Seq(Trans) /\ elems \in Seq(Element) /\ cached \in Seq(Pkgs)
    /\ file \in {"none", "dir", "repo", "cache"} /\ lax \in BOOLEAN
    /\ note \in [strict : BOOLEAN, accepted : SUBSET Pkgs]
    /\ pc \in Running \cup {"idle", "cleanup", "ended"}

HandInv ==
    /\ pc \in InHand => todo # <<>>
    /\ pc = "download" => Source(Pkg) = "none"
    /\ pc \in HasFile => \/ file = "dir" /\ ToDir
                         \/ file = "repo" /\ RepoOf[Pkg] \in conf.local
                         \/ file = "cache"

\* what Compare and the signature check have established of the package in hand
CheckedInv ==
    /\ pc \in Compared => Matches(Pkg)
    /\ pc = "accept" => \/ lax
                        \/ /\ ContentOf(Pkg, file) = "good"
                           /\ KeyOf[Pkg] \in ring \/ ~SignatureCheck(RepoOf[Pkg])

\* and what is left of that for an element of the transaction
Good(e) ==
    /\ ContentOf(e.pkg, e.file) \in {"good", "damaged"}
    /\ e.pkg \in Summed => ContentOf(e.pkg, e.file) = "good"
    /\ \/ lax
       \/ /\ ContentOf(e.pkg, e.file) = "good"
          /\ KeyOf[e.pkg] \in ring \/ opt.skipsignature
ElemInv == pc \in Running => \A e \in Members(elems) : e.op # "erase" => Good(e)

StrictInv ==
    pc \in Running /\ note.strict =>
        ~lax /\ Checked(opt) /\ \A t \in Members(todo) : RepoOf[t.pkg] \in conf.gpgcheck

\* a file that was accepted is in the list, or removed
LeftInv ==
    /\ pc \in Running \cup {"cleanup"} =>
         \A p \in note.accepted : \/ RepoOf[p] \in conf.local \/ ToDir
                                  \/ p \in Members(cached)
                                  \/ pc = "cleanup" /\ cache[p] = Absent
    /\ NothingLeft

IdleInv == pc \in {"idle", "ended"} => elems = <<>> /\ cached = <<>> /\ ~lax

Inv == /\ Types /\ HandInv /\ CheckedInv /\ ElemInv /\ StrictInv /\ LeftInv /\ IdleInv
       /\ SummedIsGood

USE TransConstants
-----------------------------------------------------------------------------
(***************************************************************************)
(* Sequences and files.                                                    *)
(***************************************************************************)
LEMMA HeadTail ==
  ASSUME NEW S, NEW s \in Seq(S), s # <<>>
  PROVE  /\ Head(s) \in S /\ Tail(s) \in Seq(S)
         /\ Head(s) \in Members(s) /\ Members(Tail(s)) \subseteq Members(s)
         /\ Members(s) \subseteq {Head(s)} \cup Members(Tail(s))
<1>1. Len(s) \in Nat \ {0} /\ Head(s) = s[1] /\ 1 \in 1..Len(s)
  OBVIOUS
<1>2. /\ Tail(s) \in Seq(S) /\ Len(Tail(s)) = Len(s) - 1
      /\ \A i \in 1..Len(Tail(s)) : Tail(s)[i] = s[i + 1]
  BY <1>1
<1>3. \A i \in 1..Len(s) : s[i] \in S
  OBVIOUS
<1>4. \A i \in 1..Len(s) : i = 1 \/ (i - 1 \in 1..Len(Tail(s)) /\ s[i] = Tail(s)[i - 1])
  BY <1>1, <1>2
<1>5. Members(s) \subseteq {Head(s)} \cup Members(Tail(s))
  BY <1>1, <1>4 DEF Members
<1>6. Members(Tail(s)) \subseteq Members(s)
  BY <1>1, <1>2 DEF Members
<1>7. QED
  BY <1>1, <1>2, <1>3, <1>5, <1>6 DEF Members

LEMMA AppendMembers ==
  ASSUME NEW S, NEW s \in Seq(S), NEW x \in S
  PROVE  Append(s, x) \in Seq(S) /\ Members(Append(s, x)) \subseteq Members(s) \cup {x}
BY DEF Members

LEMMA ListedMembers ==
  ASSUME cached \in Seq(Pkgs), NEW p \in Pkgs
  PROVE  Listed(p) \in Seq(Pkgs) /\ Members(cached) \cup {p} \subseteq Members(Listed(p))
<1> DEFINE l == <<p>> \o cached
<1>1. l \in Seq(Pkgs) /\ Len(l) = Len(cached) + 1 /\ Len(cached) \in Nat
  OBVIOUS
<1>2. l[1] = p /\ \A i \in 1..Len(cached) : l[i + 1] = cached[i]
  OBVIOUS
<1> HIDE DEF l
<1>3. \A i \in 1..Len(cached) : i + 1 \in 1..Len(l)
  BY <1>1
<1>4. 1 \in 1..Len(l)
  BY <1>1
<1>5. Members(cached) \cup {p} \subseteq Members(l)
  BY <1>2, <1>3, <1>4 DEF Members
<1>6. QED
  BY <1>1, <1>5 DEF Listed, l

LEMMA Empty == Members(<<>>) = {}
BY DEF Members

LEMMA ContentValue ==
  ASSUME NEW p
  PROVE  /\ ContentOf(p, "dir") = dir[p] /\ ContentOf(p, "cache") = cache[p]
         /\ \A place : place \notin {"dir", "cache"} => ContentOf(p, place) = "good"
BY DEF ContentOf

LEMMA SourceValue ==
  ASSUME NEW p
  PROVE  /\ Source(p) \in {"none", "dir", "repo", "cache"}
         /\ Source(p) = "dir" => ToDir
         /\ Source(p) = "repo" => RepoOf[p] \in conf.local
         /\ Source(p) = "none" => IF ToDir THEN dir[p] \in {Absent, "empty"} ELSE cache[p] = Absent
<1>1. CASE ToDir
  BY <1>1 DEF Source
<1>2. CASE ~ToDir /\ RepoOf[p] \in conf.local
  BY <1>2 DEF Source
<1>3. CASE ~ToDir /\ RepoOf[p] \notin conf.local
  BY <1>3 DEF Source
<1>4. QED
  BY <1>1, <1>2, <1>3

LEMMA ReadsValue ==
  ASSUME NEW p
  PROVE  /\ Reads(p) \in {"ok", "nokey", "fail"}
         /\ Reads(p) = "ok" => lax \/ (ContentOf(p, file) = "good" /\ KeyOf[p] \in ring)
         /\ Reads(p) = "nokey" => ContentOf(p, file) = "good"
<1>1. CASE lax
  BY <1>1 DEF Reads
<1>2. CASE ~lax /\ ContentOf(p, file) # "good"
  BY <1>2 DEF Reads
<1>3. CASE ~lax /\ ContentOf(p, file) = "good" /\ KeyOf[p] \in ring
  BY <1>3 DEF Reads
<1>4. CASE ~lax /\ ContentOf(p, file) = "good" /\ KeyOf[p] \notin ring
  BY <1>4 DEF Reads
<1>5. QED
  BY <1>1, <1>2, <1>3, <1>4

LEMMA InitInv == Init => Inv
<1> SUFFICES ASSUME Init PROVE Inv
  OBVIOUS
<1>1. Types
  <2>1. [p \in Pkgs |-> Absent] \in Files
    BY DEF Files
  <2>2. cache \in Files /\ dir \in Files /\ installed \in Files
    BY <2>1, Zenon DEF Init
  <2>3. note \in [strict : BOOLEAN, accepted : SUBSET Pkgs]
    BY DEF Init, NoNote
  <2>4. todo \in Seq(Trans) /\ elems \in Seq(Element) /\ cached \in Seq(Pkgs)
    BY DEF Init
  <2>5. QED
    BY <2>2, <2>3, <2>4 DEF Init, Types
<1>2. QED
  BY <1>1 DEF Init, Inv, HandInv, CheckedInv, ElemInv, StrictInv, LeftInv, IdleInv, NothingLeft,
              SummedIsGood, Running, InHand, HasFile, Compared

-----------------------------------------------------------------------------
(***************************************************************************)
(* Two kinds of steps change little: the ones that end a command early,    *)
(* and the ones that go on with the package in hand.                       *)
(***************************************************************************)
LEMMA AbortInv ==
  ASSUME Inv, pc \in Running, pc' = "cleanup", note' = note,
         UNCHANGED <<conf, cache, dir, installed, opt, todo, elems, cached, file, lax>>
  PROVE  Inv'
<1>1. Types'
  BY DEF Inv, Types
<1>2. LeftInv'
  BY DEF Inv, LeftInv, NothingLeft, ToDir, Running, InHand, HasFile, Compared
<1>3. QED
  BY <1>1, <1>2 DEF Inv, HandInv, CheckedInv, ElemInv, StrictInv, IdleInv, SummedIsGood, Running,
                    InHand, HasFile, Compared

LEMMA GoOnInv ==
  ASSUME Inv, pc \in Running, pc' \in Running, ring \subseteq ring', note' = note,
         UNCHANGED <<conf, cache, dir, installed, opt, todo, elems, cached, file, lax>>,
         pc' \in InHand => pc \in HasFile \/ (pc = "download" /\ pc' = "download"),
         pc' = "download" => pc = "download",
         pc' \in Compared => Matches(Pkg),
         pc' = "accept" => \/ lax
                           \/ /\ ContentOf(Pkg, file) = "good"
                              /\ KeyOf[Pkg] \in ring' \/ ~SignatureCheck(RepoOf[Pkg])
  PROVE  Inv'
<1>1. Types'
  BY DEF Inv, Types
<1>2. HandInv'
  <2>1. todo' = todo /\ Pkg' = Pkg /\ ToDir' = ToDir /\ Source(Pkg)' = Source(Pkg)
    BY DEF Pkg, ToDir, Source
  <2>2. QED
    BY <2>1 DEF Inv, HandInv, InHand, HasFile
<1>3. CheckedInv'
  BY DEF CheckedInv, Matches, ContentOf, SignatureCheck, Pkg
<1>4. ElemInv'
  BY DEF Inv, ElemInv, Good, ContentOf
<1>5. StrictInv'
  BY DEF Inv, StrictInv, Checked
<1>6. LeftInv'
  <2>1. pc' # "ended" /\ pc # "cleanup" /\ pc' # "cleanup"
    BY DEF Running, InHand, HasFile, Compared
  <2>2. QED
    BY <2>1 DEF Inv, LeftInv, NothingLeft, ToDir
<1>7. QED
  BY <1>1, <1>2, <1>3, <1>4, <1>5, <1>6
  DEF Inv, IdleInv, SummedIsGood, Running, InHand, HasFile, Compared

LEMMA FailureInv ==
  Inv /\ (CannotStore \/ Refuse \/ FetchKeyFails \/ RemoveKeyFails \/ TestFails) => Inv'
<1> SUFFICES ASSUME Inv, CannotStore \/ Refuse \/ FetchKeyFails \/ RemoveKeyFails \/ TestFails
             PROVE  Inv'
  OBVIOUS
<1>1. /\ pc \in Running /\ pc' = "cleanup" /\ note' = note
      /\ UNCHANGED <<conf, cache, dir, installed, opt, todo, elems, cached, file, lax>>
  BY DEF CannotStore, Refuse, FetchKeyFails, RemoveKeyFails, TestFails, Abort, Goto, disk, Running,
         InHand, HasFile, Compared
<1>2. QED
  BY <1>1, AbortInv

\* the comparison, and the keys
LEMMA HandSteps ==
  Inv /\ (DownloadFails \/ Compare \/ FetchKey \/ ImportKey \/ RemoveKey) => Inv'
<1> SUFFICES ASSUME Inv, DownloadFails \/ Compare \/ FetchKey \/ ImportKey \/ RemoveKey
             PROVE  Inv'
  OBVIOUS
<1>1. /\ note' = note /\ ring \subseteq ring'
      /\ UNCHANGED <<conf, cache, dir, installed, opt, todo, elems, cached, file, lax>>
  BY DEF DownloadFails, Compare, FetchKey, ImportKey, RemoveKey, Abort, disk, locals
<1>2. pc \in InHand /\ pc' \in InHand \cup {"cleanup"} /\ pc' # "accept"
  BY DEF DownloadFails, Compare, FetchKey, ImportKey, RemoveKey, Abort, Goto, InHand, HasFile,
         Compared
<1>3. CASE pc' = "cleanup"
  BY <1>1, <1>2, <1>3, AbortInv DEF Running
<1>4. CASE pc' # "cleanup"
  <2>1. pc \in HasFile \/ (pc = "download" /\ pc' = "download")
    BY <1>2, <1>4 DEF DownloadFails, Compare, FetchKey, ImportKey, RemoveKey, Abort, Goto, HasFile,
                      Compared
  <2>2. pc' = "download" => pc = "download"
    BY DEF DownloadFails, Compare, FetchKey, ImportKey, RemoveKey, Abort, Goto
  <2>3. pc' \in Compared => pc \in Compared \/ Matches(Pkg)
    BY DEF DownloadFails, Compare, FetchKey, ImportKey, RemoveKey, Abort, Goto, Compared
  <2>4. pc' \in Compared => Matches(Pkg)
    BY <2>3 DEF Inv, CheckedInv
  <2>5. QED
    BY <1>1, <1>2, <1>4, <2>1, <2>2, <2>4, GoOnInv DEF Running
<1>5. QED
  BY <1>3, <1>4

\* rpm reads the package, before and after keys were imported
LEMMA ReadInv == Inv /\ (Read \/ KeysDone) => Inv'
<1> SUFFICES ASSUME Inv, Read \/ KeysDone PROVE Inv'
  OBVIOUS
<1>1. /\ note' = note /\ ring' = ring
      /\ UNCHANGED <<conf, cache, dir, installed, opt, todo, elems, cached, file, lax>>
  BY DEF Read, KeysDone, Abort, disk
<1>2. pc \in {"read", "ask"} /\ pc' \in {"ask", "accept", "cleanup"}
  BY DEF Read, KeysDone, Abort, Goto
<1>3. CASE pc' = "cleanup"
  BY <1>1, <1>2, <1>3, AbortInv DEF Running, InHand, HasFile, Compared
<1>4. CASE pc' # "cleanup"
  <2>1. Matches(Pkg)
    BY <1>2 DEF Inv, CheckedInv, Compared
  <2>2. pc' = "accept" => \/ Reads(Pkg) = "ok"
                          \/ Reads(Pkg) = "nokey" /\ ~SignatureCheck(RepoOf[Pkg])
    <3>0. Reads(Pkg) \in {"ok", "nokey", "fail"}
      BY ReadsValue
    <3>1. CASE Read
      BY <1>4, <3>0, <3>1 DEF Read, Abort, Goto
    <3>2. CASE KeysDone
      BY <1>4, <3>2 DEF KeysDone, Abort, Goto
    <3>3. QED
      BY <3>1, <3>2
  <2>3. Reads(Pkg) = "ok" => lax \/ (ContentOf(Pkg, file) = "good" /\ KeyOf[Pkg] \in ring)
    BY ReadsValue
  <2>4. Reads(Pkg) = "nokey" => ContentOf(Pkg, file) = "good"
    BY ReadsValue
  <2>5. pc' = "accept" => \/ lax
                          \/ /\ ContentOf(Pkg, file) = "good"
                             /\ KeyOf[Pkg] \in ring' \/ ~SignatureCheck(RepoOf[Pkg])
    BY <1>1, <2>2, <2>3, <2>4
  <2>6. pc \in HasFile /\ pc \in Running /\ pc' \in Running /\ pc' # "download"
    BY <1>2, <1>4 DEF Running, InHand, HasFile, Compared
  <2>7. QED
    BY <1>1, <2>1, <2>5, <2>6, GoOnInv
<1>5. QED
  BY <1>3, <1>4

-----------------------------------------------------------------------------
(***************************************************************************)
(* The next package: where its file is, or its download.                   *)
(***************************************************************************)
LEMMA PkgType == ASSUME Inv, todo # <<>> PROVE Head(todo) \in Trans /\ Pkg \in Pkgs
<1>1. todo \in Seq(Trans)
  BY DEF Inv, Types
<1>2. Head(todo) \in Trans
  BY <1>1, HeadTail
<1>3. QED
  BY <1>2 DEF Trans, Pkg

LEMMA LocateInv == Inv /\ (Locate \/ StartDownload) => Inv'
<1> SUFFICES ASSUME Inv, Locate \/ StartDownload PROVE Inv'
  OBVIOUS
<1>1. /\ pc = "add" /\ todo # <<>> /\ note' = note /\ ring' = ring
      /\ UNCHANGED <<conf, cache, dir, installed, opt, todo, elems, cached, lax>>
      /\ pc' \in {"check", "download"}
  BY DEF Locate, StartDownload, Adding, Goto, disk
<1>2. Source(Pkg) \in {"none", "dir", "repo", "cache"}
  BY SourceValue
<1>3. file' \in {"none", "dir", "repo", "cache"}
  BY <1>2 DEF Locate, StartDownload, Inv, Types
<1>4. Types'
  BY <1>1, <1>3 DEF Inv, Types, Running, InHand, HasFile
<1>5. HandInv'
  <2>1. Pkg' = Pkg /\ ToDir' = ToDir /\ Source(Pkg)' = Source(Pkg)
    BY <1>1 DEF Pkg, ToDir, Source
  <2>2. CASE Locate
    <3>1. pc' = "check" /\ file' = Source(Pkg) /\ Source(Pkg) # "none"
      BY <2>2 DEF Locate, Goto
    <3>2. QED
      BY <1>1, <1>2, <2>1, <3>1, SourceValue DEF HandInv
  <2>3. CASE StartDownload
    <3>1. pc' = "download" /\ Source(Pkg) = "none"
      BY <2>3 DEF StartDownload, Goto
    <3>2. QED
      BY <1>1, <2>1, <3>1 DEF HandInv, HasFile, Compared
  <2>4. QED
    BY <2>2, <2>3
<1>6. CheckedInv'
  BY <1>1 DEF CheckedInv, Compared
<1>7. ElemInv' /\ StrictInv' /\ LeftInv'
  BY <1>1 DEF Inv, ElemInv, Good, ContentOf, StrictInv, Checked, LeftInv, NothingLeft, ToDir, Running,
              InHand, HasFile
<1>8. QED
  BY <1>1, <1>4, <1>5, <1>6, <1>7 DEF Inv, IdleInv, SummedIsGood

\* a download writes no file that an element of the transaction has
LEMMA DownloadInv == Inv /\ Download => Inv'
<1> SUFFICES ASSUME Inv, Download PROVE Inv'
  OBVIOUS
<1>1. /\ pc = "download" /\ pc' = "check" /\ note' = note /\ ring' = ring
      /\ UNCHANGED <<conf, installed, opt, todo, elems, cached, lax>>
  BY DEF Download, Goto
<1>2. todo # <<>> /\ Source(Pkg) = "none"
  BY <1>1 DEF Inv, HandInv, InHand
<1>3. PICK c \in Content : Store(Pkg, c)
  BY DEF Download, Content
<1>4. Pkg \in Pkgs
  BY <1>2, PkgType
<1>5. Types'
  <2>1. cache' \in Files /\ dir' \in Files
    BY <1>3, <1>4 DEF Inv, Types, Files, Store
  <2>2. file' \in {"dir", "cache"}
    BY <1>3 DEF Store
  <2>3. QED
    BY <1>1, <2>1, <2>2 DEF Inv, Types, Running, InHand, HasFile
<1>6. HandInv'
  <2>1. file' = IF ToDir THEN "dir" ELSE "cache"
    BY <1>3 DEF Store
  <2>2. QED
    BY <1>1, <1>2, <2>1 DEF HandInv, ToDir, Pkg
<1>7. ElemInv'
  <2> SUFFICES ASSUME NEW e \in Members(elems), e.op # "erase"
               PROVE  Good(e)'
    BY <1>1 DEF ElemInv
  <2>1. Good(e)
    BY <1>1 DEF Inv, ElemInv, Running, InHand
  <2>2. ContentOf(e.pkg, e.file)' = ContentOf(e.pkg, e.file)
    <3>1. IF ToDir THEN dir[Pkg] \notin {"good", "damaged"} ELSE cache[Pkg] \notin {"good", "damaged"}
      BY <1>2, SourceValue DEF Absent
    <3>2. ContentOf(e.pkg, e.file) \in {"good", "damaged"}
      BY <2>1 DEF Good
    <3>3. CASE e.file = "dir"
      <4>1. ContentOf(e.pkg, e.file) = dir[e.pkg] /\ ContentOf(e.pkg, e.file)' = dir'[e.pkg]
        BY <3>3 DEF ContentOf
      <4>2. ~ToDir \/ e.pkg # Pkg
        BY <3>1, <3>2, <4>1
      <4>3. QED
        BY <1>3, <4>1, <4>2 DEF Store, Inv, Types, Files
    <3>4. CASE e.file = "cache"
      <4>1. ContentOf(e.pkg, e.file) = cache[e.pkg] /\ ContentOf(e.pkg, e.file)' = cache'[e.pkg]
        BY <3>4 DEF ContentOf
      <4>2. ToDir \/ e.pkg # Pkg
        BY <3>1, <3>2, <4>1
      <4>3. QED
        BY <1>3, <4>1, <4>2 DEF Store, Inv, Types, Files
    <3>5. CASE e.file \notin {"dir", "cache"}
      BY <3>5 DEF ContentOf
    <3>6. QED
      BY <3>3, <3>4, <3>5
  <2>3. QED
    BY <1>1, <2>1, <2>2 DEF Good
<1>8. CheckedInv' /\ StrictInv' /\ LeftInv'
  BY <1>1 DEF Inv, CheckedInv, Compared, StrictInv, Checked, LeftInv, NothingLeft, ToDir, Running,
              InHand, HasFile
<1>9. QED
  BY <1>1, <1>5, <1>6, <1>7, <1>8 DEF Inv, IdleInv, SummedIsGood

-----------------------------------------------------------------------------
(***************************************************************************)
(* The elements of the transaction.                                        *)
(***************************************************************************)
\* what was established of the package in hand holds of the new element
LEMMA AcceptInv == Inv /\ Accept => Inv'
<1> SUFFICES ASSUME Inv, Accept PROVE Inv'
  OBVIOUS
<1> DEFINE e == [op |-> Head(todo).op, pkg |-> Pkg, file |-> file]
<1>1. /\ pc = "accept" /\ pc' = "add" /\ ring' = ring /\ file' = "none"
      /\ todo' = Tail(todo) /\ note' = [note EXCEPT !.accepted = note.accepted \cup {Pkg}]
      /\ elems' = IF Pkg \in Sources THEN elems ELSE Append(elems, e)
      /\ lax' = (lax \/ opt.nogpgcheck \/ RepoOf[Pkg] \notin conf.gpgcheck)
      /\ UNCHANGED <<conf, cache, dir, installed, opt>>
  BY DEF Accept, Goto
<1>2. todo \in Seq(Trans) /\ todo # <<>> /\ Head(todo) \in Trans /\ Pkg \in Pkgs
  BY <1>1, PkgType DEF Inv, Types, HandInv, InHand, HasFile, Compared
<1>3. elems \in Seq(Element) /\ e \in Element
  BY <1>2 DEF Inv, Types, Element, Trans
<1>4. cached' \in Seq(Pkgs) /\ Members(cached) \subseteq Members(cached')
      /\ (file = "cache" => Pkg \in Members(cached'))
  BY <1>2, ListedMembers DEF Accept, Inv, Types
<1>5. elems' \in Seq(Element) /\ Members(elems') \subseteq Members(elems) \cup {e}
  <2> HIDE DEF e
  <2> QED
    BY <1>1, <1>3, AppendMembers
<1>6. todo' \in Seq(Trans) /\ Members(todo') \subseteq Members(todo) /\ Head(todo) \in Members(todo)
  BY <1>1, <1>2, HeadTail
<1>7. /\ note' \in [strict : BOOLEAN, accepted : SUBSET Pkgs]
      /\ note'.strict = note.strict /\ note'.accepted = note.accepted \cup {Pkg}
  BY <1>1, <1>2 DEF Inv, Types
<1>8. Types'
  <2>1. lax' \in BOOLEAN
    BY <1>1 DEF Inv, Types
  <2>2. QED
    BY <1>1, <1>4, <1>5, <1>6, <1>7, <2>1 DEF Inv, Types, Running
<1>9. HandInv' /\ CheckedInv' /\ IdleInv'
  BY <1>1 DEF HandInv, CheckedInv, IdleInv, InHand, HasFile, Compared
<1>10. ElemInv'
  <2> SUFFICES ASSUME NEW d \in Members(elems'), d.op # "erase" PROVE Good(d)'
    BY DEF ElemInv
  <2>1. ContentOf(d.pkg, d.file)' = ContentOf(d.pkg, d.file)
    BY <1>1 DEF ContentOf
  <2>2. CASE d \in Members(elems)
    <3>1. Good(d)
      BY <1>1, <2>2 DEF Inv, ElemInv, Running, InHand, HasFile, Compared
    <3>2. QED
      BY <1>1, <2>1, <3>1 DEF Good
  <2>3. CASE d = e
    <3>1. d.pkg = Pkg /\ d.file = file
      BY <2>3
    <3>2. Matches(Pkg) /\ \/ lax
                          \/ /\ ContentOf(Pkg, file) = "good"
                             /\ KeyOf[Pkg] \in ring \/ ~SignatureCheck(RepoOf[Pkg])
      BY <1>1 DEF Inv, CheckedInv, Compared
    <3>3. ~SignatureCheck(RepoOf[Pkg]) => lax' \/ opt.skipsignature
      BY <1>1 DEF SignatureCheck
    <3>4. lax => lax'
      BY <1>1
    <3> HIDE DEF e
    <3>5. QED
      BY <1>1, <2>1, <3>1, <3>2, <3>3, <3>4 DEF Good, Matches
  <2>4. QED
    BY <1>5, <2>2, <2>3
<1>11. StrictInv'
  <2> SUFFICES ASSUME note.strict
               PROVE  ~lax' /\ Checked(opt) /\ \A t \in Members(todo') : RepoOf[t.pkg] \in conf.gpgcheck
    BY <1>1, <1>7 DEF StrictInv, Checked
  <2>1. ~lax /\ Checked(opt) /\ \A t \in Members(todo) : RepoOf[t.pkg] \in conf.gpgcheck
    BY <1>1 DEF Inv, StrictInv, Running, InHand, HasFile, Compared
  <2>2. QED
    BY <1>1, <1>6, <2>1 DEF Checked, Pkg
<1>12. LeftInv'
  <2>1. \/ ToDir \/ RepoOf[Pkg] \in conf.local \/ file = "cache"
    BY <1>1 DEF Inv, HandInv, HasFile, Compared
  <2>2. \A p \in note.accepted : RepoOf[p] \in conf.local \/ ToDir \/ p \in Members(cached)
    BY <1>1 DEF Inv, LeftInv, Running, InHand, HasFile, Compared
  <2>3. QED
    BY <1>1, <1>4, <1>7, <2>1, <2>2 DEF LeftInv, NothingLeft, ToDir
<1>13. QED
  BY <1>1, <1>8, <1>9, <1>10, <1>11, <1>12 DEF Inv, SummedIsGood

LEMMA AddEraseInv == Inv /\ AddErase => Inv'
<1> SUFFICES ASSUME Inv, AddErase PROVE Inv'
  OBVIOUS
<1> DEFINE e == [op |-> "erase", pkg |-> Pkg, file |-> "none"]
<1>1. /\ pc = "add" /\ pc' = "add" /\ todo # <<>> /\ todo' = Tail(todo) /\ note' = note
      /\ elems' = IF installed[Pkg] = Absent THEN elems ELSE Append(elems, e)
      /\ UNCHANGED <<conf, cache, dir, ring, installed, opt, cached, file, lax>>
  BY DEF AddErase, disk
<1>2. todo \in Seq(Trans) /\ Pkg \in Pkgs /\ elems \in Seq(Element)
  BY <1>1, PkgType DEF Inv, Types
<1>3. e \in Element /\ e.op = "erase"
  BY <1>2 DEF Element, Ops
<1> HIDE DEF e
<1>4. elems' \in Seq(Element) /\ Members(elems') \subseteq Members(elems) \cup {e}
  BY <1>1, <1>2, <1>3, AppendMembers
<1>5. todo' \in Seq(Trans) /\ Members(todo') \subseteq Members(todo)
  BY <1>1, <1>2, HeadTail
<1>6. Types'
  BY <1>1, <1>4, <1>5 DEF Inv, Types
<1>7. ElemInv'
  BY <1>1, <1>3, <1>4 DEF Inv, ElemInv, Good, ContentOf
<1>8. HandInv' /\ CheckedInv' /\ IdleInv'
  BY <1>1 DEF HandInv, CheckedInv, IdleInv, InHand, HasFile, Compared
<1>9. StrictInv' /\ LeftInv'
  BY <1>1, <1>5 DEF Inv, StrictInv, Checked, LeftInv, NothingLeft, ToDir, Running
<1>10. QED
  BY <1>1, <1>6, <1>7, <1>8, <1>9 DEF Inv, SummedIsGood

-----------------------------------------------------------------------------
(***************************************************************************)
(* rpm tests and runs the transaction.                                     *)
(***************************************************************************)
LEMMA TestInv == Inv /\ (Populate \/ Test) => Inv'
<1> SUFFICES ASSUME Inv, Populate \/ Test PROVE Inv'
  OBVIOUS
<1>1. /\ pc \in {"add", "test"} /\ pc' \in {"test", "run", "cleanup"} /\ note' = note /\ ring' = ring
      /\ UNCHANGED <<conf, cache, dir, installed, opt, todo, elems, cached, file, lax>>
  BY DEF Populate, Test, Goto, disk, locals
<1>2. CASE pc' = "cleanup"
  BY <1>1, <1>2, AbortInv DEF Running
<1>3. CASE pc' # "cleanup"
  BY <1>1, <1>3, GoOnInv DEF Running, InHand, HasFile, Compared
<1>4. QED
  BY <1>2, <1>3

\* an element of a package with a checksum is what was published
LEMMA RunInv == Inv /\ (Run \/ ElementFails) => Inv'
<1> SUFFICES ASSUME Inv, Run \/ ElementFails PROVE Inv'
  OBVIOUS
<1> DEFINE e == Head(elems)
           content == IF e.op = "erase" THEN Absent ELSE ContentOf(e.pkg, e.file)
<1>1. /\ pc = "run" /\ pc' = "run" /\ elems # <<>> /\ elems' = Tail(elems) /\ note' = note
      /\ UNCHANGED <<conf, cache, dir, ring, opt, todo, cached, file, lax>>
      /\ installed' \in {installed, [installed EXCEPT ![e.pkg] = content]}
  BY DEF Run, ElementFails, disk
<1>2. elems \in Seq(Element) /\ elems' \in Seq(Element) /\ Members(elems') \subseteq Members(elems)
      /\ e \in Members(elems) /\ e \in Element
  BY <1>1, HeadTail DEF Inv, Types
<1>3. e.op # "erase" => Good(e)
  BY <1>1, <1>2 DEF Inv, ElemInv, Running
<1>4. content \in Content \cup {Absent} /\ (e.pkg \in Summed => content \in {"good", Absent})
  BY <1>3 DEF Good, Content
<1> HIDE DEF e, content
<1>5. installed' \in Files /\ SummedIsGood'
  BY <1>1, <1>4 DEF Inv, Types, Files, SummedIsGood
<1>6. Types'
  BY <1>1, <1>2, <1>5 DEF Inv, Types
<1>7. ElemInv'
  BY <1>1, <1>2 DEF Inv, ElemInv, Good, ContentOf
<1>8. HandInv' /\ CheckedInv' /\ IdleInv'
  BY <1>1 DEF HandInv, CheckedInv, IdleInv, InHand, HasFile, Compared
<1>9. StrictInv' /\ LeftInv'
  BY <1>1 DEF Inv, StrictInv, Checked, LeftInv, NothingLeft, ToDir, Running
<1>10. QED
  BY <1>5, <1>6, <1>7, <1>8, <1>9 DEF Inv

LEMMA RanInv == Inv /\ Ran => Inv'
<1> SUFFICES ASSUME Inv, Ran PROVE Inv'
  OBVIOUS
<1>1. /\ pc = "run" /\ pc' = "cleanup" /\ note' = note
      /\ UNCHANGED <<conf, cache, dir, installed, opt, todo, elems, cached, file, lax>>
  BY DEF Ran, Goto, disk, locals
<1>2. QED
  BY <1>1, AbortInv DEF Running

-----------------------------------------------------------------------------
(***************************************************************************)
(* The end of a command, and the next one.                                 *)
(***************************************************************************)
LEMMA RemoveInv == Inv /\ (RemoveCached \/ RemoveCachedFails) => Inv'
<1> SUFFICES ASSUME Inv, RemoveCached \/ RemoveCachedFails PROVE Inv'
  OBVIOUS
<1>1. /\ pc = "cleanup" /\ pc' = "cleanup" /\ cached # <<>>
      /\ UNCHANGED <<conf, dir, installed, opt, todo, elems, file, lax>>
  BY DEF RemoveCached, RemoveCachedFails, disk
<1>2. /\ cached \in Seq(Pkgs) /\ Head(cached) \in Pkgs /\ Tail(cached) \in Seq(Pkgs)
      /\ Members(cached) \subseteq {Head(cached)} \cup Members(Tail(cached))
  BY <1>1, HeadTail DEF Inv, Types
<1>3. Types' /\ LeftInv'
  <2>1. CASE RemoveCached
    <3>1. /\ cache' = [cache EXCEPT ![Head(cached)] = Absent] /\ cached' = Tail(cached)
          /\ note' = note
      BY <2>1 DEF RemoveCached
    <3>2. /\ cache' \in Files /\ cache'[Head(cached)] = Absent
          /\ \A p \in Pkgs : cache[p] = Absent => cache'[p] = Absent
      BY <1>2, <3>1 DEF Inv, Types, Files
    <3>3. Types'
      BY <1>1, <1>2, <3>1, <3>2 DEF Inv, Types
    <3>4. \A p \in note.accepted : \/ RepoOf[p] \in conf.local \/ ToDir \/ p \in Members(cached')
                                   \/ cache'[p] = Absent
      <4>1. note.accepted \subseteq Pkgs
        BY DEF Inv, Types
      <4>2. QED
        BY <1>1, <1>2, <3>1, <3>2, <4>1 DEF Inv, LeftInv
    <3>5. QED
      BY <1>1, <3>1, <3>3, <3>4 DEF LeftInv, NothingLeft, ToDir
  <2>2. CASE RemoveCachedFails
    <3>1. cache' = cache /\ cached' = <<>> /\ note' = [note EXCEPT !.accepted = {}]
      BY <2>2 DEF RemoveCachedFails, disk
    <3>2. note' \in [strict : BOOLEAN, accepted : SUBSET Pkgs] /\ note'.accepted = {}
      BY <3>1 DEF Inv, Types
    <3>3. QED
      BY <1>1, <3>1, <3>2 DEF Inv, Types, LeftInv, NothingLeft
  <2>3. QED
    BY <2>1, <2>2
<1>4. QED
  BY <1>1, <1>3 DEF Inv, HandInv, CheckedInv, ElemInv, StrictInv, IdleInv, SummedIsGood, Running,
                    InHand, HasFile, Compared

LEMMA EndInv == Inv /\ (End \/ Crash) => Inv'
<1> SUFFICES ASSUME Inv, End \/ Crash PROVE Inv'
  OBVIOUS
<1>1. /\ pc' = "ended" /\ elems' = <<>> /\ cached' = <<>> /\ ~lax' /\ lax' = FALSE
      /\ todo' = <<>> /\ file' = "none"
      /\ UNCHANGED <<conf, cache, dir, installed, opt>>
  BY DEF End, Crash, Forget, Goto, disk
<1>2. note' \in [strict : BOOLEAN, accepted : SUBSET Pkgs] /\ (Crash => note'.accepted = {})
  <2>1. note' = note \/ note' = [note EXCEPT !.accepted = {}]
    BY DEF End, Crash
  <2>2. Crash => note' = [note EXCEPT !.accepted = {}]
    BY DEF Crash
  <2>3. QED
    BY <2>1, <2>2 DEF Inv, Types
<1>3. Types'
  <2>1. todo' \in Seq(Trans) /\ elems' \in Seq(Element) /\ cached' \in Seq(Pkgs)
    BY <1>1
  <2>2. QED
    BY <1>1, <1>2, <2>1 DEF Inv, Types
<1>4. NothingLeft'
  <2>1. CASE End
    <3>1. note' = note /\ pc = "cleanup" /\ (Keeps \/ cached = <<>>)
      BY <2>1 DEF End
    <3>2. ASSUME ~Keeps
          PROVE  \A p \in note.accepted : RepoOf[p] \in conf.local \/ cache[p] = Absent
      BY <3>1, <3>2, Empty DEF Inv, LeftInv, Keeps, ToDir
    <3>3. QED
      BY <1>1, <3>1, <3>2 DEF NothingLeft, Keeps
  <2>2. CASE Crash
    BY <1>2, <2>2 DEF NothingLeft
  <2>3. QED
    BY <2>1, <2>2
<1>5. QED
  BY <1>1, <1>3, <1>4 DEF Inv, HandInv, CheckedInv, ElemInv, StrictInv, LeftInv, IdleInv,
                          SummedIsGood, Running, InHand, HasFile, Compared

LEMMA ExitInv == Inv /\ Exit => Inv'
<1> SUFFICES ASSUME Inv, Exit PROVE Inv'
  OBVIOUS
<1>1. /\ pc = "ended" /\ pc' = "idle" /\ note' = NoNote
      /\ UNCHANGED <<conf, cache, dir, installed, todo, elems, cached, file, lax>>
  BY DEF Exit, Goto, disk
<1>2. Types'
  BY <1>1 DEF Inv, Types, NoNote
<1>3. QED
  BY <1>1, <1>2 DEF Inv, HandInv, CheckedInv, ElemInv, StrictInv, LeftInv, NothingLeft, IdleInv,
                    SummedIsGood, Running, InHand, HasFile, Compared

\* the jobs of the command in their order; it is strict if all their repositories are
LEMMA BeginInv == Inv /\ Begin => Inv'
<1> SUFFICES ASSUME Inv, Begin PROVE Inv'
  OBVIOUS
<1>1. /\ pc = "idle" /\ pc' = "add"
      /\ UNCHANGED <<conf, cache, dir, installed, elems, cached, file, lax>>
  BY DEF Begin, Goto, disk
<1>2. elems = <<>> /\ cached = <<>> /\ ~lax
  BY <1>1 DEF Inv, IdleInv
<1>a. PICK job \in Jobs :
        /\ \E f \in Populated(job) : todo' = [i \in 1..Len(job) |-> job[f[i]]]
        /\ note' = [strict |-> Checked(opt') /\ \A i \in 1..Len(job) :
                                    RepoOf[job[i].pkg] \in conf.gpgcheck,
                    accepted |-> {}]
  BY Zenon DEF Begin
<1>3. PICK f \in Populated(job) : todo' = [i \in 1..Len(job) |-> job[f[i]]]
  BY <1>a
<1>4. job \in Seq(Trans) /\ f \in [1..Len(job) -> 1..Len(job)]
  BY <1>3 DEF Populated, Trans
<1>5. todo' \in Seq(Trans) /\ \A t \in Members(todo') : \E i \in 1..Len(job) : t = job[i]
  <2>1. \A i \in 1..Len(job) : f[i] \in 1..Len(job) /\ job[f[i]] \in Trans
    BY <1>4
  <2>2. Len(job) \in Nat /\ todo' \in [1..Len(job) -> Trans]
    BY <1>3, <1>4, <2>1
  <2>3. todo' \in Seq(Trans) /\ Len(todo') = Len(job)
    BY <2>2
  <2>4. QED
    BY <1>3, <2>1, <2>3 DEF Members
<1>6. note' \in [strict : BOOLEAN, accepted : SUBSET Pkgs] /\ note'.accepted = {}
  BY <1>a DEF Checked
<1>7. Types'
  BY <1>1, <1>5, <1>6 DEF Inv, Types, Running
<1>8. StrictInv'
  <2> SUFFICES ASSUME note'.strict
               PROVE  Checked(opt') /\ \A t \in Members(todo') : RepoOf[t.pkg] \in conf.gpgcheck
    BY <1>1, <1>2 DEF StrictInv, Checked
  <2>1. Checked(opt') /\ \A i \in 1..Len(job) : RepoOf[job[i].pkg] \in conf.gpgcheck
    BY <1>a
  <2>2. QED
    BY <1>5, <2>1
<1>9. ElemInv' /\ LeftInv'
  BY <1>1, <1>2, <1>6, Empty DEF ElemInv, LeftInv, NothingLeft
<1>10. QED
  BY <1>1, <1>7, <1>8, <1>9 DEF Inv, HandInv, CheckedInv, IdleInv, SummedIsGood, InHand, HasFile,
                                Compared

-----------------------------------------------------------------------------
(***************************************************************************)
(* The theorems.                                                           *)
(***************************************************************************)
LEMMA StutterInv == Inv /\ UNCHANGED vars => Inv'
BY DEF vars, disk, locals, Inv, Types, HandInv, CheckedInv, ElemInv, StrictInv, LeftInv, IdleInv,
       SummedIsGood, NothingLeft, Keeps, Good, Matches, ContentOf, Checked, ToDir, Source, Pkg,
       SignatureCheck

\* What the checks of TDNFTransAddInstallPkg establish lasts until rpm has run: the inductive
\* invariant (TDNFRpmExecTransaction).
THEOREM Invariant == Spec => []Inv
<1>1. Init => Inv
  BY InitInv
<1>2. Inv /\ [Next]_vars => Inv'
  BY BeginInv, LocateInv, DownloadInv, FailureInv, HandSteps, ReadInv, AcceptInv, AddEraseInv,
     TestInv, RunInv, RanInv, RemoveInv, EndInv, ExitInv, StutterInv DEF Next, Step
<1>3. QED
  BY <1>1, <1>2, PTL DEF Spec

\* Where every repository has gpgcheck and no option lifts it, rpm runs only with packages that
\* are unharmed and signed with a key it has (TDNFGPGCheckPackage).
THEOREM StrictIsVerifiedAlways == Spec => []StrictIsVerified
<1>1. Inv => StrictIsVerified
  <2> SUFFICES ASSUME Inv, pc = "run", note.strict, NEW i \in 1..Len(elems), elems[i].op # "erase"
               PROVE  /\ ContentOf(elems[i].pkg, elems[i].file) = "good"
                      /\ KeyOf[elems[i].pkg] \in ring
    BY DEF StrictIsVerified
  <2>1. Good(elems[i])
    BY DEF Inv, ElemInv, Running, Members
  <2>2. ~lax /\ Checked(opt)
    BY DEF Inv, StrictInv, Running
  <2>3. QED
    BY <2>1, <2>2 DEF Good, Checked
<1>2. QED
  BY <1>1, Invariant, PTL

\* A package with a checksum in its metadata is installed as it was published, whatever else is
\* switched off (TDNFTransAddInstallPkg).
THEOREM SummedIsGoodAlways == Spec => []SummedIsGood
<1>1. Inv => SummedIsGood
  BY DEF Inv
<1>2. QED
  BY <1>1, Invariant, PTL

\* rpm does not refuse in its test what was accepted when the packages were added
\* (TDNFRunTransaction).
THEOREM TestAgreesAlways == Spec => []TestAgrees
<1>1. Inv => TestAgrees
  <2> SUFFICES ASSUME Inv, pc = "test", NEW i \in 1..Len(elems) PROVE Verifies(elems[i])
    BY DEF TestAgrees
  <2>1. elems[i].op = "erase" \/ Good(elems[i])
    BY DEF Inv, ElemInv, Running, Members
  <2>2. QED
    BY <2>1 DEF Good, Verifies
<1>2. QED
  BY <1>1, Invariant, PTL

\* Without keepcache a command that ends leaves none of its packages in the cache
\* (TDNFRpmCleanupTS).
THEOREM NothingLeftAlways == Spec => []NothingLeft
<1>1. Inv => NothingLeft
  BY DEF Inv, LeftInv
<1>2. QED
  BY <1>1, Invariant, PTL
=============================================================================
