---------------------------- MODULE RpmTransProps ----------------------------
(* What the transactions of RpmTrans promise. *)
EXTENDS RpmTrans

(* When every repository of a command has gpgcheck and no option lifts it, *)
(* rpm runs only with files that are the ones of the metadata and whose    *)
(* signature a key of the rpm database verifies: TDNFGPGCheckPackage comes *)
(* before the element is added, whichever key of gpgkey matches.           *)
StrictIsVerified ==
    pc = "run" /\ note.strict =>
        \A i \in 1..Len(elems) :
            elems[i].op # "erase" => /\ ContentOf(elems[i].pkg, elems[i].file) = "good"
                                     /\ KeyOf[elems[i].pkg] \in ring

(* The checksum of the metadata is compared with every file, also with one *)
(* that was in the cache or the download directory already and when        *)
(* nothing else is verified: what rpm installs is what was published.      *)
SummedIsGood == \A p \in Summed : installed[p] \in {"good", Absent}

(* What tdnf accepted while it added the packages, rpm does not refuse     *)
(* when it verifies the transaction with the level that tdnf left it.      *)
TestAgrees == pc = "test" => \A i \in 1..Len(elems) : Verifies(elems[i])

(* Without keepcache a command that came to its end leaves no file of a    *)
(* package it accepted in the cache, whether it downloaded it or found it  *)
(* there, whether the transaction succeeded or not.                        *)
NothingLeft ==
    pc = "ended" /\ ~Keeps => \A p \in note.accepted : RepoOf[p] \in conf.local \/ cache[p] = Absent
=============================================================================
