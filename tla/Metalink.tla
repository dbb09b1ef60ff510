------------------------------ MODULE Metalink -------------------------------
(***************************************************************************)
(* What the metalink plugin makes of a metalink file: the order in which   *)
(* it tries the mirrors (plugins/metalink/list.c) and the check of a       *)
(* downloaded repomd.xml (plugins/metalink/utils.c).                       *)
(*                                                                         *)
(* A hash is [type, valid, of]: its place among the supported types or     *)
(* Unsupported, whether its value is a digest of the right length, and the *)
(* version whose repomd.xml has it.  A mirror is [mirror, preference].     *)
(***************************************************************************)
EXTENDS Integers, Sequences

Unsupported == -1

-----------------------------------------------------------------------------
(***************************************************************************)
(* The best type the file has, and the entries that are compared.  The     *)
(* loop leaves at the first match; without one its result is that of the   *)
(* entry it looked at last, and an entry that is not compared has the      *)
(* result of TDNFGetResourceType, no error.                                *)
(***************************************************************************)
Types(hashes) == {hashes[i].type : i \in DOMAIN hashes} \cup {Unsupported}
BestType(hashes) == CHOOSE t \in Types(hashes) : \A u \in Types(hashes) : u <= t

Compared(hashes) ==
    {i \in DOMAIN hashes : hashes[i].type = BestType(hashes) /\ hashes[i].valid}

HashError_NoCompare(hashes, md) ==    \* mutated: that a digest is there is enough
    IF BestType(hashes) = Unsupported THEN "INVALID_REPO_FILE" ELSE "none"
HashError(hashes, md) ==
    IF BestType(hashes) = Unsupported THEN "INVALID_REPO_FILE"
    ELSE IF \E i \in Compared(hashes) : hashes[i].of = md THEN "none"
    ELSE IF Len(hashes) \in Compared(hashes) THEN "CHECKSUM_VALIDATION_FAILED"
    ELSE "none"

-----------------------------------------------------------------------------
(***************************************************************************)
(* The mirrors in descending order of preference: a merge sort of the      *)
(* list, whose front half has the extra element.                           *)
(***************************************************************************)
SortOnPreference(urls) ==
    LET U == {urls[i] : i \in DOMAIN urls}
        merge[p \in Seq(U) \X Seq(U)] ==
          LET a == p[1]
              b == p[2]
          IN  IF a = <<>> THEN b
              ELSE IF b = <<>> THEN a
              ELSE IF Head(a).preference >= Head(b).preference
              THEN <<Head(a)>> \o merge[<<Tail(a), b>>]
              ELSE <<Head(b)>> \o merge[<<a, Tail(b)>>]
        sort[s \in Seq(U)] ==
          LET half == (Len(s) + 1) \div 2
          IN  IF Len(s) < 2 THEN s
              ELSE merge[<<sort[SubSeq(s, 1, half)], sort[SubSeq(s, half + 1, Len(s))]>>]
    IN  sort[urls]

BaseUrls(urls) ==
    LET sorted == SortOnPreference(urls)
    IN  [i \in DOMAIN sorted |-> sorted[i].mirror]
=============================================================================
