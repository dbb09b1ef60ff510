----------------------------- MODULE MCHistory -----------------------------
(***************************************************************************)
(* Small instances of History.  The packages a1 and a2 are two versions of *)
(* the name a, b1 is the only version of b, and k1 is a public key.        *)
(***************************************************************************)
EXTENDS HistoryProps, TLC

CONSTANTS a1, a2, b1, k1, a, b, k

OnlyA1      == {a1}
TwoVersions == {a1, a2}
TwoPkgs     == {a1, b1}
VersionsAndKey == {a1, a2, k1}
NoKeys      == {}
OneKey      == {k1}

OneName    == {a}
TwoNames   == {a, b}
NameAndKey == {a, k}

VersionsOf  == (a1 :> a) @@ (a2 :> a)
TwoNameOf   == (a1 :> a) @@ (b1 :> b)
VersionsAndKeyOf == (a1 :> a) @@ (a2 :> a) @@ (k1 :> k)

NoFailures == {}
Crashes    == {"crash"}
Faults     == {"sql", "rpm", "crash"}
Anything   == FailureKinds

Nowhere         == {}
BetweenCommands == {"idle"}

(* Everywhere, except between the reading of the cookie and the end of the *)
(* second pass over the rpm database.                                      *)
OutsideScans == {"idle", "open", "record", "update", "delta", "plan", "run", "mark"}

Anywhere == {"idle"} \cup Steps

(* Only between the reading of the cookie and the first pass.              *)
AfterCookie == {"count"}
=============================================================================
