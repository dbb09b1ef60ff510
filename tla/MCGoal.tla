------------------------------- MODULE MCGoal -------------------------------
(***************************************************************************)
(* A kernel of three versions (installonly, one at a time), a library of   *)
(* two, a leaf that needs it, a protected package that another one         *)
(* obsoletes, and a locked package that nothing needs any more.            *)
(***************************************************************************)
EXTENDS GoalProps, QueryProps

MCIds == {"kernel1", "kernel2", "kernel3", "lib1", "lib2", "leaf1", "base1", "other1", "pin1",
          "pin2"}
MCName == [kernel1 |-> "kernel", kernel2 |-> "kernel", kernel3 |-> "kernel", lib1 |-> "lib",
           lib2 |-> "lib", leaf1 |-> "leaf", base1 |-> "base", other1 |-> "other",
           pin1 |-> "pin", pin2 |-> "pin"]
MCVersion ==
    [p \in MCIds |-> IF p \in {"kernel2", "lib2", "pin2"} THEN 2 ELSE IF p = "kernel3" THEN 3 ELSE 1]
MCRequires == [p \in MCIds |-> IF p = "leaf1" THEN {"lib"} ELSE {}]
MCObsoletes == [p \in MCIds |-> IF p = "other1" THEN {"base"} ELSE {}]
MCAvailable == MCIds \ {"kernel1", "base1", "pin1"}
MCFirstInstalled == {"kernel1", "lib1", "leaf1", "base1", "pin1"}
MCFirstAuto == {"lib"}
MCMinVersion ==
    [n \in {"kernel", "lib", "leaf", "base", "other", "pin"} |-> IF n = "lib" THEN 2 ELSE 0]
Any(n) == [name |-> n, version |-> 0]
MCSpecs == {Any("kernel"), [name |-> "kernel", version |-> 2], [name |-> "kernel", version |-> 3],
            Any("lib"), Any("leaf"), Any("base"), Any("pin"), [name |-> "lib", version |-> 3]}
MCAskedSpecs == {[name |-> "lib", version |-> 1], Any("leaf")}
Plain == [erasing |-> FALSE, excludes |-> {}, skip |-> FALSE, noauto |-> FALSE, history |-> TRUE]
MCOptions == {Plain, [Plain EXCEPT !.excludes = {"lib"}, !.history = FALSE],
              [Plain EXCEPT !.skip = TRUE, !.erasing = TRUE]}
NoFilter == [security |-> FALSE, severity |-> 0, reboot |-> FALSE]
MCFilters == {[NoFilter EXCEPT !.security = TRUE], [NoFilter EXCEPT !.severity = 5],
              [NoFilter EXCEPT !.reboot = TRUE]}
MCAdvisories ==
    {[kind |-> "security", severity |-> 5, reboot |-> FALSE, packages |-> {"leaf1", "lib2"}],
     [kind |-> "security", severity |-> 4, reboot |-> TRUE, packages |-> {"kernel3"}],
     [kind |-> "bugfix", severity |-> 0, reboot |-> TRUE, packages |-> {"kernel2", "other1"}],
     [kind |-> "enhancement", severity |-> 9, reboot |-> FALSE, packages |-> {"lib2", "pin2"}]}
=============================================================================
