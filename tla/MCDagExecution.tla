--------------------------- MODULE MCDagExecution ---------------------------
(* Two plans. In the fork, a and b change one repository side by side and c  *)
(* uses the result of a; in the chain, b builds on what a did, with c beside *)
(* them.                                                                     *)
EXTENDS DagExecution, TLC

CONSTANTS e1, e2, a, b, c, repo

MCNode == {a, b, c}
MCOrder == <<a, b, c>>

ForkRanked == <<a, b, c>>
ForkDependsOn == (a :> {}) @@ (b :> {}) @@ (c :> {a})
ForkBindsTo == ForkDependsOn

ChainRanked == <<a, c, b>>
ChainDependsOn == (a :> {}) @@ (b :> {a}) @@ (c :> {})
ChainBindsTo == [n \in MCNode |-> {}]

MCResourceOf == [n \in MCNode |-> IF n = c THEN NoResource ELSE repo]

Letters == [n \in MCNode |-> IF n = b THEN "dead_letter" ELSE "isolate_branch"]
Mixed == [n \in MCNode |-> IF n = b THEN "abort_plan" ELSE "isolate_branch"]
=============================================================================
