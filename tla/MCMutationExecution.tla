------------------------ MODULE MCMutationExecution ------------------------
(* Executions about one branch. Of three, two derive the same idempotency    *)
(* key, and the third, which differs in its attempt token only, is covered   *)
(* by the same approval as the first.                                        *)
EXTENDS MutationExecution, TLC

CONSTANTS k1, k2, ref1, e1, e2, e3, a1, a2, a3

MCKey == {k1, k2}
MCLockKey == {ref1}
MCLockOf == (k1 :> ref1) @@ (k2 :> ref1)
MCApproval == {a1, a2}

MCExecution == {e1, e2, e3}
MCKeyOf == (e1 :> k1) @@ (e2 :> k1) @@ (e3 :> k2)
MCApprovalOf == (e1 :> a1) @@ (e2 :> a2) @@ (e3 :> a1)
MCBinds == (a1 :> {e1, e3}) @@ (a2 :> {e2})

\* An execution of the first key and two of the second, with an approval each.
OwnApproval == {a1, a2, a3}
OwnKeyOf == (e1 :> k1) @@ (e2 :> k2) @@ (e3 :> k2)
OwnApprovalOf == (e1 :> a1) @@ (e2 :> a2) @@ (e3 :> a3)
OwnBinds == (a1 :> {e1}) @@ (a2 :> {e2}) @@ (a3 :> {e3})

\* Two executions of one key, for the runs with crashes and liveness.
PairExecution == {e1, e2}
PairKeyOf == (e1 :> k1) @@ (e2 :> k1)
PairApprovalOf == (e1 :> a1) @@ (e2 :> a2)
PairBinds == (a1 :> {e1}) @@ (a2 :> {e2})
=============================================================================
