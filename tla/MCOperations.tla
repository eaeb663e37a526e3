---------------------------- MODULE MCOperations ----------------------------
(***************************************************************************)
(* The operations side of the bridge: components that share no state, each *)
(* in a lane of its own, so that their state spaces add up.                *)
(***************************************************************************)
EXTENDS ResourceLocks, GovernedTools, SecretRotation, StateBackup, FinalAcceptance,
        Migrations, ManifestSigning, TLC

CONSTANTS pl1, g1, g2, sg1, sg2, ck, r1, r2, f1, ka, kb, kx, ky, kz, id1, id2

VARIABLE lane

Governed == {"hermes_lock_acquire", "hermes_lock_release", "hermes_saga_start",
    "hermes_saga_compensate", "hermes_checkpoint_create", "hermes_execute_approved_plan"}
MCTool == Governed \cup {"hermes_submit", "other"}
Doc(r, m, d, a, u) == [readOnly |-> r, mutating |-> m, deny |-> d, approve |-> a, unknown |-> u]
MCBuiltin == Doc({"hermes_submit"}, Governed, {}, {}, "DENY")
Opened == Doc(Governed, {"hermes_submit"}, {}, {}, "REQUIRE_APPROVAL")
MCDocs == {Opened, Doc(Governed, {"hermes_submit"}, Governed, {"other"}, "ALLOW"),
           Doc({"other"}, {"other"}, {}, {}, "DENY"), Doc({}, {}, {}, {}, "ALLOW")}
MCGrantPlan == (g1 :> pl1) @@ (g2 :> NoPlan)
MCSagaSteps == (sg1 :> <<"completed">>) @@ (sg2 :> <<"completed", "pending">>)
MCKeyOfRotation == (r1 :> ka) @@ (r2 :> kb)
MCFiles == [r \in {r1, r2} |-> {f1}]

\* What the shadow agent may do with a prompt: the one call, no call, a second
\* or a foreign one, rows of other calls beside its own, a wrong envelope.
Call(tool, id) == [tool |-> tool, args |-> "x", id |-> id]
Row(id, name, value, mine) ==
    [id |-> id, name |-> name, envelope |-> "github_get_pr", value |-> value, mine |-> mine]
Told(value, calls, results) ==
    [form |-> "object", value |-> value,
     session |-> [calls |-> calls, results |-> results, usage |-> TRUE]]
One == <<Call("github_get_pr", "t1")>>
Good == Told("now", One, <<Row("t1", "github_get_pr", "now", TRUE)>>)
MCAnswer == {Good,
    [Good EXCEPT !.form = "prose"],
    [Good EXCEPT !.session.usage = FALSE],
    Told("now", << >>, << >>),
    Told("now", One \o <<Call("github_get_pr", "t2")>>,
         <<Row("t1", "github_get_pr", "v9", TRUE), Row("t2", "github_get_pr", "now", TRUE)>>),
    Told("now", One \o <<Call("terminal", "t2")>>, <<Row("t1", "github_get_pr", "now", TRUE)>>),
    Told("now", One, <<Row("t0", "github_get_pr", "now", FALSE), Row("t1", "github_get_pr", "v9", TRUE)>>),
    Told("now", <<Call("github_get_pr", "none")>>,
         <<Row("none", "github_search", "now", FALSE), Row("none", "github_get_pr", "now", TRUE)>>),
    Told("now", One, <<[Row("t1", "github_get_pr", "now", TRUE) EXCEPT !.envelope = "github_search"]>>)}
MCSamplePlan == <<[tool |-> "github_get_pr", args |-> "x"]>>

MCScript == <<1, 2, 1>>

\* Without a previous key, in its window, with a window that is too long, without
\* its key id, with a date that does not parse, and relaxed.
SigningSetting(strict, from, until, previousId) ==
    [strict |-> strict, from |-> from, until |-> until, currentId |-> id1, previousId |-> previousId]
MCSigningSettings ==
    {SigningSetting(TRUE, NotSet, NotSet, NotSet), SigningSetting(TRUE, 0, 1, id2),
     SigningSetting(TRUE, 0, 2, id2), SigningSetting(TRUE, 0, 1, NotSet),
     SigningSetting(TRUE, Malformed, 1, id2), SigningSetting(FALSE, NotSet, NotSet, NotSet)}

Init ==
    /\ lane \in {"policy", "locks", "plans", "stores", "rotation", "backup", "accept", "migrations",
                "signing"}
    /\ PolicyInit /\ LocksInit /\ ToolsInit /\ RotationInit /\ BackupInit
    /\ AcceptanceInit /\ MigrationsInit /\ SigningInit
    /\ keyFile["current"] = kx /\ keyFile["previous"] \in {NoMaterial, ky}
    /\ lane # "signing" => keyFile["previous"] = ky /\ ~setting.strict
    /\ lane # "policy" =>
        inline = (IF lane = "plans" THEN NoDocument ELSE Opened) /\ file = NoDocument

PolicyLane == PolicyNext /\ UNCHANGED <<lock, storeVars, rotationVars, backupVars, acceptanceVars, migrationVars, signingVars>>
LocksLane == LocksNext /\ UNCHANGED <<storeVars, rotationVars, backupVars, acceptanceVars, migrationVars, signingVars>>
PlansLane == PlansNext /\ UNCHANGED <<lock, rotationVars, backupVars, acceptanceVars, migrationVars, signingVars>>
StoresLane == StoresNext /\ UNCHANGED <<lock, rotationVars, backupVars, acceptanceVars, migrationVars, signingVars>>
RotationLane == RotationNext /\ UNCHANGED <<policyVars, lock, storeVars, backupVars, acceptanceVars, migrationVars, signingVars>>
BackupLane == BackupNext /\ UNCHANGED <<policyVars, lock, storeVars, rotationVars, acceptanceVars, migrationVars, signingVars>>
AcceptanceLane ==
    AcceptanceNext /\ UNCHANGED <<policyVars, lock, storeVars, rotationVars, backupVars, migrationVars, signingVars>>
MigrationsLane ==
    MigrationsNext /\ UNCHANGED <<policyVars, lock, storeVars, rotationVars, backupVars, acceptanceVars, signingVars>>
SigningLane ==
    /\ SigningNext
    /\ UNCHANGED <<policyVars, lock, storeVars, rotationVars, backupVars, acceptanceVars, migrationVars>>

Next ==
    /\ UNCHANGED lane
    /\ \/ lane = "policy" /\ PolicyLane
       \/ lane = "locks" /\ LocksLane
       \/ lane = "plans" /\ PlansLane
       \/ lane = "stores" /\ StoresLane
       \/ lane = "rotation" /\ RotationLane
       \/ lane = "backup" /\ BackupLane
       \/ lane = "accept" /\ AcceptanceLane
       \/ lane = "migrations" /\ MigrationsLane
       \/ lane = "signing" /\ SigningLane

OperationsSpec ==
    Init /\ [][Next]_<<lane, policyVars, lock, storeVars, rotationVars, backupVars, acceptanceVars,
                      migrationVars, signingVars>>

\* Verdicts: what hermes_policy_evaluate answered is never weaker than what is
\* enforced later under the same cached policy, but for one label (policy.py); and signatures of result
\* manifests are accepted and left out only as signing.py says.
VerdictsHold ==
    PreviewNeverWeaker /\ SignaturesHold

\* The state database: locks that exclude one another are never held side by side
\* (LockRegistry), and the ledger of migrations is true of the schema
\* (apply_migrations); the stores of the lanes have their types.
StateDbHolds ==
    /\ LocksTypeOK /\ ToolsTypeOK /\ RotationTypeOK /\ BackupTypeOK /\ MigrationsTypeOK
    /\ WritersExclude /\ LedgerIsTrue
=============================================================================
