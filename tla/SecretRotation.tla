--------------------------- MODULE SecretRotation ---------------------------
(***************************************************************************)
(* Rotation of the API keys that live in env files (secret_rotation.py):   *)
(* a plan with a single-use token (_rotation_plans.py), its application    *)
(* under a file lock (_file_lock.py) that saves every file before it       *)
(* replaces any, and the rollback from those saved files.                  *)
(*                                                                         *)
(* A file holds several keys, and a rotation rewrites the whole file.  The *)
(* process may die at any step, which frees the lock and loses the tokens. *)
(***************************************************************************)
EXTENDS Integers, FiniteSets

CONSTANTS
    EnvFile, SecretKey,
    Rotation, KeyOfRotation, FilesOfRotation,
    NoRotation

ASSUME RotationAssumption ==
    /\ KeyOfRotation \in [Rotation -> SecretKey]
    /\ FilesOfRotation \in [Rotation -> SUBSET EnvFile]
    /\ NoRotation \notin Rotation /\ "absent" \notin Rotation \cup {NoRotation}

VARIABLES
    env,            \* content of each file: the rotation each key's value is from
    saved,          \* the .pre-rotation-<operation_id> files
    token,          \* _registry of _rotation_plans
    stage,          \* where apply_rotation or rollback_rotation is
    seenEnv,        \* the lines that the replace phase has read
    fileLock,       \* holder of LOCK_PATH
    busy,           \* external: /health reports active runs, or nothing
    applied         \* how often a rotation has begun to be applied

rotationVars == <<env, saved, token, stage, seenEnv, fileLock, busy, applied>>

Value == Rotation \cup {NoRotation}     \* NoRotation: the value from before
Content == [SecretKey -> Value]
NotSaved == [k \in SecretKey |-> "absent"]

RotationTypeOK ==
    /\ env \in [EnvFile -> Content]
    /\ saved \in [Rotation -> [EnvFile -> Content \cup {NotSaved}]]
    /\ token \in [Rotation -> {"none", "live", "consumed", "gone"}]
    /\ stage \in [Rotation -> {"idle", "admitted", "saving", "replacing", "restoring",
                               "done", "failed", "undoing", "undone"}]
    /\ seenEnv \in [Rotation -> [EnvFile -> Content \cup {NotSaved}]]
    /\ fileLock \in Rotation \cup {NoRotation} /\ busy \in BOOLEAN

NothingSaved == [f \in EnvFile |-> NotSaved]

RotationInit ==
    /\ env = [f \in EnvFile |-> [k \in SecretKey |-> NoRotation]]
    /\ saved = [r \in Rotation |-> NothingSaved]
    /\ token = [r \in Rotation |-> "none"]
    /\ stage = [r \in Rotation |-> "idle"]
    /\ seenEnv = [r \in Rotation |-> NothingSaved]
    /\ fileLock = NoRotation /\ busy = FALSE
    /\ applied = [r \in Rotation |-> 0]

-----------------------------------------------------------------------------

Staged(r, s) == stage' = [stage EXCEPT ![r] = s]

\* plan_rotation: refused while runs are active or health is unknown, unless
\* forced; the token is registered with a digest of the whole plan.
PlanRotation(r, force) ==
    /\ token[r] = "none" /\ (~busy \/ force)
    /\ token' = [token EXCEPT ![r] = "live"]
    /\ UNCHANGED <<env, saved, stage, seenEnv, fileLock, busy, applied>>

\* _purge_locked and _evict_locked: a record may be gone before it is used.
ForgetToken(r) ==
    /\ token[r] \in {"live", "consumed"}
    /\ token' = [token EXCEPT ![r] = "gone"]
    /\ UNCHANGED <<env, saved, stage, seenEnv, fileLock, busy, applied>>

\* verify_and_consume under the registry lock.
TokenGood(r) == token[r] = "live"
\* A verified token is not marked.
ConsumeToken_Kept(r) == UNCHANGED token

ConsumeToken(r) == token' = [token EXCEPT ![r] = "consumed"]

\* apply_rotation, first half: a consumed token stays consumed when the gateway
\* turns out to be busy.
AdmitRotation(r) ==
    /\ stage[r] \in {"idle", "failed", "done"} /\ TokenGood(r)
    /\ ConsumeToken(r)
    /\ Staged(r, IF busy THEN "failed" ELSE "admitted")
    /\ UNCHANGED <<env, saved, seenEnv, fileLock, busy, applied>>

\* The lock is taken beside another holder.
LockHeldByOther_Never(r) == FALSE

\* exclusive_file_lock without waiting.
LockHeldByOther(r) == fileLock # NoRotation

TakeFileLock(r, s) ==
    IF LockHeldByOther(r)
    THEN Staged(r, "failed") /\ UNCHANGED fileLock
    ELSE Staged(r, s) /\ fileLock' = r

BeginApply(r) ==
    /\ stage[r] = "admitted" /\ TakeFileLock(r, "saving")
    /\ applied' = [applied EXCEPT ![r] = IF stage'[r] = "saving" THEN @ + 1 ELSE @]
    /\ UNCHANGED <<env, saved, token, seenEnv, busy>>

Unsaved(r) == {f \in FilesOfRotation[r] : saved[r][f] = NotSaved}
Unreplaced(r) == {f \in FilesOfRotation[r] : env[f][KeyOfRotation[r]] # r}

\* Prepare phase of _apply_rotation_locked: a copy that is already there ends it.
SaveFile(r, f) ==
    /\ stage[r] = "saving" /\ f \in Unsaved(r)
    /\ saved' = [saved EXCEPT ![r][f] = env[f]]
    /\ Staged(r, IF Unsaved(r) = {f} THEN "replacing" ELSE "saving")
    /\ UNCHANGED <<env, token, seenEnv, fileLock, busy, applied>>

\* Replace phase: the file is read, changed at the line of the key, and replaced.
ReadFile(r, f) ==
    /\ stage[r] = "replacing" /\ f \in Unreplaced(r)
    /\ seenEnv[r][f] = NotSaved
    /\ seenEnv' = [seenEnv EXCEPT ![r][f] = env[f]]
    /\ UNCHANGED <<env, saved, token, stage, fileLock, busy, applied>>

ReplaceFile(r, f) ==
    /\ stage[r] = "replacing" /\ f \in Unreplaced(r)
    /\ seenEnv[r][f] # NotSaved
    /\ env' = [env EXCEPT ![f] = [seenEnv[r][f] EXCEPT ![KeyOfRotation[r]] = r]]
    /\ IF Unreplaced(r) = {f}
       THEN Staged(r, "done") /\ fileLock' = NoRotation
       ELSE UNCHANGED <<stage, fileLock>>
    /\ UNCHANGED <<saved, token, seenEnv, busy, applied>>

\* A write fails: what differs from its copy is put back, then the call raises.
ApplyFails(r) ==
    /\ stage[r] \in {"saving", "replacing"}
    /\ env' = [f \in EnvFile |->
            IF f \in FilesOfRotation[r] /\ saved[r][f] # NotSaved THEN saved[r][f] ELSE env[f]]
    /\ Staged(r, "failed") /\ fileLock' = NoRotation
    /\ UNCHANGED <<saved, token, seenEnv, busy, applied>>

\* rollback_rotation with the manifest that apply_rotation returned.
RollbackRotation(r) ==
    /\ stage[r] = "done" /\ fileLock = NoRotation
    /\ Staged(r, "undoing") /\ fileLock' = r
    /\ UNCHANGED <<env, saved, token, seenEnv, busy, applied>>

UndoFile(r) ==
    /\ stage[r] = "undoing"
    /\ env' = [f \in EnvFile |-> IF f \in FilesOfRotation[r] THEN saved[r][f] ELSE env[f]]
    /\ Staged(r, "undone") /\ fileLock' = NoRotation
    /\ UNCHANGED <<saved, token, seenEnv, busy, applied>>

\* The kernel frees the lock; the registry of tokens was in memory.
RotationCrash ==
    /\ stage' = [r \in Rotation |->
            IF stage[r] \in {"done", "undone", "idle"} THEN stage[r] ELSE "failed"]
    /\ fileLock' = NoRotation
    /\ token' = [r \in Rotation |-> IF token[r] = "none" THEN "none" ELSE "gone"]
    /\ UNCHANGED <<env, saved, seenEnv, busy, applied>>

GatewayChanges ==
    busy' = ~busy /\ UNCHANGED <<env, saved, token, stage, seenEnv, fileLock, applied>>

RotationStep(r) ==
    \/ \E force \in BOOLEAN : PlanRotation(r, force)
    \/ ForgetToken(r) \/ AdmitRotation(r) \/ BeginApply(r)
    \/ \E f \in FilesOfRotation[r] : SaveFile(r, f) \/ ReadFile(r, f) \/ ReplaceFile(r, f)
    \/ ApplyFails(r) \/ RollbackRotation(r) \/ UndoFile(r)

RotationNext == (\E r \in Rotation : RotationStep(r)) \/ RotationCrash \/ GatewayChanges

RotationSpec == RotationInit /\ [][RotationNext]_rotationVars

-----------------------------------------------------------------------------
(* Properties                                                              *)

\* No rotation undoes another one: a step that takes the value of one key out
\* of a file belongs to a rotation of that key or to a rollback, never to the
\* application of a rotation of another key that had read the file before.
RotationsKeepOthers ==
    [][\A f \in EnvFile, k \in SecretKey :
        env'[f][k] # env[f][k] =>
            \E r \in Rotation :
                stage[r] = "undoing" \/ (stage[r] \in {"saving", "replacing"}
                                            /\ KeyOfRotation[r] = k)]_rotationVars

\* Whatever fails and wherever the process dies, the value that a rotation took
\* out of a file is in the copy it made, and a plan is applied once.
OldValueKept ==
    \A r \in Rotation :
        /\ applied[r] <= 1
        /\ \A f \in FilesOfRotation[r] :
            env[f][KeyOfRotation[r]] = r => saved[r][f] # NotSaved
                                            /\ saved[r][f][KeyOfRotation[r]] # r
=============================================================================
