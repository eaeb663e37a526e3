---------------------------- MODULE MutationCall ----------------------------
(***************************************************************************)
(* Calls of GitHubMutationExecutor.execute (v2/github_mutations.py) against *)
(* a repository that other people work on: what the caller asked for, what *)
(* was approved, what goes over the wire and what becomes of it.  The      *)
(* sections between two awaits are one step each.  Expiry of leases and    *)
(* approvals, and crashes, are in MutationExecution.                       *)
(***************************************************************************)
EXTENDS MutationRegistry, Sequences

CONSTANTS
    Caller,         \* calls of execute
    Asked,          \* [id, args, principal, token, grant] of each
    Grants,         \* operation and principal each approval was issued for
    NoCommit,       \* a branch that is not there
    InitialRefs,    \* how the branches of the repository may be at first
    MaxMoves        \* bound: steps of other people

ASSUME MovesAssumption == MaxMoves \in Nat
ASSUME NoCommitAssumption == NoCommit \notin CommitId
ASSUME InitialAssumption == InitialRefs \subseteq [RefName -> CommitId \cup {NoCommit}]

VARIABLES
    execution,  \* [at, op, write, status, number, evidence] of each call, what the
                \* GET of its object showed, and how many moves of others were before it
    consumed,   \* approvals that were consumed
    kept,       \* outcomes in the idempotency store, by key
    refs,       \* GitHub: commit of each branch
    pulls,      \* GitHub: pull requests, by number
    moves

executionVars == <<execution, consumed, kept, refs, pulls, moves>>

NewCall == [at |-> "new", op |-> NoOperation, write |-> "none", status |-> 0,
            number |-> 0, evidence |-> "none", seen |-> "NOT_ATTEMPTED", seenAt |-> 0]

CallEnded == {"committed", "replayed", "in_progress", "denied", "indeterminate", "cancelled"}

CallTypeOK ==
    /\ \A c \in Caller :
        /\ execution[c].at \in {"new", "revalidating", "awaiting", "reading_back", "read"} \cup CallEnded
        /\ execution[c].write \in {"none", "sent", "applied", "refused"}
    /\ consumed \subseteq DOMAIN Grants
    /\ \A k \in DOMAIN kept : kept[k] \in {"PENDING", "COMMITTED", "FAILED_CLEAN", "AMBIGUOUS"}
    /\ refs \in [RefName -> CommitId \cup {NoCommit}]
    /\ moves \in 0 .. MaxMoves

CallInit ==
    /\ execution = [c \in Caller |-> NewCall]
    /\ consumed = {} /\ kept = [k \in {} |-> "PENDING"]
    /\ refs \in InitialRefs
    /\ pulls = << >> /\ moves = 0

CallGoes(c, changes) == execution' = [execution EXCEPT ![c] = With(@, changes)]
CallKey(c) == IdempotencyKey(Asked[c].principal, execution[c].op, Asked[c].token)
SetKept(k, outcome) == kept' = [j \in DOMAIN kept \cup {k} |-> IF j = k THEN outcome ELSE kept[j]]

-----------------------------------------------------------------------------
(* Stages 1 to 6, without an await                                         *)

\* REGISTRY and SCOPE: the operation a request names, if it names one.
OperationAsked(c) ==
    LET tool == MutationNamed(Asked[c].id) IN
    IF tool \notin {"create_branch", "create_pr"} THEN NoOperation
    ELSE LET op == Normalize(tool, Asked[c].args) IN
         IF op.ok /\ ContractHolds(MutationContractOf(tool)) /\ op.repo \in InScope
         THEN op ELSE NoOperation

\* POLICY and CREDENTIAL
Admitted(op, credentialReady) ==
    /\ op.ok
    /\ MutationDecision(MutationContractOf(op.tool), credentialReady) = "APPROVAL_REQUIRED"
    /\ CapabilityReady(MutationContractOf(op.tool).capability) /\ credentialReady

\* APPROVAL: the digest of what is asked is the digest of what was approved.
GrantFits(c, op) ==
    LET grant == Asked[c].grant IN
    /\ grant \in DOMAIN Grants \ consumed
    /\ Asked[c].principal \in Identifier /\ Grants[grant].principal = Asked[c].principal
    /\ Grants[grant].op.ok /\ OperationDigest(Grants[grant].op) = OperationDigest(op)

\* IDEMPOTENCY: IdempotencyStore.begin while every lease lives.
BeginAnswer(k, lock) ==
    LET held == \E d \in Caller :
            /\ execution[d].op.ok /\ LockName(execution[d].op) = lock
            /\ CallKey(d) # k /\ CallKey(d) \in DOMAIN kept /\ kept[CallKey(d)] = "PENDING"
    IN CASE k \in DOMAIN kept /\ kept[k] = "COMMITTED" -> "replayed"
         [] k \in DOMAIN kept /\ kept[k] = "PENDING"   -> "in_progress"
         [] k \in DOMAIN kept /\ kept[k] = "AMBIGUOUS" -> "denied"
         [] OTHER -> IF held THEN "denied" ELSE "revalidating"

Claim(c) ==
    /\ execution[c].at = "new"
    /\ \E credentialReady \in BOOLEAN :
        LET op == OperationAsked(c)
            k == IdempotencyKey(Asked[c].principal, op, Asked[c].token)
            answer == BeginAnswer(k, LockName(op))
        IN IF ~Admitted(op, credentialReady) \/ ~GrantFits(c, op)
           THEN CallGoes(c, [at |-> "denied"]) /\ UNCHANGED <<consumed, kept>>
           ELSE /\ consumed' = consumed \cup {Asked[c].grant}
                /\ CallGoes(c, [at |-> answer, op |-> op])
                /\ IF answer = "revalidating" THEN SetKept(k, "PENDING") ELSE UNCHANGED kept
    /\ UNCHANGED <<refs, pulls, moves>>

-----------------------------------------------------------------------------
(* Stages 7 to 9: the precondition is read again, recorded, and the write  *)
(* goes out                                                                *)

CallEnds(c, at, outcome, evidence) ==
    SetKept(CallKey(c), outcome) /\ CallGoes(c, [at |-> at, evidence |-> evidence])

\* _revalidate: the base commit still exists, or the head branch is at the
\* commit that was approved.
PreconditionSeen(op) ==
    IF op.tool = "create_branch" THEN op.sha \in CommitId ELSE refs[op.target] = op.sha

\* A transport that fails leaves the outcome open, though nothing was written.
\* An answer other than 200, or with another commit, is drift.
RevalidateFails(c) ==
    /\ execution[c].at = "revalidating"
    /\ \/ CallEnds(c, "indeterminate", "AMBIGUOUS", "none")
       \/ CallEnds(c, "denied", "FAILED_CLEAN", "none")
    /\ UNCHANGED <<consumed, refs, pulls, moves>>

\* The intent is built outside the try that fails the key: a principal the audit
\* refuses leaves the key pending.
IntentRefused(c) ==
    /\ execution[c].at = "revalidating" /\ PreconditionSeen(execution[c].op)
    /\ ~IntentHolds(Asked[c].principal)
    /\ CallGoes(c, [at |-> "denied"])
    /\ UNCHANGED <<consumed, kept, refs, pulls, moves>>

\* ledger.begin, _SingleWriteGuard.claim and the POST; or no record and no POST.
RecordAndSend(c) ==
    /\ execution[c].at = "revalidating" /\ PreconditionSeen(execution[c].op)
    /\ IntentHolds(Asked[c].principal)
    /\ \/ /\ CallGoes(c, [at |-> "awaiting", write |-> "sent", evidence |-> "open"])
          /\ UNCHANGED kept
       \/ CallEnds(c, "denied", "FAILED_CLEAN", "none")
    /\ UNCHANGED <<consumed, refs, pulls, moves>>

-----------------------------------------------------------------------------
(* GitHub and the people who use it (external)                             *)

\* _write_body: a pull request is opened for a branch, whatever its commit.
WriteBody(op) == [head |-> op.target, base |-> op.base, draft |-> op.draft, open |-> TRUE]

ApplyWrite(c) ==
    LET op == execution[c].op IN
    /\ execution[c].write = "sent"
    /\ IF op.tool = "create_branch"
       THEN /\ refs[op.target] = NoCommit
            /\ refs' = [refs EXCEPT ![op.target] = op.sha]
            /\ CallGoes(c, [write |-> "applied"])
            /\ UNCHANGED pulls
       ELSE /\ refs[op.target] # NoCommit /\ refs[op.base] # NoCommit
            /\ \A i \in DOMAIN pulls : ~(pulls[i].open /\ pulls[i].head = op.target
                                          /\ pulls[i].base = op.base)
            /\ pulls' = Append(pulls, WriteBody(op))
            /\ CallGoes(c, [write |-> "applied", number |-> Len(pulls) + 1])
            /\ UNCHANGED refs
    /\ UNCHANGED <<consumed, kept, moves>>

RefuseWrite(c) ==
    /\ execution[c].write = "sent"
    /\ CallGoes(c, [write |-> "refused"])
    /\ UNCHANGED <<consumed, kept, refs, pulls, moves>>

Elsewhere ==
    /\ moves < MaxMoves /\ moves' = moves + 1
    /\ \/ /\ \E b \in RefName, s \in CommitId \cup {NoCommit} :
                s # refs[b] /\ refs' = [refs EXCEPT ![b] = s]
          /\ UNCHANGED pulls
       \/ /\ \E i \in DOMAIN pulls : pulls[i].open /\ pulls' = [pulls EXCEPT ![i].open = FALSE]
          /\ UNCHANGED refs
    /\ UNCHANGED <<execution, consumed, kept>>

-----------------------------------------------------------------------------
(* Stages 9 to 11: the answer, the read-back and the result                *)

\* The statuses GitHub, or a gateway before it, can answer with; 0 stands for
\* HttpxMutationTransport's ProviderTransportError.
Statuses(write) ==
    {0, 302, 504} \cup (IF write = "applied" THEN {201} ELSE {})
                  \cup (IF write = "refused" THEN {403, 422} ELSE {})

\* ledger.finalize and then the store; the observation may be refused, or the
\* stored record unreadable, and then the key stays as it is.
ConcludeCall(c, outcome, verification, at) ==
    \E unreadable, clockWentBack \in BOOLEAN :
        IF ~unreadable /\ ObservationHolds(outcome, verification, 1, clockWentBack)
        THEN CallEnds(c, at, outcome, EvidenceClass[outcome])
        ELSE CallGoes(c, [at |-> "denied"]) /\ UNCHANGED kept

Answered(c) ==
    /\ execution[c].at = "awaiting"
    /\ \E status \in Statuses(execution[c].write) :
        LET outcome == ClassifyStatus(MutationContractOf(execution[c].op.tool), status) IN
        CASE outcome = "COMMITTED" ->
                /\ CallGoes(c, [at |-> "reading_back", status |-> status]) /\ UNCHANGED kept
          [] outcome = "FAILED_CLEAN" -> ConcludeCall(c, outcome, "NOT_ATTEMPTED", "denied")
          [] OTHER -> ConcludeCall(c, outcome, "UNVERIFIABLE", "indeterminate")
    /\ UNCHANGED <<consumed, refs, pulls, moves>>

\* What a GET of the created object shows: the fields the contract verifies. The
\* number comes from the answer to the POST, when that could be parsed.
Observation(op, number) ==
    IF op.tool = "create_branch"
    THEN IF refs[op.target] = NoCommit THEN << >> ELSE [ref |-> op.target, sha |-> refs[op.target]]
    ELSE [number |-> number, head_sha |-> refs[pulls[number].head],
          state |-> IF pulls[number].open THEN "open" ELSE "closed"]

Expected(op, number) ==
    IF op.tool = "create_branch" THEN [ref |-> op.target, sha |-> op.sha]
    ELSE [number |-> number, head_sha |-> op.sha, state |-> "open"]

\* Any answer of 200 will do.
Verification_Status(op, number) == IF Observation(op, number) = << >> THEN "UNVERIFIABLE" ELSE "VERIFIED"

Verification(op, number) ==
    LET seen == Observation(op, number) IN
    IF ~(MutationContractOf(op.tool).verified \subseteq DOMAIN seen) THEN "UNVERIFIABLE"
    ELSE IF \A f \in MutationContractOf(op.tool).verified : seen[f] = Expected(op, number)[f]
         THEN "VERIFIED" ELSE "MISMATCH"

\* _read_back: GitHub answers the GET; it, or the number, may also be missing.
ReadBackCall(c) ==
    /\ execution[c].at = "reading_back"
    /\ \E verification \in {Verification(execution[c].op, execution[c].number), "UNVERIFIABLE"} :
            CallGoes(c, [at |-> "read", seen |-> verification, seenAt |-> moves])
    /\ UNCHANGED <<consumed, kept, refs, pulls, moves>>

\* The executor has the answer: the result, or _finish_ambiguous.
ReportCall(c) ==
    /\ execution[c].at = "read"
    /\ IF execution[c].seen = "VERIFIED"
       THEN ConcludeCall(c, "COMMITTED", "VERIFIED", "committed")
       ELSE ConcludeCall(c, "AMBIGUOUS", execution[c].seen, "indeterminate")
    /\ UNCHANGED <<consumed, refs, pulls, moves>>

\* CancelledError at an await: no handler runs.
CancelCall(c) ==
    /\ execution[c].at \in {"revalidating", "awaiting", "reading_back", "read"}
    /\ CallGoes(c, [at |-> "cancelled"])
    /\ UNCHANGED <<consumed, kept, refs, pulls, moves>>

\* The calls of one lane, and everybody else.
CallNext(callers) ==
    \/ \E c \in callers :
        \/ Claim(c) \/ RevalidateFails(c) \/ IntentRefused(c) \/ RecordAndSend(c)
        \/ ApplyWrite(c) \/ RefuseWrite(c) \/ Answered(c) \/ ReadBackCall(c)
        \/ ReportCall(c) \/ CancelCall(c)
    \/ Elsewhere

-----------------------------------------------------------------------------
(* Properties                                                              *)

\* Nothing leaves for GitHub but the operation that was approved, field by
\* field, for a repository of the allow-list, once for each approval.
SentAsApproved ==
    \A c \in Caller : execution[c].write # "none" =>
        /\ execution[c].op = Grants[Asked[c].grant].op /\ execution[c].op.repo \in InScope
        /\ \A d \in Caller \ {c} : execution[d].write # "none" => Asked[d].grant # Asked[c].grant

\* Whatever GitHub, the network and other people do: what a call changed can be
\* found again. Evidence of the class FAILED, and a key that may be tried again,
\* never belong to a write that was applied; and a success is a write that was
\* applied. (A call whose evidence could not be written ends with a denial and says
\* nothing of its write; its key stays pending.)
CallsAccounted ==
    \A c \in Caller :
        /\ execution[c].evidence = "FAILED" => execution[c].write = "refused"
        /\ execution[c].at = "committed" => /\ execution[c].write = "applied"
                                        /\ kept[CallKey(c)] = "COMMITTED"
        /\ execution[c].write = "applied" => kept[CallKey(c)] # "FAILED_CLEAN"

\* A success was seen: GitHub held the object that was approved, in every field,
\* when it answered the GET of the read-back, after the write and whatever others did
\* to the branch between the check of the precondition and that answer.  Unless
\* others moved since, GitHub holds it still; that it does so when the executor
\* reports is more than the code can promise.
CommittedAsApproved ==
    \A c \in Caller :
        LET op == Grants[Asked[c].grant].op
            pull == pulls[execution[c].number]
        IN (execution[c].at \in {"read", "committed"} /\ execution[c].seen = "VERIFIED"
                /\ execution[c].seenAt = moves) =>
            /\ refs[op.target] = op.sha
            /\ op.tool = "create_pr" => /\ pull.open /\ pull.head = op.target
                                        /\ pull.base = op.base /\ pull.draft = op.draft
=============================================================================
