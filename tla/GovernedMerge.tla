---------------------------- MODULE GovernedMerge ----------------------------
(***************************************************************************)
(* The governed merge of one pull request (v2/github_merge_executor.py and *)
(* v2/github_governed_merge.py) over the idempotency store, while authors  *)
(* push to the branch, leases run out and responses get lost.              *)
(*                                                                         *)
(* The digest of a merge includes the pinned head, and every merge of the  *)
(* pull request takes the same lock key: a Key stands for a head SHA.      *)
(***************************************************************************)
EXTENDS MutationIdempotency

CONSTANTS
    Attempt,            \* calls of GovernedMergeExecutor.execute
    Pin,                \* expected_head_sha of an attempt
    MergeGrant,         \* the approval an attempt names
    GrantPin,           \* the head an approval was bound to
    MergeAsked,         \* base, principal and approver of an attempt's MergeRequest
    Permitted,          \* attempts in scope, with a policy and a READY capability
    Observed,           \* what MergeStateReader can find, but for the head
    MergePolicy,        \* the RepositoryMergePolicy
    NoSha

ASSUME MergeAssumption ==
    /\ Pin \in [Attempt -> Key] /\ DOMAIN MergeGrant = Attempt
    /\ \A a \in Attempt : GrantPin[MergeGrant[a]] \in Key
    /\ Permitted \subseteq Attempt /\ DOMAIN MergeAsked = Attempt
    /\ MergePolicy.checks # {} /\ NoSha \notin Key

VARIABLES
    at,         \* where each attempt is
    told,       \* what it told its caller
    intent,     \* its entry in the audit ledger
    put,        \* its PUT as GitHub sees it
    reply,      \* the response to the PUT
    spent,      \* consumed approvals
    head,       \* the head of the pull request
    merged      \* the head that was merged

callVars == <<at, told, intent, put, reply, spent>>
mergeVars == <<callVars, head, merged>>

MergeTypeOK ==
    /\ at \in [Attempt -> {"new", "claimed", "cleared", "sent", "accepted", "done"}]
    /\ told \in [Attempt -> {"nothing", "denied", "replayed", "refused", "unknown", "merged"}]
    /\ intent \in [Attempt -> Outcome]
    /\ put \in [Attempt -> {"none", "flying", "merged", "refused"}]
    /\ head \in Key /\ merged \in Key \cup {NoSha}

MergeInit ==
    /\ at = [a \in Attempt |-> "new"] /\ told = [a \in Attempt |-> "nothing"]
    /\ intent = [a \in Attempt |-> "ABSENT"]
    /\ put = [a \in Attempt |-> "none"] /\ reply = [a \in Attempt |-> 0]
    /\ spent = {} /\ head \in Key /\ merged = NoSha

Tell(a, what) ==
    /\ told' = [told EXCEPT ![a] = what] /\ at' = [at EXCEPT ![a] = "done"]

-----------------------------------------------------------------------------
(* The gates                                                               *)

\* MERGE_GATE_ORDER 2: the default branch only where the operator opted in.
BaseAllowed(a, o) ==
    /\ o.default # NoSha
    /\ MergeAsked[a].base = o.default => MergePolicy.defaultAllowed

\* 3, on PullRequestState: `mergeable` is unknown while GitHub computes it.
PullRequestReady(a, o) ==
    /\ o.open /\ ~o.draft /\ o.mergeable = "yes"
    /\ o.state \in {"clean", "has_hooks"} /\ o.base = MergeAsked[a].base

\* CheckState.is_green
IsGreen(check) == check.status = "completed" /\ check.conclusion = "success"

\* MergeObservation.check_by_name: the first of that name counts.
GreenByName(o, name) ==
    \E i \in DOMAIN o.checks :
        /\ o.checks[i].name = name /\ IsGreen(o.checks[i])
        /\ \A j \in 1 .. (i - 1) : o.checks[j].name # name

\* 4: the checks of the policy, and those of the branch where they could be read.
RequiredChecks(o) ==
    MergePolicy.checks \cup (IF o.protection.readable THEN o.protection.checks ELSE {})
ChecksGreen(o) == RequiredChecks(o) # {} /\ \A name \in RequiredChecks(o) : GreenByName(o, name)

\* BranchProtectionState.reviews_satisfied
ReviewsSatisfied(p) == p.changesRequested = 0 /\ p.reviews >= p.reviewsNeeded

\* 5: protection that cannot be read, or that admins may bypass, is a denial.
Protected(a, o) ==
    /\ o.protection.readable /\ o.protection.enforceAdmins /\ ReviewsSatisfied(o.protection)
    /\ ~(MergePolicy.distinct /\ MergeAsked[a].approver = MergeAsked[a].principal)

\* evaluate_merge_gates: all of them, and the pinned head last.
Gates(a, o) ==
    /\ BaseAllowed(a, o) /\ PullRequestReady(a, o) /\ ChecksGreen(o) /\ Protected(a, o)
    /\ head = Pin[a]

\* classify_merge_status
Classify(status) ==
    CASE status = 200 -> "ok"
      [] status \in {409, 405, 401, 403, 404} -> "clean"
      [] OTHER -> "unknown"

\* The sha is left out of the body: GitHub merges what it finds.
BodySha_Head(a) == head

\* merge_request_body
BodySha(a) == Pin[a]

-----------------------------------------------------------------------------
(* execute                                                                 *)

\* Stages 1 to 5 fail: no store has been touched.
DenyMerge(a) ==
    /\ at[a] = "new"
    /\ \/ a \notin Permitted
       \/ MergeGrant[a] \in spent
       \/ GrantPin[MergeGrant[a]] # Pin[a]
    /\ Tell(a, "denied")
    /\ UNCHANGED <<records, leases, now, intent, put, reply, spent, head, merged>>

\* Stages 5 and 6: verify_and_consume, then begin.
BeginMerge(a) ==
    /\ at[a] = "new" /\ a \in Permitted
    /\ MergeGrant[a] \notin spent /\ GrantPin[MergeGrant[a]] = Pin[a]
    /\ spent' = spent \cup {MergeGrant[a]}
    /\ \/ BeginNew(Pin[a]) /\ at' = [at EXCEPT ![a] = "claimed"] /\ UNCHANGED told
       \/ (BeginLeaseLost(Pin[a]) \/ BeginHolderLost(Pin[a])) /\ Tell(a, "unknown")
       \/ BeginRefused(Pin[a])
          /\ Tell(a, IF BeginDecision(Pin[a]) = "REPLAYED" THEN "replayed" ELSE "denied")
    /\ UNCHANGED <<now, intent, put, reply, head, merged>>

\* _resolve raises when another caller has resolved the record meanwhile.
Settle(k, outcome) ==
    IF Pending(k) THEN Resolve(k, outcome) ELSE UNCHANGED storeVars

\* Stage 7: the gates refuse, or nothing usable was read.
DenyObserved(a) ==
    /\ at[a] = "claimed"
    /\ merged # NoSha \/ \E o \in Observed : ~Gates(a, o)
    /\ Settle(Pin[a], "FAILED_CLEAN") /\ Tell(a, "denied")
    /\ UNCHANGED <<now, intent, put, reply, spent, head, merged>>

ObserveLost(a) ==
    /\ at[a] = "claimed"
    /\ Settle(Pin[a], "AMBIGUOUS") /\ Tell(a, "unknown")
    /\ UNCHANGED <<now, intent, put, reply, spent, head, merged>>

\* Stages 7 and 8: the gates pass; the ledger may still refuse the intent.
Clear(a, o) ==
    /\ at[a] = "claimed" /\ merged = NoSha /\ Gates(a, o)
    /\ at' = [at EXCEPT ![a] = "cleared"]
    /\ UNCHANGED <<records, leases, now, told, intent, put, reply, spent, head, merged>>

NoIntent(a) ==
    /\ at[a] = "cleared"
    /\ Settle(Pin[a], "FAILED_CLEAN") /\ Tell(a, "denied")
    /\ UNCHANGED <<now, intent, put, reply, spent, head, merged>>

\* Stages 8 and 9: the one PUT.
SendPut(a) ==
    /\ at[a] = "cleared"
    /\ intent' = [intent EXCEPT ![a] = "PENDING"]
    /\ put' = [put EXCEPT ![a] = "flying"]
    /\ at' = [at EXCEPT ![a] = "sent"]
    /\ UNCHANGED <<records, leases, now, told, reply, spent, head, merged>>

\* _finish_ambiguous
FinishAmbiguous(a) ==
    /\ intent' = [intent EXCEPT ![a] = "AMBIGUOUS"]
    /\ Settle(Pin[a], "AMBIGUOUS") /\ Tell(a, "unknown")

PutTimesOut(a) ==
    /\ at[a] = "sent" /\ FinishAmbiguous(a)
    /\ UNCHANGED <<now, put, reply, spent, head, merged>>

PutAnswered(a) ==
    /\ at[a] = "sent" /\ reply[a] # 0
    /\ CASE Classify(reply[a]) = "ok" ->
                at' = [at EXCEPT ![a] = "accepted"] /\ UNCHANGED <<storeVars, told, intent>>
         [] Classify(reply[a]) = "clean" ->
                /\ intent' = [intent EXCEPT ![a] = "FAILED_CLEAN"]
                /\ Settle(Pin[a], "FAILED_CLEAN") /\ Tell(a, "refused")
         [] Classify(reply[a]) = "unknown" -> FinishAmbiguous(a)
    /\ UNCHANGED <<now, put, reply, spent, head, merged>>

\* Stages 10 and 11: _read_back, then the ledger, then the store.  A record
\* that was resolved meanwhile makes commit raise after the ledger is closed.
ReadBack(a) ==
    /\ at[a] = "accepted"
    /\ merged # NoSha /\ head = Pin[a]
    /\ intent' = [intent EXCEPT ![a] = "COMMITTED"]
    /\ Settle(Pin[a], "COMMITTED")
    /\ Tell(a, IF Pending(Pin[a]) THEN "merged" ELSE "unknown")
    /\ UNCHANGED <<now, put, reply, spent, head, merged>>

ReadBackFails(a) ==
    /\ at[a] = "accepted" /\ FinishAmbiguous(a)
    /\ UNCHANGED <<now, put, reply, spent, head, merged>>

-----------------------------------------------------------------------------
(* external: GitHub, authors, the clock                                    *)

\* GitHub merges at the sha of the request if that is still the head; a 5xx
\* may come back in either case.
GitHubActs(a) ==
    /\ put[a] = "flying"
    /\ IF merged = NoSha /\ BodySha(a) = head
       THEN /\ put' = [put EXCEPT ![a] = "merged"] /\ merged' = head
            /\ \E s \in {200, 502} : reply' = [reply EXCEPT ![a] = s]
       ELSE /\ put' = [put EXCEPT ![a] = "refused"] /\ UNCHANGED merged
            /\ \E s \in {405, 409, 502} : reply' = [reply EXCEPT ![a] = s]
    /\ UNCHANGED <<records, leases, now, at, told, intent, spent, head>>

Push(sha) ==
    /\ merged = NoSha /\ sha # head
    /\ head' = sha
    /\ UNCHANGED <<records, leases, now, callVars, merged>>

MergeTick ==
    /\ Tick /\ UNCHANGED mergeVars

MergeNext ==
    \/ \E a \in Attempt :
        \/ DenyMerge(a) \/ BeginMerge(a) \/ DenyObserved(a) \/ ObserveLost(a)
        \/ NoIntent(a) \/ SendPut(a) \/ PutTimesOut(a) \/ PutAnswered(a)
        \/ ReadBack(a) \/ ReadBackFails(a) \/ GitHubActs(a)
        \/ \E o \in Observed : Clear(a, o)
    \/ \E sha \in Key : Push(sha)
    \/ MergeTick

-----------------------------------------------------------------------------
(* Properties                                                              *)

\* The head that is merged is one that a consumed approval was bound to and a
\* durable intent names, however the branch moved between the observation and
\* the arrival of the PUT.
MergedIsApproved ==
    merged # NoSha => \E a \in Attempt :
        /\ put[a] = "merged" /\ intent[a] # "ABSENT"
        /\ MergeGrant[a] \in spent /\ GrantPin[MergeGrant[a]] = merged

\* A merge that is reported clean (denied, or refused by GitHub) did not happen
\* and cannot happen any more; one that the ledger, the store or the caller
\* calls committed did.
MergeReportIsTrue ==
    /\ \A a \in Attempt :
        /\ (told[a] \in {"denied", "refused"} \/ intent[a] = "FAILED_CLEAN") =>
                put[a] \in {"none", "refused"}
        /\ (told[a] = "merged" \/ intent[a] = "COMMITTED") => merged = Pin[a]
    /\ \A k \in Key : records[k].outcome = "COMMITTED" => merged = k
=============================================================================
