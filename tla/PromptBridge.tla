---------------------------- MODULE PromptBridge ----------------------------
(***************************************************************************)
(* The bridge's prompt tools: hermes_submit, hermes_prompt and hermes_stop *)
(* (server.py) over the execution registry (registry.py), the approvals    *)
(* bound to one prompt (prompt_approvals.py, approvals.py) and the Hermes  *)
(* API client (client.py, client_base.py).                                 *)
(*                                                                         *)
(* A handler is a coroutine: it can be cancelled at each await, and other  *)
(* handlers run there.  What it does on a thread (asyncio.to_thread) goes  *)
(* on after its cancellation, which is why the record that a handler waits *)
(* for and the handler itself are separate pieces of state.                *)
(***************************************************************************)
EXTENDS Integers, FiniteSets

CONSTANTS
    Call,               \* tool calls; a retry is another call
    Submit,             \* those of hermes_submit; the others are of hermes_prompt
    Key, KeyOf, NoKey,  \* client_request_id
    Fingerprint, FingerprintOf,         \* compute_fingerprint of the call
    Digest, DigestOf,   \* the request that its approval is bound to
    DecisionOf,         \* what the policy says of it
    StopsRun,           \* calls with stop_on_disconnect
    NoRun,
    Together,           \* bound: the sets of calls that are made side by side
    MaxRetries          \* bound: times a refused call is made again

PolicyDecision == {"ALLOW", "REQUIRE_APPROVAL", "DENY"}

ASSUME PromptAssumption ==
    /\ Submit \subseteq Call /\ StopsRun \subseteq Call \ Submit
    /\ KeyOf \in [Call -> Key \cup {NoKey}] /\ NoKey \notin Key
    /\ FingerprintOf \in [Call -> Fingerprint]
    /\ DigestOf \in [Call -> Digest]
    /\ DecisionOf \in [Call -> PolicyDecision]
    /\ NoRun \notin Call /\ MaxRetries \in Nat /\ Together \subseteq SUBSET Call

VARIABLES
    pc,         \* where the handler of a call is, or how it ended
    mapping,    \* run_mappings: the run and the status kept under a key
    writing,    \* calls with a registry.record on a thread
    run,        \* external: status of the run a call created; a run is named by that call
    answer,     \* what the client was told: the run, its status, and if it was warned
    approval,   \* decision of the approval of a request
    overdue,    \* requests whose approval is past expires_at
    known,      \* history: keyed calls that got an execution_id from Hermes
    orphaned,   \* history: calls whose record went on without their handler
    retries

bridgeVars ==
    <<pc, mapping, writing, run, answer, approval, overdue, known, orphaned, retries>>

-----------------------------------------------------------------------------
(* State                                                                   *)

\* RunStatus: what the bridge tells apart.
Terminal == {"completed", "cancelled"}
RunState == {"absent", "running"} \cup Terminal

\* ApprovalStatus.
Decision == {"requested", "approved", "rejected", "expired", "stale", "consumed"}

\* run_mappings, with the fingerprint of the row that of the run's call.
NoMapping == [run |-> NoRun, status |-> "absent"]
MappingRow == [run : Call, status : RunState]
NoAnswer == [run |-> NoRun, status |-> "absent", warned |-> FALSE]

\* Places where the handler holds the asyncio lock of its key.
Holding == {"reading", "creating", "waiting", "recording", "recovering", "rescuing"}
Ended == {"denied", "blocked", "conflict", "failed", "cancelled", "done", "died"}

BridgeTypeOK ==
    /\ pc \in [Call -> {"unmade", "new", "admitted"} \cup Holding \cup Ended]
    /\ mapping \in [Key -> MappingRow \cup {NoMapping}]
    /\ writing \subseteq Call
    /\ run \in [Call -> RunState]
    /\ answer \in [Call -> [run : Call \cup {NoRun}, status : RunState, warned : BOOLEAN]]
    /\ approval \in [Digest -> Decision \cup {"absent"}]
    /\ overdue \subseteq Digest
    /\ known \subseteq Call /\ orphaned \subseteq Call
    /\ retries \in 0..MaxRetries

BridgeInit ==
    /\ \E made \in Together : pc = [c \in Call |-> IF c \in made THEN "new" ELSE "unmade"]
    /\ mapping = [k \in Key |-> NoMapping]
    /\ writing = {}
    /\ run = [c \in Call |-> "absent"]
    /\ answer = [c \in Call |-> NoAnswer]
    /\ approval = [d \in Digest |-> "absent"]
    /\ overdue = {} /\ known = {} /\ orphaned = {} /\ retries = 0

-----------------------------------------------------------------------------
(* Policy and the approval of one prompt                                   *)

Keyed(c) == KeyOf[c] # NoKey
Mapped(c) == Keyed(c) /\ mapping[KeyOf[c]] # NoMapping

\* The row of c's key was made for the same prompt, session, agents and mode.
SameFingerprint(c) == FingerprintOf[mapping[KeyOf[c]].run] = FingerprintOf[c]

\* A consumed approval lets its request through without looking for its run.
ExistingExecutionMatches_Always(c) == TRUE

ExistingExecutionMatches(c) == Mapped(c) /\ SameFingerprint(c)

Goto(c, place) == pc' = [pc EXCEPT ![c] = place]

\* ApprovalRegistry.consume: every check and the update in one transaction.
\* The approval may have run out since the caller looked at its expiry.
Consume(c) ==
    \/ /\ approval' = [approval EXCEPT ![DigestOf[c]] = "consumed"]
       /\ Goto(c, "admitted")
       /\ UNCHANGED overdue
    \/ /\ approval' = [approval EXCEPT ![DigestOf[c]] = "expired"]
       /\ overdue' = overdue \cup {DigestOf[c]}
       /\ Goto(c, "blocked")

\* ApprovalRegistry.create, or its failure.
RequestApproval(c) ==
    /\ \/ approval' = [approval EXCEPT ![DigestOf[c]] = "requested"]
       \/ UNCHANGED approval
    /\ Goto(c, "blocked") /\ UNCHANGED overdue

\* resolve_required_prompt_approval: it awaits nothing.
Resolve(c) ==
    LET d == DigestOf[c] IN
    \/ approval[d] = "absent" /\ RequestApproval(c)
    \/ /\ approval[d] # "absent" /\ d \in overdue
       /\ approval' =
            [approval EXCEPT ![d] = IF @ = "requested" THEN "expired" ELSE @]
       /\ Goto(c, "blocked") /\ UNCHANGED overdue
    \/ approval[d] = "approved" /\ d \notin overdue /\ Consume(c)
    \/ /\ approval[d] = "consumed" /\ d \notin overdue
       /\ Goto(c, IF ExistingExecutionMatches(c) THEN "admitted" ELSE "blocked")
       /\ UNCHANGED <<approval, overdue>>
    \/ /\ approval[d] \in {"requested", "rejected", "expired", "stale"} /\ d \notin overdue
       /\ Goto(c, "blocked") /\ UNCHANGED <<approval, overdue>>

\* The policy gate of both tools, up to the key lock.
EnforcePromptPolicy(c) ==
    /\ pc[c] = "new"
    /\ \/ DecisionOf[c] = "ALLOW" /\ Goto(c, "admitted") /\ UNCHANGED <<approval, overdue>>
       \/ DecisionOf[c] = "DENY" /\ Goto(c, "denied") /\ UNCHANGED <<approval, overdue>>
       \/ DecisionOf[c] = "REQUIRE_APPROVAL" /\ Resolve(c)
    /\ UNCHANGED <<mapping, writing, run, answer, known, orphaned, retries>>

\* The client of a refused or failed call makes it again, as the refusal asks.
CallAgain(c) ==
    /\ pc[c] = "blocked" /\ retries < MaxRetries
    /\ retries' = retries + 1
    /\ Goto(c, "new")
    /\ UNCHANGED <<mapping, writing, run, answer, approval, overdue, known, orphaned>>

\* hermes_approval_respond: it takes every value of ApprovalStatus.
Respond(d) ==
    /\ approval[d] = "requested" /\ d \notin overdue
    /\ \E s \in Decision : approval' = [approval EXCEPT ![d] = s]
    /\ UNCHANGED <<pc, mapping, writing, run, answer, overdue, known, orphaned, retries>>

\* The expiry of an approval passes.
RunOut(d) ==
    /\ approval[d] # "absent" /\ d \notin overdue
    /\ overdue' = overdue \cup {d}
    /\ UNCHANGED <<pc, mapping, writing, run, answer, approval, known, orphaned, retries>>

-----------------------------------------------------------------------------
(* The key and the registry                                                *)

\* The handler does not take the lock of its key.
LockFree_Always(k) == TRUE

\* A cancelled handler does not release the lock of its key.
LockFree_Leaked(k) ==
    \A c \in Call : KeyOf[c] = k => pc[c] \notin Holding \cup {"cancelled"}

LockFree(k) == \A c \in Call : KeyOf[c] = k => pc[c] \notin Holding

\* "async with _key_lock": without a key there is no lock and no lookup.
AcquireKey(c) ==
    /\ pc[c] = "admitted"
    /\ \/ ~Keyed(c) /\ Goto(c, "creating")
       \/ Keyed(c) /\ LockFree(KeyOf[c]) /\ Goto(c, "reading")
    /\ UNCHANGED <<mapping, writing, run, answer, approval, overdue, known, orphaned, retries>>

\* The stored row answers a repeated hermes_submit; hermes_prompt goes to look.
AnswerFrom(c, row) == [run |-> row.run, status |-> row.status, warned |-> FALSE]

\* registry.get under the lock, or its failure.
Lookup(c) ==
    /\ pc[c] = "reading"
    /\ \/ ~Mapped(c) /\ Goto(c, "creating") /\ UNCHANGED answer
       \/ Mapped(c) /\ ~SameFingerprint(c) /\ Goto(c, "conflict") /\ UNCHANGED answer
       \/ /\ Mapped(c) /\ SameFingerprint(c) /\ c \in Submit
          /\ answer' = [answer EXCEPT ![c] = AnswerFrom(c, mapping[KeyOf[c]])]
          /\ Goto(c, "done")
       \/ /\ Mapped(c) /\ SameFingerprint(c) /\ c \notin Submit
          /\ Goto(c, "recovering") /\ UNCHANGED answer
       \/ Goto(c, "failed") /\ UNCHANGED answer
    /\ UNCHANGED <<mapping, writing, run, approval, overdue, known, orphaned, retries>>

\* A repeated prompt that Hermes does not answer reports the run as completed.
Recover_Guess(c) ==
    /\ pc[c] = "recovering"
    /\ answer' = [answer EXCEPT ![c] =
            [run |-> mapping[KeyOf[c]].run, status |-> "completed", warned |-> FALSE]]
    /\ Goto(c, "done")
    /\ UNCHANGED <<mapping, writing, run, approval, overdue, known, orphaned, retries>>

\* get_run and wait_for_run of the run that the row names.  If Hermes does not
\* answer, a terminal status of the row is the answer; a wait may also fail.
Recover(c) ==
    /\ pc[c] = "recovering"
    /\ LET row == mapping[KeyOf[c]] IN
       \/ /\ answer' = [answer EXCEPT ![c] =
                AnswerFrom(c, [row EXCEPT !.status = run[row.run]])]
          /\ Goto(c, "done")
       \/ /\ row.status \in Terminal
          /\ answer' = [answer EXCEPT ![c] = AnswerFrom(c, row)]
          /\ Goto(c, "done")
       \/ Goto(c, "failed") /\ UNCHANGED answer
    /\ UNCHANGED <<mapping, writing, run, approval, overdue, known, orphaned, retries>>

\* client.create_run answers with an execution_id.  hermes_submit does not wait.
CreateRun(c) ==
    /\ pc[c] = "creating"
    /\ \E s \in RunState \ {"absent"} : run' = [run EXCEPT ![c] = s]
    /\ known' = known \cup (IF Keyed(c) THEN {c} ELSE {})
    /\ \/ /\ c \notin Submit
          /\ Goto(c, "waiting") /\ UNCHANGED <<writing, answer>>
       \/ /\ c \in Submit /\ Keyed(c)
          /\ Goto(c, "recording") /\ writing' = writing \cup {c} /\ UNCHANGED answer
       \/ /\ c \in Submit /\ ~Keyed(c)
          /\ answer' = [answer EXCEPT ![c] =
                [run |-> c, status |-> run'[c], warned |-> FALSE]]
          /\ Goto(c, "done") /\ UNCHANGED writing
    /\ UNCHANGED <<mapping, approval, overdue, orphaned, retries>>

\* The POST fails, or only its answer is lost: it is never sent twice.
CreateFails(c) ==
    /\ pc[c] = "creating"
    /\ \E s \in {"absent", "running"} : run' = [run EXCEPT ![c] = s]
    /\ Goto(c, "failed")
    /\ UNCHANGED <<mapping, writing, answer, approval, overdue, known, orphaned, retries>>

\* wait_for_run ends: the run is over or the wait is; the record is then made
\* on a thread.
WaitEnds(c) ==
    /\ pc[c] = "waiting"
    /\ \/ /\ Keyed(c)
          /\ Goto(c, "recording") /\ writing' = writing \cup {c} /\ UNCHANGED answer
       \/ /\ ~Keyed(c)
          /\ answer' = [answer EXCEPT ![c] =
                [run |-> c, status |-> run[c], warned |-> FALSE]]
          /\ Goto(c, "done") /\ UNCHANGED writing
    /\ UNCHANGED <<mapping, run, approval, overdue, known, orphaned, retries>>

\* A poll fails for good: the tool reports the error and records nothing.
WaitFails(c) ==
    /\ pc[c] = "waiting"
    /\ Goto(c, "failed")
    /\ UNCHANGED <<mapping, writing, run, answer, approval, overdue, known, orphaned, retries>>

\* The record replaces the row of its key.
RecordRow_Replaces(c) ==
    mapping' = [mapping EXCEPT ![KeyOf[c]] = [run |-> c, status |-> run[c]]]

\* RunRegistry.record: the first row of a key stays.
RecordRow(c) ==
    LET k == KeyOf[c] IN
    IF mapping[k] = NoMapping
    THEN mapping' = [mapping EXCEPT ![k] = [run |-> c, status |-> run[c]]]
    ELSE UNCHANGED mapping

\* The thread is done.  A row with another fingerprint raises, and a database
\* error is turned into a warning; the handler goes on if it still waits.
Record(c) ==
    /\ c \in writing
    /\ writing' = writing \ {c}
    /\ \/ /\ RecordRow(c)
          /\ \/ /\ pc[c] = "recording"
                /\ IF Mapped(c) /\ ~SameFingerprint(c)
                   THEN Goto(c, "failed") /\ UNCHANGED answer
                   ELSE /\ answer' = [answer EXCEPT ![c] =
                             [run |-> c, status |-> run[c], warned |-> FALSE]]
                        /\ Goto(c, "done")
             \/ /\ pc[c] = "rescuing"
                /\ Goto(c, "cancelled") /\ UNCHANGED answer
             \/ /\ pc[c] \notin {"recording", "rescuing"} /\ UNCHANGED <<pc, answer>>
       \/ /\ pc[c] = "recording"
          /\ answer' = [answer EXCEPT ![c] =
                [run |-> c, status |-> run[c], warned |-> TRUE]]
          /\ Goto(c, "done") /\ UNCHANGED mapping
    /\ UNCHANGED <<run, approval, overdue, known, orphaned, retries>>

-----------------------------------------------------------------------------
(* Cancellation, stop, restart                                             *)

\* The client disconnects while the handler awaits.  A POST on its way may
\* still reach Hermes.  hermes_submit shields the record and makes it again,
\* hermes_prompt leaves it to its thread; stop_on_disconnect stops the run.
Cancel(c) ==
    /\ pc[c] \in {"admitted"} \cup Holding
    /\ Goto(c, IF pc[c] = "recording" /\ c \in Submit THEN "rescuing" ELSE "cancelled")
    /\ \/ /\ pc[c] = "creating"
          /\ \E s \in {"absent", "running"} : run' = [run EXCEPT ![c] = s]
       \/ /\ pc[c] = "waiting" /\ c \in StopsRun /\ run[c] \notin Terminal
          /\ \E s \in {"running", "cancelled"} : run' = [run EXCEPT ![c] = s]
       \/ /\ pc[c] # "creating" /\ ~(pc[c] = "waiting" /\ c \in StopsRun)
          /\ UNCHANGED run
    /\ orphaned' = orphaned \cup (IF pc'[c] = "cancelled" THEN writing \cap {c} ELSE {})
    /\ UNCHANGED <<mapping, writing, answer, approval, overdue, known, retries>>

\* The run finishes, or hermes_stop reaches it.  hermes_stop looks for a row
\* under the execution_id, which is not a client_request_id.
RunEnds(c) ==
    /\ run[c] = "running"
    /\ \E s \in Terminal : run' = [run EXCEPT ![c] = s]
    /\ UNCHANGED <<pc, mapping, writing, answer, approval, overdue, known, orphaned, retries>>

\* The process dies: handlers, locks and threads go, the databases stay.
Restart ==
    /\ \E c \in Call : pc[c] \in {"admitted"} \cup Holding
    /\ retries < MaxRetries /\ retries' = retries + 1
    /\ pc' = [c \in Call |-> IF pc[c] \in {"admitted"} \cup Holding THEN "died" ELSE pc[c]]
    /\ writing' = {}
    /\ run' \in [Call -> RunState]
    /\ \A c \in Call : run'[c] = run[c] \/ (pc[c] = "creating" /\ run'[c] = "running")
    /\ UNCHANGED <<mapping, answer, approval, overdue, known, orphaned>>

HandlerStep(c) ==
    \/ EnforcePromptPolicy(c) \/ AcquireKey(c) \/ Lookup(c) \/ Recover(c)
    \/ CreateRun(c) \/ CreateFails(c) \/ WaitEnds(c) \/ WaitFails(c) \/ Record(c)

BridgeNext ==
    \/ \E c \in Call : HandlerStep(c) \/ Cancel(c) \/ CallAgain(c) \/ RunEnds(c)
    \/ \E d \in Digest : Respond(d) \/ RunOut(d)
    \/ Restart

BridgeSpec == BridgeInit /\ [][BridgeNext]_bridgeVars

\* The event loop and its threads serve every handler; requests to Hermes and
\* waits for it have timeouts.
FairBridgeSpec ==
    /\ BridgeSpec
    /\ \A c \in Call : WF_bridgeVars(HandlerStep(c))

-----------------------------------------------------------------------------
(* Properties                                                              *)

\* One approval lets one run through: however its request is repeated, raced,
\* cancelled or cut off by a restart, Hermes has at most one run for it
\* (resolve_required_prompt_approval and the key lock together).
OneRunPerApproval ==
    \A c1, c2 \in Call :
        /\ DigestOf[c1] = DigestOf[c2]
        /\ DecisionOf[c1] = "REQUIRE_APPROVAL" /\ DecisionOf[c2] = "REQUIRE_APPROVAL"
        /\ run[c1] # "absent" /\ run[c2] # "absent"
        => c1 = c2

\* Calls of one key and fingerprint that were answered without a warning were
\* all told of the same run, whatever failed, was cancelled or was lost before,
\* as long as no handler of the key went away with its record on a thread
\* (docs/long-running-runs.md: "Same client_request_id and fingerprint returns
\* same execution").
AnswersAgree ==
    \A c1, c2 \in Call :
        /\ Keyed(c1) /\ KeyOf[c1] = KeyOf[c2] /\ FingerprintOf[c1] = FingerprintOf[c2]
        /\ answer[c1].run # NoRun /\ ~answer[c1].warned
        /\ answer[c2].run # NoRun /\ ~answer[c2].warned
        /\ \A c \in orphaned : KeyOf[c] # KeyOf[c1]
        => answer[c1].run = answer[c2].run

\* The run of a key is never replaced: records that outlive their handlers and
\* handlers of a later process find the first row and leave it.
MappingKept ==
    [][\A k \in Key : mapping[k] # NoMapping => mapping'[k] = mapping[k]]_bridgeVars

\* An answer that calls a run over is about a run that is over, also when it
\* comes from the registry and not from Hermes.
TerminalIsTrue ==
    \A c \in Call : answer[c].status \in Terminal => run[answer[c].run] = answer[c].status

\* Every call ends, so no key stays locked (asyncio.Lock in _key_lock).
CallsEnd ==
    \A c \in Call : (pc[c] \notin {"unmade", "new"} \cup Ended) ~> (pc[c] \in Ended)

\* README: "Persisted state is protected against request cancellation": a run
\* that the bridge knows of has a row under its key, or a record on its way,
\* once its handler is over.
MappingNotLost ==
    \A c \in known : pc[c] = "cancelled" => c \in writing \/ mapping[KeyOf[c]] # NoMapping
=============================================================================
