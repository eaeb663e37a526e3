--------------------------- MODULE ProviderGateway ---------------------------
(***************************************************************************)
(* The provider lane: ProviderGateway.invoke (v2/provider_gateway.py) over *)
(* the capability registry (v2/provider_registry.py, v2/provider_health.py),*)
(* the credential broker (v2/provider_credentials.py), the approval and    *)
(* idempotency stores, and the audit ledger (v2/provider_audit.py).        *)
(*                                                                         *)
(* invoke is synchronous and takes no lock, so one call of it runs at a    *)
(* time; what happens between its sections is the provider's doing, or a   *)
(* restart.  A restart keeps what the continuity tests keep: the audit     *)
(* sink, the approvals and the idempotency entries.                        *)
(***************************************************************************)
EXTENDS Integers, FiniteSets

CONSTANTS
    Call,           \* invocations; a client that tries again makes another one
    NoCall,
    RequestId, IdOf,            \* the request id of a call
    Capability, CapOf,          \* the capability it asks for
    Write,                      \* the DIRECT_WRITE capabilities
    Key, KeyOf, NoKey,          \* its idempotency key
    KeyRequired,                \* writes that refuse a call without one
    Approval, ApprovalOf, NoApproval,
    NeedsApproval,              \* writes that ask for an approval
    GrantedTo                   \* the calls whose operation digest an approval names

ASSUME CallsAssumption ==
    /\ IdOf \in [Call -> RequestId] /\ CapOf \in [Call -> Capability]
    /\ KeyOf \in [Call -> Key \cup {NoKey}] /\ NoKey \notin Key
    /\ ApprovalOf \in [Call -> Approval \cup {NoApproval}] /\ NoApproval \notin Approval
    /\ GrantedTo \in [Approval -> SUBSET Call]
    /\ NoCall \notin Call
ASSUME WritesAssumption ==
    Write \subseteq Capability /\ KeyRequired \subseteq Write /\ NeedsApproval \subseteq Write

VARIABLES
    state,          \* registry._states
    usable,         \* credentials that are registered, ready and not revoked
    consumed,       \* approvals._consumed
    entries,        \* idempotency._entries: the call whose success is kept
    intent,         \* request ids with an intent record in the sink
    terminal,       \* the terminal record of each request id
    pc,             \* where a call is, or how it ended
    effect          \* external: what became of a call of a writing adapter

vars == <<state, usable, consumed, entries, intent, terminal, pc, effect>>

-----------------------------------------------------------------------------
(* State                                                                   *)

\* _STATE_RANK.
Rank ==
    [DENIED |-> 0, UNAVAILABLE |-> 1, DEGRADED |-> 2, CONFIGURED |-> 3,
     AVAILABLE |-> 4, HEALTHY |-> 5, READY |-> 6]
CapabilityState == DOMAIN Rank

\* OutcomeClass; invoke makes no use of PARTIAL.
Outcome == {"success", "refused", "error", "unknown"}

\* Ways a call ends. "replayed": the prior outcome was returned. "unaudited":
\* refused because the intent could not be recorded. "raised": invoke raised.
Ended == Outcome \cup {"replayed", "unaudited", "raised", "dead"}

\* A terminal record: whose it is, its outcome class, and whether its
\* provider_call_count is positive.
Terminal == [by : Call \cup {NoCall}, outcome : Outcome, counted : BOOLEAN]
NoTerminal == [by |-> NoCall, outcome |-> "refused", counted |-> FALSE]

GatewayTypeOK ==
    /\ state \in [Capability -> CapabilityState]
    /\ usable \in SUBSET Capability
    /\ consumed \in SUBSET Approval
    /\ entries \in [Key -> Call \cup {NoCall}]
    /\ intent \in SUBSET RequestId
    /\ terminal \in [RequestId -> Terminal]
    /\ pc \in [Call -> {"idle", "admitted", "calling"} \cup Ended]
    /\ effect \in [Call -> {"none", "sent", "done", "never"}]

\* register and freeze: a capability is CONFIGURED until it is probed.
Init ==
    /\ state = [cap \in Capability |-> "CONFIGURED"]
    /\ usable = Capability
    /\ consumed = {}
    /\ entries = [k \in Key |-> NoCall]
    /\ intent = {}
    /\ terminal = [r \in RequestId |-> NoTerminal]
    /\ pc = [c \in Call |-> "idle"]
    /\ effect = [c \in Call |-> "none"]

InFlight(c) == pc[c] \in {"admitted", "calling"}
Free == \A c \in Call : ~InFlight(c)

IsWrite(c) == CapOf[c] \in Write
Goes(c, p) == pc' = [pc EXCEPT ![c] = p]

-----------------------------------------------------------------------------
(* Registry and broker                                                     *)

\* _classify: what a probe reports. 429 is DEGRADED for a write as well.
Report == {"READY", "DENIED", "DEGRADED", "UNAVAILABLE"}

\* apply_health: demote only.
Demoted(current, report) == IF Rank[report] <= Rank[current] THEN report ELSE current

\* Mutant: any probe may raise a state that a probe has lowered.
Classified_Again(cap, report) == report

\* promote_configured, which falls back to apply_health for a capability that
\* was classified before; an inconclusive write is UNAVAILABLE.
Classified(cap, report) ==
    IF state[cap] # "CONFIGURED" THEN Demoted(state[cap], report)
    ELSE IF cap \in Write /\ report # "READY" THEN "UNAVAILABLE"
    ELSE report

Probe(cap) ==
    /\ Free
    /\ \E report \in Report :
          \/ state' = [state EXCEPT ![cap] = Classified(cap, report)]
          \/ state' = [state EXCEPT ![cap] = Demoted(state[cap], report)]
    /\ UNCHANGED <<usable, consumed, entries, intent, terminal, pc, effect>>

\* is_usable: a write needs READY.
IsUsable(cap) == state[cap] \in (IF cap \in Write THEN {"READY"} ELSE {"READY", "DEGRADED"})

\* broker.revoke, broker.rotate.
Revoke(cap) ==
    /\ Free /\ usable' = usable \ {cap}
    /\ UNCHANGED <<state, consumed, entries, intent, terminal, pc, effect>>

Rotate(cap) ==
    /\ Free /\ usable' = usable \cup {cap}
    /\ UNCHANGED <<state, consumed, entries, intent, terminal, pc, effect>>

-----------------------------------------------------------------------------
(* invoke                                                                  *)

\* Mutant: the ledger replaces a terminal record it already has.
EndAs_Replace(c, outcome, counted, p) ==
    \/ /\ terminal' = [terminal EXCEPT ![IdOf[c]] =
                          [by |-> c, outcome |-> outcome, counted |-> counted]]
       /\ Goes(c, p)
    \/ UNCHANGED terminal /\ Goes(c, "raised")

\* _record of a terminal record, and return as p. The ledger has at most one
\* per request id; if it has one, or the sink is unavailable, invoke raises.
EndAs(c, outcome, counted, p) ==
    \/ /\ terminal[IdOf[c]] = NoTerminal
       /\ terminal' = [terminal EXCEPT ![IdOf[c]] =
                          [by |-> c, outcome |-> outcome, counted |-> counted]]
       /\ Goes(c, p)
    \/ UNCHANGED terminal /\ Goes(c, "raised")

\* _refuse.
Refuse(c) == EndAs(c, "refused", FALSE, "refused")

\* Steps 1 to 6: tool, provider, arguments, scope, policy and approval may
\* refuse whatever the state, and the readiness check does.
Deny(c) ==
    /\ Free /\ pc[c] = "idle"
    /\ Refuse(c)
    /\ UNCHANGED <<state, usable, consumed, entries, intent, effect>>

\* A read goes on to the credential at once.
AdmitRead(c) ==
    /\ Free /\ pc[c] = "idle" /\ ~IsWrite(c) /\ IsUsable(CapOf[c])
    /\ Goes(c, "admitted")
    /\ UNCHANGED <<state, usable, consumed, entries, intent, terminal, effect>>

\* approvals.bind, where an approval is asked for.
Bind(c) ==
    IF CapOf[c] \in NeedsApproval
    THEN /\ ApprovalOf[c] \in Approval \ consumed /\ c \in GrantedTo[ApprovalOf[c]]
         /\ consumed' = consumed \cup {ApprovalOf[c]}
    ELSE UNCHANGED consumed

\* Mutant: lookup comes back empty.
Prior_None(c) == NoCall

\* idempotency.lookup.
Prior(c) == IF KeyOf[c] = NoKey THEN NoCall ELSE entries[KeyOf[c]]

\* Mutant: an intent record for every attempt.
NewIntent_Again(c) == TRUE

\* append refuses a second intent for a request id.
NewIntent(c) == IdOf[c] \notin intent

\* Steps 6 to 8. The approval is consumed before the key is looked at, so a
\* refusal for the key, a failing store, a replay and a failing intent record
\* all cost it.
AdmitWrite(c) ==
    /\ Free /\ pc[c] = "idle" /\ IsWrite(c) /\ IsUsable(CapOf[c])
    /\ Bind(c)
    /\ \/ Refuse(c) /\ UNCHANGED intent
       \/ /\ CapOf[c] \in KeyRequired => KeyOf[c] # NoKey
          /\ Prior(c) # NoCall
          /\ EndAs(c, "success", FALSE, "replayed")
          /\ UNCHANGED intent
       \/ /\ CapOf[c] \in KeyRequired => KeyOf[c] # NoKey
          /\ Prior(c) = NoCall
          /\ \/ NewIntent(c) /\ intent' = intent \cup {IdOf[c]} /\ Goes(c, "admitted")
             \/ UNCHANGED intent /\ Goes(c, "unaudited")
          /\ UNCHANGED terminal
    /\ UNCHANGED <<state, usable, entries, effect>>

\* Steps 9 and 10: the credential, or a refusal for want of one; a handle may
\* also expire before it is applied. Then the adapter is called.
Resolve(c) ==
    /\ pc[c] = "admitted"
    /\ \/ Refuse(c) /\ UNCHANGED effect
       \/ /\ CapOf[c] \in usable /\ Goes(c, "calling")
          /\ effect' = IF IsWrite(c) THEN [effect EXCEPT ![c] = "sent"] ELSE effect
          /\ UNCHANGED terminal
    /\ UNCHANGED <<state, usable, consumed, entries, intent>>

\* The adapter returns a result that fits. After the terminal record the first
\* success of a key is kept; the store may be unavailable.
Succeed(c) ==
    /\ pc[c] = "calling" /\ (IsWrite(c) => effect[c] = "done")
    /\ \/ /\ EndAs(c, "success", TRUE, "success")
          /\ entries' = IF pc'[c] = "success" /\ IsWrite(c) /\ KeyOf[c] # NoKey
                           /\ entries[KeyOf[c]] = NoCall
                        THEN [entries EXCEPT ![KeyOf[c]] = c] ELSE entries
       \/ /\ IsWrite(c) /\ KeyOf[c] # NoKey
          /\ EndAs(c, "success", TRUE, "raised")
          /\ UNCHANGED entries
    /\ UNCHANGED <<state, usable, consumed, intent, effect>>

\* The result is too large or of the wrong shape: refused, after the effect.
BadResult(c) ==
    /\ pc[c] = "calling" /\ (IsWrite(c) => effect[c] = "done")
    /\ EndAs(c, "refused", TRUE, "refused")
    /\ UNCHANGED <<state, usable, consumed, entries, intent, effect>>

\* The adapter raises a typed refusal: nothing was done, and nothing is counted.
TypedRefusal(c) ==
    /\ pc[c] = "calling" /\ effect[c] # "done"
    /\ effect' = IF IsWrite(c) THEN [effect EXCEPT ![c] = "never"] ELSE effect
    /\ EndAs(c, "refused", FALSE, "refused")
    /\ UNCHANGED <<state, usable, consumed, entries, intent>>

\* Mutant: a deadline refuses a write like any typed refusal.
LoseTrack_Refused(c) ==
    /\ pc[c] = "calling"
    /\ \/ EndAs(c, "refused", FALSE, "refused")
       \/ IF IsWrite(c) THEN EndAs(c, "unknown", TRUE, "unknown")
          ELSE EndAs(c, "error", TRUE, "error")
    /\ UNCHANGED <<state, usable, consumed, entries, intent, effect>>

\* The deadline passes, which counts no provider call, or the adapter raises
\* anything else, which counts one. A write is UNKNOWN either way.
LoseTrack(c) ==
    /\ pc[c] = "calling"
    /\ \/ IF IsWrite(c) THEN EndAs(c, "unknown", FALSE, "unknown") ELSE Refuse(c)
       \/ IF IsWrite(c) THEN EndAs(c, "unknown", TRUE, "unknown")
          ELSE EndAs(c, "error", TRUE, "error")
    /\ UNCHANGED <<state, usable, consumed, entries, intent, effect>>

-----------------------------------------------------------------------------
(* The environment                                                         *)

\* The provider carries out a write it was sent, or never will.
ProviderActs(c) ==
    /\ effect[c] = "sent"
    /\ \E fate \in {"done", "never"} : effect' = [effect EXCEPT ![c] = fate]
    /\ UNCHANGED <<state, usable, consumed, entries, intent, terminal, pc>>

\* Registry and broker are built again, and a call under way is gone.
Restart ==
    /\ pc' = [c \in Call |-> IF InFlight(c) THEN "dead" ELSE pc[c]]
    /\ state' = [cap \in Capability |-> "CONFIGURED"]
    /\ usable' = Capability
    /\ UNCHANGED <<consumed, entries, intent, terminal, effect>>

Next ==
    \/ \E c \in Call : \/ Deny(c) \/ AdmitRead(c) \/ AdmitWrite(c) \/ Resolve(c)
                       \/ Succeed(c) \/ BadResult(c) \/ TypedRefusal(c) \/ LoseTrack(c)
                       \/ ProviderActs(c)
    \/ \E cap \in Capability : Probe(cap) \/ Revoke(cap) \/ Rotate(cap)
    \/ Restart

Spec == Init /\ [][Next]_vars

-----------------------------------------------------------------------------
(* Properties                                                              *)

Sent(c) == effect[c] # "none"

\* However often a client repeats a request under its id, across refusals,
\* lost answers and restarts, the provider is asked at most once.
OneWritePerRequest ==
    \A c, d \in Call : Sent(c) /\ Sent(d) /\ IdOf[c] = IdOf[d] => c = d

\* An approval lets at most one write through, and none it was not given for.
ApprovalSpentOnce ==
    \A c \in Call : Sent(c) /\ CapOf[c] \in NeedsApproval =>
        /\ c \in GrantedTo[ApprovalOf[c]]
        /\ \A d \in Call : Sent(d) /\ CapOf[d] \in NeedsApproval
                           /\ ApprovalOf[d] = ApprovalOf[c] => d = c

\* A client that is told of an earlier success under its key is told the truth:
\* a write with that key has taken effect.
ReplayIsTrue ==
    \A c \in Call : pc[c] = "replayed" =>
        \E d \in Call \ {c} : KeyOf[d] = KeyOf[c] /\ effect[d] = "done"

\* Outcomes that have a terminal record of their own, with the same outcome class.
OutcomesRecorded ==
    \A c \in Call :
        /\ pc[c] \in Outcome => /\ terminal[IdOf[c]].by = c
                                /\ terminal[IdOf[c]].outcome = pc[c]
        /\ pc[c] = "replayed" => terminal[IdOf[c]].by = c

\* What clients are told is on record, also when request ids are used again: every
\* outcome has a terminal record of its own, except one. The refusal for an intent
\* that could not be recorded (E_AUDIT_UNAVAILABLE) has none, although provider_audit.py
\* counts refusals in; then nothing was sent to the provider, and never will be.
CompleteAudit ==
    OutcomesRecorded /\ \A c \in Call : pc[c] = "unaudited" => ~Sent(c)

\* Once a success is kept under a key, no write with that key is sent again:
\* not after a restart, and not under another request id or approval.
KeptKeyRests ==
    [][\A c \in Call : ~Sent(c) /\ Sent(c)' /\ KeyOf[c] # NoKey
                          => entries[KeyOf[c]] = NoCall]_vars

\* What became of the write a request id stands for.
EffectOf(r) ==
    IF \E c \in Call : IdOf[c] = r /\ effect[c] = "done" THEN "done"
    ELSE IF \E c \in Call : IdOf[c] = r /\ effect[c] = "sent" THEN "open" ELSE "none"

\* The calls of a request id together bring its write about as one careful actor
\* would: never while it may still happen, never again when it has.
Writes == INSTANCE EffectOnce WITH
              Effect <- RequestId, Requires <- [r \in RequestId |-> {}],
              effect <- [r \in RequestId |-> EffectOf(r)]
ImplementsWrites == Writes!EffectSpec

\* The sink alone shows every write that was or may yet be carried out: by an
\* intent without a terminal record, by success or unknown, or by a count of
\* provider calls. For request ids that are used once.
AuditShowsEffect ==
    \A c \in Call :
        /\ effect[c] \in {"sent", "done"} /\ ~InFlight(c)
        /\ \A d \in Call \ {c} : IdOf[d] # IdOf[c]
        => /\ IdOf[c] \in intent
           /\ LET record == terminal[IdOf[c]]
              IN  record = NoTerminal \/ record.outcome \in {"success", "unknown"} \/ record.counted

\* ProviderGateway.invoke: an approval lets one write through, a replay tells of
\* a success that took place, and for ids that were used once the audit sink
\* shows every write that may have taken effect.
GatewayAccounted ==
    /\ GatewayTypeOK
    /\ ApprovalSpentOnce /\ ReplayIsTrue /\ AuditShowsEffect

\* Between two restarts a capability that a probe has lowered is not raised.
ProbesOnlyDemote ==
    [][\A cap \in Capability :
          Rank[state'[cap]] > Rank[state[cap]] => state[cap] = "CONFIGURED" \/ Restart]_vars

\* docs/v2/phase7/test-matrix.md, P7-07: a replayed idempotency key has no
\* second side effect.
KeyPerformsOnce ==
    \A c, d \in Call :
        effect[c] = "done" /\ effect[d] = "done" /\ KeyOf[c] = KeyOf[d] /\ KeyOf[c] # NoKey
            => c = d
=============================================================================
