--------------------------- MODULE ToolProvenance ---------------------------
(***************************************************************************)
(* The collector of an acceptance run                                      *)
(* (scripts/v2_phase2_direct_read_acceptance.py): every item of the plan   *)
(* is read directly and asked of the shadow agent, and the sample counts   *)
(* only if the agent's answer, the direct read and the one tool result in  *)
(* the agent's session agree (v2/tool_provenance.py).                      *)
(*                                                                         *)
(* A session is [calls, results, usage]: the tool calls of its assistant   *)
(* rows, the tool rows in order, and whether its usage was accounted. A    *)
(* value of GitHub stands for its normalised digest.                       *)
(***************************************************************************)
EXTENDS Naturals, Sequences, FiniteSets, SequencesExt

CONSTANTS
    SamplePlan,     \* the sequence of items: [tool, args]
    Answer,         \* what the agent may answer and do: [form, session]
    Run,            \* numbers of launcher runs
    MaxChanges,     \* bound: changes of what is read
    NoValue

\* What a read of GitHub may return. The plan has a fixed number of items.
GitHubValue == {"v0", "v1"}

ASSUME SamplesAssumption ==
    /\ SamplePlan \in Seq(ToSet(SamplePlan)) /\ SamplePlan # << >>
    /\ NoValue \notin GitHubValue
    /\ Run \subseteq Nat

VARIABLES
    collector,      \* [Run -> state of the collector that run started]
    world,          \* what a read of GitHub returns now
    changes

collectorVars == <<collector, world, changes>>

Authorized ==
    {"github_get_checks", "github_get_issue", "github_get_pr", "github_get_repo", "github_search"}

\* An answer as it is found: "now" is what GitHub returns to the agent.
Seen(answer) ==
    LET At(v) == IF v = "now" THEN world ELSE v
        Row(row) == [id |-> row.id, name |-> row.name, envelope |-> row.envelope,
                     value |-> At(row.value), mine |-> row.mine]
        s == answer.session
    IN  [form |-> answer.form, value |-> At(answer.value), session |->
            [calls |-> s.calls, results |-> [i \in DOMAIN s.results |-> Row(s.results[i])],
             usage |-> s.usage]]

-----------------------------------------------------------------------------
(* collect_tool_provenance                                                 *)

\* The rows that can be the result of the call: those of its id, when both
\* sides have one, otherwise those of the tool's name, when there is one.
BelongsTo(row, call) ==
    IF call.id # "none" /\ row.id # "none" THEN row.id = call.id
    ELSE row.name # "none" => row.name = call.tool

\* Hermes frames a result in an envelope that names its tool; only a complete
\* envelope of this call's tool is opened.
Unwrap(row, call) ==
    IF row.envelope \in {"none", call.tool} THEN row.value ELSE NoValue

\* The first of these rows is taken.
ResultOf(session, call) ==
    LET rows == {i \in DOMAIN session.results : BelongsTo(session.results[i], call)}
    IN  IF rows = {} THEN NoValue ELSE Unwrap(session.results[Min(rows)], call)

\* What Hermes keeps of a session: in one with a single call, the first row that can
\* be its result is what the tool returned, and the tool returned nothing else.
ASSUME AnswersAssumption ==
    \A a \in Answer : LET s == a.session IN
        /\ s.results \in Seq(ToSet(s.results))
        /\ Len(s.calls) = 1 => \A j \in DOMAIN s.results :
            (/\ BelongsTo(s.results[j], s.calls[1])
             /\ \A i \in 1 .. j - 1 : ~BelongsTo(s.results[i], s.calls[1]))
            => \A i \in DOMAIN s.results : s.results[i].mine <=> i = j

\* The one call of the session: any call outside the five reads blocks, and
\* so do none and several.
Attributable(session, item) ==
    /\ \A i \in DOMAIN session.calls : session.calls[i].tool \in Authorized
    /\ Len(session.calls) = 1
    /\ session.calls[1].tool = item.tool
    /\ session.calls[1].args = item.args

ProvenancePass(session, item, digest) ==
    /\ Attributable(session, item)
    /\ ResultOf(session, session.calls[1]) = digest

-----------------------------------------------------------------------------
(* collect                                                                 *)

Idle == [pc |-> "off", commit |-> 0, started |-> 0,
         samples |-> << >>, direct |-> NoValue]

CollectorInit ==
    /\ collector = [r \in Run |-> Idle]
    /\ world = "v0"
    /\ changes = 0

Item(r) == SamplePlan[Len(collector[r].samples) + 1]

\* Preconditions, attestation and the stamp of the start.
Start(r, commit, stamp) ==
    /\ collector[r].pc = "off"
    /\ collector' = [collector EXCEPT ![r] =
            [Idle EXCEPT !.pc = "direct", !.commit = commit, !.started = stamp]]
    /\ UNCHANGED <<world, changes>>

\* One call of the provider; a fallback, a failure or a second call aborts.
DirectSide(r) ==
    /\ collector[r].pc = "direct"
    /\ collector' = [collector EXCEPT ![r].pc = "shadow", ![r].direct = world]
    /\ UNCHANGED <<world, changes>>

\* The answer must be one JSON object.
Parsed(answer) == answer.form = "object"

\* The usage of the session must be found in the database of the shadow.
Accounted(answer, here) == here /\ answer.session.usage

\* The digests must be equal before provenance is looked at.
Counts(r, answer, here) ==
    /\ Parsed(answer)
    /\ Accounted(answer, here)
    /\ answer.value = collector[r].direct
    /\ ProvenancePass(answer.session, Item(r), collector[r].direct)

\* What the tool really returned to the agent in this session.
Returned(session) ==
    {session.results[i].value : i \in {j \in DOMAIN session.results : session.results[j].mine}}

\* One prompt: a sample, or the end of the collection.
ShadowSide(r, answer, here) ==
    /\ collector[r].pc = "shadow"
    /\ LET samples == Append(collector[r].samples,
             [item |-> Item(r), digest |-> collector[r].direct,
              calls |-> Len(answer.session.calls), returned |-> Returned(answer.session)])
       IN  \/ /\ Counts(r, answer, here)
              /\ collector' = [collector EXCEPT ![r].samples = samples, ![r].direct = NoValue,
                   ![r].pc = IF Len(samples) = Len(SamplePlan) THEN "complete" ELSE "direct"]
           \/ /\ ~Counts(r, answer, here)
              /\ collector' = [collector EXCEPT ![r] = [Idle EXCEPT !.pc = "failed"]]
    /\ UNCHANGED <<world, changes>>

\* Any other failure on the way aborts too, without evidence.
Abort(r) ==
    /\ collector[r].pc \in {"direct", "shadow"}
    /\ collector' = [collector EXCEPT ![r] = [Idle EXCEPT !.pc = "failed"]]
    /\ UNCHANGED <<world, changes>>

\* Somebody else changes what is read.
Change ==
    /\ changes < MaxChanges
    /\ changes' = changes + 1
    /\ world' = "v1"
    /\ UNCHANGED collector

=============================================================================
