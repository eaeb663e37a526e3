----------------------------- MODULE Activation -----------------------------
(***************************************************************************)
(* Which V2 lanes a process has: the activation profile read from the      *)
(* environment, its rollback switches (v2/production_profile.py) and the   *)
(* engines that the composition root builds for it (v2/composition.py).    *)
(* A profile is immutable and an engine keeps what it was built with, so   *)
(* what is built before a rollback stays.                                  *)
(***************************************************************************)
EXTENDS Naturals

CONSTANTS
    Budgets, BudgetCeiling,     \* budgets an environment may set; MAX_AGENTIC_TOKEN_BUDGET
    NoProfile

ASSUME BudgetAssumption == Budgets \subseteq Nat /\ BudgetCeiling \in Nat

VARIABLES
    profile,    \* NoProfile, or the flags that are set and the token budget
    refused,    \* from_env, a switch or a builder has raised
    built       \* the engine that was built last, and the profile it was built for

activationVars == <<profile, refused, built>>

Lane == {"DIRECT", "BATCH", "DAG", "RUNBOOK", "INTEGRATIONS", "HYBRID"}
Flag == Lane \cup {"ENABLED"}

ActivationInit == profile = NoProfile /\ refused = FALSE /\ built = NoProfile

IsEnabled(p, c) == "ENABLED" \in p.flags /\ c \in p.flags
AllowsAgenticStep(p) == IsEnabled(p, "HYBRID") /\ p.budget > 0

\* __post_init__: HYBRID is not there without the deterministic lanes.
ProfileHolds(p) ==
    /\ p.budget <= BudgetCeiling
    /\ IsEnabled(p, "HYBRID") => \A c \in {"DIRECT", "BATCH", "DAG", "RUNBOOK"} : IsEnabled(p, c)

\* An unknown name, a value that does not parse and a budget over the ceiling are
\* refused: a misspelt flag is neither on nor quietly off.
FromEnv ==
    /\ profile = NoProfile /\ ~refused
    /\ \E on \in SUBSET Flag, unparsable \in BOOLEAN, unknown \in BOOLEAN, budget \in Budgets :
        LET p == [flags |-> on, budget |-> budget] IN
        IF unknown \/ unparsable \/ ~ProfileHolds(p)
        THEN refused' = TRUE /\ UNCHANGED profile
        ELSE profile' = p /\ UNCHANGED refused
    /\ UNCHANGED built

Disabled == [flags |-> {}, budget |-> 0]

\* Only the lane itself goes.
Without_Alone(p, c) == [p EXCEPT !.flags = @ \ {c}]

Without(p, c) == [p EXCEPT !.flags = @ \ {c, "HYBRID"}]

\* replace() runs __post_init__ again.
Switch(p) ==
    /\ profile # NoProfile
    /\ IF ProfileHolds(p) THEN profile' = p /\ UNCHANGED refused
       ELSE refused' = TRUE /\ UNCHANGED profile
    /\ UNCHANGED built

\* The builders; a runbook engine runs its plans on a DAG engine.
BuildEngine(c) ==
    /\ profile # NoProfile /\ c # "DIRECT"
    /\ IsEnabled(profile, c) /\ (c = "RUNBOOK" => IsEnabled(profile, "DAG"))
    /\ built' = [engine |-> c, profile |-> profile] /\ UNCHANGED <<profile, refused>>

\* hybrid_coordinator with a reasoning step.
BuildAgentic ==
    /\ profile # NoProfile /\ AllowsAgenticStep(profile)
    /\ built' = [engine |-> "agentic", profile |-> profile] /\ UNCHANGED <<profile, refused>>

ActivationNext ==
    \/ FromEnv
    \/ profile # NoProfile /\ \/ Switch(Disabled)
                              \/ \E c \in Lane : Switch(Without(profile, c))
    \/ \E c \in Lane : BuildEngine(c)
    \/ BuildAgentic

-----------------------------------------------------------------------------
(* Properties                                                              *)

\* V2ProductionProfile: a profile that was accepted can always be rolled back, one
\* lane at a time or altogether, without meeting its own refusals; and a hybrid
\* coordinator finds every deterministic lane it may choose enabled, in whatever
\* order lanes were switched off before it was built.
RollbackAlwaysWorks ==
    /\ profile # NoProfile => ~refused
    /\ (built # NoProfile /\ built.engine \in {"HYBRID", "agentic"}) =>
            \A c \in {"DIRECT", "BATCH", "DAG", "RUNBOOK"} : IsEnabled(built.profile, c)
=============================================================================
