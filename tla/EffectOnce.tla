----------------------------- MODULE EffectOnce -----------------------------
(***************************************************************************)
(* What a lane that mutates providers promises of each effect it is asked  *)
(* for, without engines, tokens, checkpoints, intents or retries: it is    *)
(* brought about once, on top of the effects it requires, and what was     *)
(* undone is not brought about again.                                      *)
(***************************************************************************)
CONSTANTS
    Effect,
    Requires        \* the effects that an effect builds on

VARIABLE effect

EffectInit == effect = [x \in Effect |-> "none"]

\* The provider is asked for an effect that is not there, never was undone and
\* is not being brought about, when all it requires is in place.
Attempt(x) ==
    /\ effect[x] = "none"
    /\ \A d \in Requires[x] : effect[d] = "done"
    /\ effect' = [effect EXCEPT ![x] = "open"]

\* The attempt takes effect, or it is certain that it never will.
Settle(x) ==
    /\ effect[x] = "open"
    /\ \E fate \in {"done", "none"} : effect' = [effect EXCEPT ![x] = fate]

Undo(x) ==
    /\ effect[x] = "done"
    /\ effect' = [effect EXCEPT ![x] = "undone"]

EffectNext == \E x \in Effect : Attempt(x) \/ Settle(x) \/ Undo(x)

EffectSpec == EffectInit /\ [][EffectNext]_effect
=============================================================================
