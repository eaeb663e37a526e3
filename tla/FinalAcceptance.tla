-------------------------- MODULE FinalAcceptance --------------------------
(***************************************************************************)
(* The out-of-band acceptance: the runner measures the real database,      *)
(* starts the launcher of the connected run and measures again             *)
(* (scripts/v2_phase2_final_out_of_band_acceptance.py); the launcher       *)
(* prepares a disposable Hermes, runs the collector and its gate, and      *)
(* hands over a witness of the shadow's activity on its way out            *)
(* (scripts/v2_phase2_connected_jarvas.sh, v2/shadow_witness.py). What     *)
(* remains are files, from which the final evidence is built and judged    *)
(* later (scripts/build_v2_phase2_final_evidence.py, v2/final_gate.py).    *)
(*                                                                         *)
(* Every document carries the number of the run that made it, which no     *)
(* code reads: the properties do. Launchers run one at a time, with or     *)
(* without a runner; any of them may be killed, and the collector of a     *)
(* launcher that timed out goes on alone.                                  *)
(***************************************************************************)
EXTENDS StateIntegrity, ToolProvenance

CONSTANTS
    Commit,     \* commits of the checkout, as numbers
    Fact,       \* what else the evidence reports: "good" and the bad cases
    None        \* no document, no process

VARIABLES
    runner,     \* the runner: None or its locals
    launcher,   \* the launcher: None or its locals
    shadow,     \* the disposable home: None or [run, sessions, usage]
    paper,      \* the files, by name
    tip,        \* the commit the checkout is at
    clock,      \* stamps given so far
    begun       \* launcher runs begun

finalVars == <<runner, launcher, shadow, paper, tip, clock, begun>>
acceptanceVars == <<stateVars, collectorVars, finalVars>>

Document == {"baseline", "witness", "isolation", "evidence", "gate", "marker"}

AcceptanceInit ==
    /\ StateInit /\ CollectorInit
    /\ runner = None /\ launcher = None /\ shadow = None
    /\ paper = [d \in Document |-> None]
    /\ tip = 1 /\ clock = 0 /\ begun = 0

-----------------------------------------------------------------------------
(* The launcher                                                            *)

\* read_shadow_counts: a home without a database counts nothing.
ShadowCounts ==
    [sessions |-> IF shadow = None THEN 0 ELSE shadow.sessions,
     usage |-> IF shadow = None THEN 0 ELSE shadow.usage]

\* The commit is pinned before anything else; a witness is only asked for by
\* the runner.
Begin(witnessed) ==
    /\ launcher = None
    /\ begun + 1 \in Run
    /\ begun' = begun + 1
    /\ launcher' = [pc |-> "pinned", run |-> begun + 1, commit |-> tip,
                    enabled |-> witnessed, rc |-> 0]

Alone ==
    /\ runner = None
    /\ Begin(FALSE)
    /\ UNCHANGED <<runner, shadow, paper, tip, clock>>

Step(from, to) ==
    /\ launcher # None
    /\ launcher.pc = from
    /\ launcher' = [launcher EXCEPT !.pc = to]

\* Clone, installation, interpreter and token; the home, anew; and what its
\* database counts before anything ran, when a witness will be asked for.
PrepareHome ==
    /\ Step("pinned", "prepared")
    /\ shadow' = [run |-> launcher.run, sessions |-> 0, usage |-> 0]
    /\ paper' = IF launcher.enabled THEN [paper EXCEPT !["baseline"] = [sessions |-> 0, usage |-> 0]]
                ELSE paper
    /\ UNCHANGED <<runner, tip, clock, begun>>

\* The shadow answers its probes, and what they show is written.
ProbeShadow ==
    /\ Step("prepared", "probed")
    /\ paper' = [paper EXCEPT !["isolation"] =
                   [run |-> launcher.run, commit |-> launcher.commit]]
    /\ UNCHANGED <<runner, shadow, tip, clock, begun>>

\* The evidence and the verdict of before go, then the collector starts.
Collect ==
    /\ Step("probed", "collecting")
    /\ Start(launcher.run, launcher.commit, clock + 1)
    /\ clock' = clock + 1
    /\ paper' = [paper EXCEPT !["evidence"] = None, !["gate"] = None]
    /\ UNCHANGED <<runner, shadow, tip, begun>>

\* The report is written when the last sample has counted. Health, tools and
\* redirects are only reported: the validator judges them.
Evidence(r, f) ==
    [run |-> r, commit |-> collector[r].commit, started |-> collector[r].started,
     finished |-> clock + 1, samples |-> collector[r].samples,
     fact |-> f]

Report(r) ==
    /\ collector[r].pc = "complete"
    /\ collector' = [collector EXCEPT ![r] = [Idle EXCEPT !.pc = "done"]]
    /\ clock' = clock + 1
    /\ \E f \in Fact : paper' = [paper EXCEPT !["evidence"] = Evidence(r, f)]
    /\ UNCHANGED <<world, changes>>

Collected ==
    /\ Step("collecting", "collected")
    /\ Report(launcher.run)
    /\ UNCHANGED <<runner, shadow, tip, begun>>

\* validate_evidence: what the collector only reports (the health and the
\* tools of the bridge, redirects of the direct reads), and the topology.
RuntimeHolds(e) == e.fact # "unhealthy"
SamplesHold(e) ==
    /\ e.fact # "redirected"
    /\ Len(e.samples) = Len(SamplePlan)
    /\ \A i \in DOMAIN SamplePlan : e.samples[i].item = SamplePlan[i]
EvidenceHolds(e) == RuntimeHolds(e) /\ SamplesHold(e)

\* validate_gate: the isolation of the shadow too, bound to the commit.
IsolationHolds(commit) ==
    paper["isolation"] # None /\ paper["isolation"].commit = commit
GateHolds ==
    /\ paper["evidence"] # None
    /\ EvidenceHolds(paper["evidence"])
    /\ IsolationHolds(paper["evidence"].commit)

Judge ==
    /\ launcher # None
    /\ launcher.pc = "collected"
    /\ launcher' = [launcher EXCEPT !.pc = "leaving", !.rc = IF GateHolds THEN 0 ELSE 2]
    /\ paper' = [paper EXCEPT !["gate"] =
          [accepted |-> GateHolds,
           run |-> IF paper["evidence"] = None THEN 0 ELSE paper["evidence"].run,
           commit |-> IF paper["evidence"] = None THEN 0 ELSE paper["evidence"].commit,
           isolated |-> IF paper["isolation"] = None THEN 0 ELSE paper["isolation"].run]]
    /\ UNCHANGED <<runner, shadow, tip, clock, begun>>

\* Every step may block, the collector's failure included.
Blocked ==
    /\ launcher # None
    /\ launcher.pc \notin {"collected", "leaving", "left"}
    /\ launcher.pc = "collecting" => collector[launcher.run].pc = "failed"
    /\ launcher' = [launcher EXCEPT !.rc = 2,
         !.pc = "leaving", !.enabled = @ /\ launcher.pc # "pinned"]
    /\ UNCHANGED <<runner, shadow, paper, tip, clock, begun>>

\* The trap: the witness compares the counts with the baseline, if there is
\* one; then the home and the baseline are removed.
Witness ==
    LET before == IF paper["baseline"] = None THEN [sessions |-> 0, usage |-> 0] ELSE paper["baseline"]
    IN  [run |-> launcher.run, commit |-> launcher.commit,
         sessions |-> ShadowCounts.sessions - before.sessions, usage |-> ShadowCounts.usage - before.usage]
Trap ==
    /\ \E emitted \in BOOLEAN :
         /\ emitted => launcher.enabled
         /\ paper' = [paper EXCEPT !["baseline"] = None,
                                   !["witness"] = IF emitted THEN Witness ELSE @]
    /\ shadow' = None
Cleanup ==
    /\ launcher # None
    /\ launcher.pc = "leaving"
    /\ Trap
    /\ launcher' = IF runner = None THEN None ELSE [launcher EXCEPT !.pc = "left"]
    /\ UNCHANGED <<runner, tip, clock, begun>>

\* A prompt of the collector is a session of the shadow it was started with;
\* the sessions of a home that was replaced are not found.
Sample(r, answer) ==
    LET here == shadow # None /\ shadow.run = r
        a == Seen(answer)
    IN  /\ ShadowSide(r, a, here)
        /\ shadow' = IF ~here THEN shadow
                     ELSE [shadow EXCEPT !.sessions = @ + 1,
                                         !.usage = @ + IF a.session.usage THEN 1 ELSE 0]
        /\ UNCHANGED <<runner, launcher, paper, tip, clock, begun>>

-----------------------------------------------------------------------------
(* The runner                                                              *)

\* The marker is replaced as a whole.
WriteMarker(m) == [paper EXCEPT !["marker"] = m]

\* _fail: the marker says so, if it can be written.
Fail ==
    /\ paper' \in {paper, WriteMarker([state |-> "FAILED"])}
    /\ runner' = None
    /\ launcher' = None

\* Permission, the word of the operator on background writers, the launcher
\* file and the guard; then the first look at the file.
Execute ==
    /\ runner = None /\ launcher = None
    /\ begun + 1 \in Run
    /\ \/ Fail
       \/ /\ ControlActivity = "QUIET"
          /\ runner' = [pc |-> "before", run |-> begun + 1, commit |-> tip, stat |-> real.stat,
                        snap |-> None, rows |-> {}, pre |-> 0, witness |-> None]
          /\ UNCHANGED <<launcher, paper>>
    /\ UNCHANGED <<shadow, tip, clock, begun>>

\* The witness of an earlier run is removed before the launcher starts.
Handoff == [paper EXCEPT !["witness"] = None]

\* The tables are read, the stamp is taken and the launcher is started.
Launch ==
    /\ runner # None
    /\ runner.pc = "before"
    /\ runner' = [runner EXCEPT !.pc = "waiting", !.snap = StateSnapshot(real, runner.stat, runner.run),
                                !.rows = real.rows, !.pre = clock + 1]
    /\ clock' = clock + 1
    /\ Begin(TRUE)
    /\ paper' = Handoff
    /\ UNCHANGED <<shadow, tip>>

WitnessHolds(w) ==
    /\ w # None
    /\ w.commit = runner.commit
    /\ w.sessions > 0 /\ w.usage > 0

\* consume_witness removes the file whether or not it holds; then the file of
\* the database is looked at again.
Consume ==
    /\ runner # None /\ launcher # None
    /\ runner.pc = "waiting" /\ launcher.pc = "left"
    /\ runner' = [runner EXCEPT !.pc = "after", !.stat = real.stat,
         !.witness = IF WitnessHolds(paper["witness"]) THEN paper["witness"] ELSE None]
    /\ paper' = [paper EXCEPT !["witness"] = None]
    /\ UNCHANGED <<launcher, shadow, tip, clock, begun>>

Passed ==
    /\ launcher.rc = 0
    /\ Unchanged(runner.snap, StateSnapshot(real, runner.stat, runner.run))
    /\ runner.witness # None
    /\ runner.witness.sessions + runner.witness.usage > 0

\* build_state_integrity_document, in a COMPLETED marker.
IntegrityDocument ==
    [state |-> "COMPLETED", commit |-> runner.commit, pre |-> runner.pre, post |-> clock + 1,
     row_delta |-> TableFingerprint(real).row_count - runner.snap.table.row_count,
     shadow_delta |-> runner.witness.sessions + runner.witness.usage,
     run |-> launcher.run, witness |-> runner.witness.run, kept |-> runner.rows = real.rows]

Conclude ==
    /\ runner # None
    /\ runner.pc = "after"
    /\ clock' = clock + 1
    /\ \/ Fail
       \/ /\ Passed
          /\ paper' = WriteMarker(IntegrityDocument)
          /\ runner' = None
          /\ launcher' = None
    /\ UNCHANGED <<shadow, tip, begun>>

\* systemd ends the unit at RuntimeMaxSec: everything in it dies, and the
\* launcher has the time for its trap or not.
UnitKilled ==
    /\ runner # None
    /\ runner' = None /\ launcher' = None
    /\ collector' = [r \in Run |->
          IF launcher # None /\ r = launcher.run /\ collector[r].pc \notin {"off", "done"}
          THEN [Idle EXCEPT !.pc = "failed"] ELSE collector[r]]
    /\ (launcher # None /\ Trap) \/ UNCHANGED <<shadow, paper>>
    /\ UNCHANGED <<world, changes, tip, clock, begun>>

\* The inner timeout, or a kill of a launcher on its own: the trap does not
\* run, the collector goes on, and the runner ends without a marker.
LauncherKilled ==
    /\ launcher # None
    /\ launcher.pc # "left"
    /\ launcher' = None /\ runner' = None
    /\ UNCHANGED <<shadow, paper, tip, clock, begun>>

\* A collector without a launcher finishes and writes to the same file.
OrphanReports ==
    /\ \E r \in Run :
         /\ launcher # None => launcher.run # r
         /\ collector[r].pc = "complete"
         /\ Report(r)
    /\ UNCHANGED <<runner, launcher, shadow, tip, begun>>

TipMoves ==
    /\ tip + 1 \in Commit
    /\ launcher = None
    /\ tip' = tip + 1
    /\ UNCHANGED <<runner, launcher, shadow, paper, clock, begun>>

-----------------------------------------------------------------------------
(* The final evidence                                                      *)

\* build_final_evidence: state integrity comes from a COMPLETED marker only.
FinalEvidence ==
    [evidence |-> paper["evidence"], gate |-> paper["gate"],
     marker |-> IF paper["marker"] # None /\ paper["marker"].state = "COMPLETED"
                THEN paper["marker"] ELSE None]

\* Mutant: the window of the marker and that of the evidence are not compared.
WindowEncloses_NotChecked(f) == TRUE

WindowEncloses(f) ==
    f.marker.pre <= f.evidence.started /\ f.evidence.finished <= f.marker.post

InnerHolds(f) == f.gate # None /\ f.gate.accepted

\* The aggregate and the provenance records speak of the evidence's samples.
ProvenanceHolds(f) ==
    /\ f.evidence # None
    /\ Len(f.evidence.samples) = Len(SamplePlan)
    /\ \A i \in DOMAIN f.evidence.samples : f.evidence.samples[i].calls = 1

StateIntegrityHolds(f) ==
    f.marker # None /\ f.marker.row_delta = 0 /\ f.marker.shadow_delta > 0

CommitsAgree(f) == {f.gate.commit, f.marker.commit} = {f.evidence.commit}

\* validate_final_evidence
FinalHolds(f) ==
    /\ InnerHolds(f) /\ ProvenanceHolds(f) /\ StateIntegrityHolds(f)
    /\ WindowEncloses(f) /\ CommitsAgree(f)

-----------------------------------------------------------------------------

RunnerStep ==
    \/ Execute \/ Launch \/ Consume \/ Conclude
LauncherStep ==
    \/ Alone \/ PrepareHome \/ ProbeShadow \/ Judge
    \/ Blocked \/ Cleanup
Outside == LauncherKilled \/ TipMoves

AcceptanceNext ==
    \/ runner # None /\ StateNext /\ UNCHANGED <<collectorVars, finalVars>>
    \/ (\E r \in Run : collector[r].pc = "shadow") /\ Change /\ UNCHANGED <<stateVars, finalVars>>
    \/ (\E r \in Run : DirectSide(r) \/ Abort(r)) /\ UNCHANGED <<stateVars, finalVars>>
    \/ (\E r \in Run, a \in Answer : Sample(r, a)) /\ UNCHANGED stateVars
    \/ (Collect \/ Collected \/ OrphanReports \/ UnitKilled) /\ UNCHANGED stateVars
    \/ (RunnerStep \/ LauncherStep \/ Outside) /\ UNCHANGED <<stateVars, collectorVars>>

AcceptanceSpec == AcceptanceInit /\ [][AcceptanceNext]_acceptanceVars

-----------------------------------------------------------------------------

\* The documents of an accepted run are of one run: the gate judged this
\* evidence, in a shadow that was probed for it, between the measurements of
\* the runner that started it, and the witness is the one it handed over.
OneRun(f) ==
    /\ f.gate.run = f.evidence.run /\ f.gate.isolated = f.evidence.run
    /\ f.marker.run = f.evidence.run /\ f.marker.witness = f.evidence.run

\* Between the two measurements no row of the real database came or went.
RealKept(f) == f.marker.kept

\* Every sample is the answer of one tool call that returned the same value.
SamplesTrue(f) ==
    \A i \in DOMAIN f.evidence.samples :
        /\ f.evidence.samples[i].calls = 1
        /\ f.evidence.samples[i].returned = {f.evidence.samples[i].digest}

\* validate_final_evidence: at any time, the final evidence built from the
\* files that are there is ACCEPTED only if it is true of what happened,
\* whatever was killed, repeated, left over or written late on the way.
AcceptedIsTrue ==
    LET f == FinalEvidence IN FinalHolds(f) => OneRun(f) /\ RealKept(f) /\ SamplesTrue(f)
=============================================================================
