------------------------------ MODULE RunTracker ------------------------------
(***************************************************************************)
(* RunStateTracker (resilience/events.py): observations of one run arrive  *)
(* from the event stream and from polling, late, twice and out of order,   *)
(* some with a sequence number and some without.                           *)
(***************************************************************************)
EXTENDS Integers

CONSTANT MaxSequence    \* bound on sequence numbers

ASSUME SequenceAssumption == MaxSequence \in Nat

TrackedTerminal == {"completed", "failed", "cancelled"}
TrackedStatus == {"unknown", "queued", "running"} \cup TrackedTerminal
Unnumbered == -2        \* sequence=None

VARIABLES
    track,      \* _RunState of the run: status, sequence, terminal_applied
    outcome     \* what the last observe returned or raised

trackVars == <<track, outcome>>

NewTrack == [status |-> "unknown", sequence |-> -1, final |-> FALSE]

TrackerInit == track = NewTrack /\ outcome = "none"

\* _ORDER.
Rank(s) ==
    CASE s = "unknown" -> 0 [] s = "queued" -> 1 [] s = "running" -> 2 [] OTHER -> 3

NextSequence(n) == IF n = Unnumbered THEN track.sequence + 1 ELSE n
Later(n) == IF n > track.sequence THEN n ELSE track.sequence

\* Only the sequence number of an observation counts, not the order of states.
Fresh_BySequence(s, n) ==
    /\ ~track.final
    /\ n # Unnumbered => n > track.sequence
    /\ s = track.status => s \in TrackedTerminal

\* The observation tells something new: RunStateTracker.observe up to "applied".
Fresh(s, n) ==
    /\ ~track.final
    /\ n # Unnumbered => n > track.sequence
    /\ Rank(s) >= Rank(track.status)
    /\ s = track.status => s \in TrackedTerminal

\* A repeated status that is not terminal moves the sequence on.
Repeats(s, n) ==
    /\ ~track.final /\ (n # Unnumbered => n > track.sequence)
    /\ s = track.status /\ s \notin TrackedTerminal

Observe(s, n) ==
    /\ NextSequence(n) <= MaxSequence
    /\ track' =
        CASE Fresh(s, n) -> [status |-> s, sequence |-> Later(NextSequence(n)),
                             final |-> s \in TrackedTerminal]
          [] Repeats(s, n) -> [track EXCEPT !.sequence = Later(NextSequence(n))]
          [] OTHER -> track
    /\ outcome' =
        CASE Fresh(s, n) -> "applied"
          [] track.final /\ s # track.status /\ s \in TrackedTerminal -> "conflict"
          [] OTHER -> "ignored"

\* forget: the run is released.
Forget == track # NewTrack /\ track' = NewTrack /\ outcome' = "none"

TrackerNext ==
    Forget \/ \E s \in TrackedStatus, n \in (0..MaxSequence) \cup {Unnumbered} : Observe(s, n)

TrackerSpec == TrackerInit /\ [][TrackerNext]_trackVars

-----------------------------------------------------------------------------
(* Properties                                                              *)

\* Until it is forgotten a run only moves forward, and its end is applied once:
\* however the observations are ordered, a terminal status is never replaced,
\* neither by an earlier status nor by another end (resilience/events.py:
\* "terminal states never regress", "no double completion").
TrackMovesForward ==
    [][track' # NewTrack =>
        /\ Rank(track'.status) >= Rank(track.status)
        /\ track'.sequence >= track.sequence
        /\ track.status \in TrackedTerminal =>
                track' = track /\ outcome' # "applied"]_trackVars
=============================================================================
