--------------------------- MODULE ManifestSigning ---------------------------
(***************************************************************************)
(* Result manifests and the keys they are signed with: provenance.py over  *)
(* signing.py and secretfiles.py.                                          *)
(*                                                                         *)
(* Secrets are read on demand, so that one call reads a key file several   *)
(* times: to describe it, for the posture, and for the digest itself. An   *)
(* operator may replace either file between any two of these; the settings *)
(* of a process change only with its restart. Calls share nothing but the  *)
(* files, so one at a time is enough.                                      *)
(***************************************************************************)
EXTENDS Naturals

CONSTANTS
    Material, TooShort,     \* key values; those under the minimum length
    NoMaterial,             \* the file is missing or empty
    SigningSettings,        \* environments: strict, the key ids and the window of the previous key
    Malformed, NotSet,      \* a timestamp that does not parse; a variable that is not there
    MaxGrace,               \* MAX_PREVIOUS_GRACE_SECONDS
    MaxToday,               \* bound of the clock
    MaxReplaced,            \* bound on the replacements of key files
    Claim, Forged,      \* what the bridge says of an execution, and what others may write
    NoManifest

ASSUME SigningAssumption ==
    /\ TooShort \subseteq Material /\ NoMaterial \notin Material
    /\ MaxGrace \in Nat /\ MaxToday \in Nat /\ MaxReplaced \in Nat
    /\ Claim \notin Forged /\ \A s \in SigningSettings : s.strict \in BOOLEAN

VARIABLES
    keyFile,        \* the secret files of the current and of the previous key
    setting,        \* the environment of the process
    today,          \* the clock
    session,        \* the call of sign or verify under way, or how the last one ended
    manifest,       \* the newest manifest
    issued,         \* history: what was signed, and with which key
    replaced

signingVars == <<keyFile, setting, today, session, manifest, issued, replaced>>

NoSession == [op |-> "none", at |-> "idle", described |-> FALSE, current |-> NoMaterial,
              active |-> FALSE, retired |-> FALSE, since |-> 0, disturbed |-> FALSE]
AtRest == {"idle", "accepted", "refused"}

SigningInit ==
    /\ keyFile \in [{"current", "previous"} -> Material \cup {NoMaterial}]
    /\ setting \in SigningSettings /\ today = 0
    /\ session = NoSession /\ manifest = NoManifest /\ issued = {} /\ replaced = 0

-----------------------------------------------------------------------------
(* signing_posture                                                         *)

Bounded(s) == s.from \in Nat /\ s.until \in Nat
Unbounded(s) == s.from \notin Nat /\ s.until \notin Nat

CurrentFault(s, current) ==
    IF current = NoMaterial THEN s.strict ELSE current \in TooShort

StampFault(s) == Malformed \in {s.from, s.until}

\* Metadata of a previous key, without one.
MetadataFault(s) == ~Unbounded(s) \/ s.previousId # NotSet

WindowFault(s) ==
    \/ Unbounded(s) /\ s.strict
    \/ ~Unbounded(s) /\ ~Bounded(s)
    \/ Bounded(s) /\ (s.until <= s.from \/ s.until - s.from > MaxGrace)

\* A key that is pending or active needs an identifier; an expired one does not.
PreviousFault(s, current, previous, t) ==
    \/ previous \in TooShort \/ previous = current
    \/ s.currentId # NotSet /\ s.currentId = s.previousId
    \/ WindowFault(s)
    \/ s.strict /\ s.previousId = NotSet /\ t < s.until

\* The deadline still counts.
InWindow_Inclusive(s, t) == Unbounded(s) \/ (s.from <= t /\ t <= s.until)

\* Without a window, which only relaxed modes allow, the key is always active.
InWindow(s, t) == Unbounded(s) \/ (s.from <= t /\ t < s.until)

\* ok and previous_active of the posture.
SigningPosture(s, described, current, previous, t) ==
    LET there == described /\ previous # NoMaterial
        fault == \/ CurrentFault(s, current) \/ StampFault(s)
                 \/ IF there THEN PreviousFault(s, current, previous, t) ELSE MetadataFault(s)
    IN  [ok |-> ~fault, active |-> there /\ ~fault /\ InWindow(s, t)]

-----------------------------------------------------------------------------
(* A call of build_result_manifest or verify_result_manifest               *)

\* describe_secret of the previous key.
Describe(op) ==
    /\ session' = [NoSession EXCEPT !.op = op, !.at = "described",
                                    !.described = keyFile["previous"] # NoMaterial]

BuildManifest ==
    /\ session.at \in AtRest /\ Describe("sign")
    /\ UNCHANGED <<keyFile, setting, today, manifest, issued, replaced>>

VerifyEnds(accepted) ==
    session' = [session EXCEPT !.at = IF accepted THEN "accepted" ELSE "refused"]

\* An unsigned manifest is checked for integrity only and reads no key; one
\* without a signature is refused.
VerifyManifest ==
    /\ session.at \in AtRest /\ manifest # NoManifest
    /\ IF manifest.digest # manifest.says THEN session' = [NoSession EXCEPT !.at = "refused"]
       ELSE IF manifest.status = "unsigned" \/ manifest.key = NoMaterial
       THEN session' = [NoSession EXCEPT !.at =
                IF manifest.status = "unsigned" /\ manifest.key = NoMaterial
                THEN "accepted" ELSE "refused"]
       ELSE Describe("verify")
    /\ UNCHANGED <<keyFile, setting, today, manifest, issued, replaced>>

ReadCurrent ==
    /\ session.at = "described"
    /\ session' = [session EXCEPT !.at = "read", !.current = keyFile["current"]]
    /\ UNCHANGED <<keyFile, setting, today, manifest, issued, replaced>>

\* sign raises SigningConfigError without a good posture, verify answers no.
TakePosture ==
    /\ session.at = "read"
    /\ LET p == SigningPosture(setting, session.described, session.current,
                               keyFile["previous"], today)
       IN  session' = IF ~p.ok THEN [NoSession EXCEPT !.at = "refused"]
                      ELSE [session EXCEPT !.at = "ready", !.active = p.active, !.since = today]
    /\ UNCHANGED <<keyFile, setting, today, manifest, issued, replaced>>

\* The current key is read once more; without one the manifest is unsigned.
Sign ==
    /\ session.op = "sign" /\ session.at = "ready"
    /\ LET k == keyFile["current"] IN
       /\ manifest' = [says |-> Claim, digest |-> Claim, over |-> Claim, key |-> k,
                       status |-> IF k = NoMaterial THEN "unsigned" ELSE "hmac-sha256",
                       excused |-> session.disturbed \/ ~setting.strict]
       /\ issued' = IF k = NoMaterial THEN issued ELSE issued \cup {<<Claim, k>>}
    /\ session' = NoSession
    /\ UNCHANGED <<keyFile, setting, today, replaced>>

\* hmac.compare_digest of the signature and the digest under a key.
Matches(k) == k # NoMaterial /\ manifest.key = k /\ manifest.over = manifest.says

CompareCurrent ==
    /\ session.op = "verify" /\ session.at = "ready"
    /\ \/ Matches(keyFile["current"]) /\ VerifyEnds(TRUE)
       \/ ~Matches(keyFile["current"]) /\ ~session.active /\ VerifyEnds(FALSE)
       \/ /\ ~Matches(keyFile["current"]) /\ session.active
          /\ session' = [session EXCEPT !.at = "previous", !.retired = TRUE]
    /\ UNCHANGED <<keyFile, setting, today, manifest, issued, replaced>>

ComparePrevious ==
    /\ session.at = "previous"
    /\ VerifyEnds(Matches(keyFile["previous"]))
    /\ UNCHANGED <<keyFile, setting, today, manifest, issued, replaced>>

-----------------------------------------------------------------------------
(* external: the operator, the clock, and those who hold a manifest        *)

ReplaceKey(f, k) ==
    /\ keyFile[f] # k /\ keyFile' = [keyFile EXCEPT ![f] = k]
    /\ replaced < MaxReplaced /\ replaced' = replaced + 1
    /\ session' = IF session.at \in AtRest THEN session ELSE [session EXCEPT !.disturbed = TRUE]
    /\ UNCHANGED <<setting, today, manifest, issued>>

RestartWith(s) ==
    /\ setting' = s /\ session' = NoSession
    /\ UNCHANGED <<keyFile, today, manifest, issued, replaced>>

DayPasses ==
    /\ today < MaxToday /\ today' = today + 1
    /\ UNCHANGED <<keyFile, setting, session, manifest, issued, replaced>>

\* A manifest is plain JSON: others may change it, but hold no key.
AlterManifest ==
    /\ manifest # NoManifest /\ session.at \in AtRest /\ session' = NoSession
    /\ \/ \E x \in Forged, rehash \in BOOLEAN :
            manifest' = [manifest EXCEPT !.says = x, !.digest = IF rehash THEN x ELSE @]
       \/ manifest' = [manifest EXCEPT !.status = "unsigned"]
    /\ UNCHANGED <<keyFile, setting, today, issued, replaced>>

SigningNext ==
    \/ BuildManifest \/ VerifyManifest \/ ReadCurrent \/ TakePosture
    \/ Sign \/ CompareCurrent \/ ComparePrevious
    \/ \E f \in {"current", "previous"}, k \in Material \cup {NoMaterial} : ReplaceKey(f, k)
    \/ \E s \in SigningSettings : RestartWith(s)
    \/ DayPasses \/ AlterManifest

SigningSpec == SigningInit /\ [][SigningNext]_signingVars

-----------------------------------------------------------------------------
(* Properties                                                              *)

\* Result manifests and key rotation. A signature is accepted only of what the
\* bridge has signed with that key, whoever changed the manifest and whatever
\* became of the key files during the call; in a strict mode a retired key counts
\* only for calls that began inside its window, which is never longer than the
\* grace (verify); and a strict bridge writes an unsigned manifest only if its
\* key file was replaced while it did so (sign reads the key after the posture).
SignaturesHold ==
    /\ (session.op = "verify" /\ session.at = "accepted") =>
            /\ <<manifest.says, manifest.key>> \in issued
            /\ (session.retired /\ setting.strict) =>
                    /\ setting.from <= session.since /\ session.since < setting.until
                    /\ setting.until <= setting.from + MaxGrace
    /\ (manifest # NoManifest /\ manifest.key = NoMaterial) => manifest.excused
=============================================================================
