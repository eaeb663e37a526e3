-------------------------- MODULE GitHubCredentials --------------------------
(***************************************************************************)
(* GitHub material at rest and in use: minting an installation token and   *)
(* its attestation (v2/github_app_mint.py), reading secret files           *)
(* (v2/github_secret_provider.py), attesting the read credential           *)
(* (v2/github_attestation.py) and handing out write material               *)
(* (v2/github_write_credentials.py), while an operator changes the files.  *)
(*                                                                         *)
(* A token is what it can do: its class, repositories and permissions.     *)
(***************************************************************************)
EXTENDS FiniteSets

CONSTANTS
    Repo,               \* repositories in the allow-list of the providers
    Foreign,            \* a repository outside it
    Public,             \* the repositories any token can read
    ProviderType,       \* provider_type of the read and of the write provider
    Intended,           \* the intended permission map of the write capability
    Granted,            \* the attested map the broker was built with, or NotProbed
    NotProbed,
    PolicyAllows,       \* policy_allows of the write capability
    HandMade,           \* secret file states an operator can leave behind
    Declarations        \* attestation documents an operator can write

\* What lstat can find at a path.
ASSUME FilesAssumption == \A f \in HandMade : f.kind \in {"regular", "symlink", "gone"}

\* GitHubProviderType: GITHUB_APP and FINE_GRAINED_TOKEN
ProviderTypes == {"app", "fine"}
ASSUME ProviderTypeAssumption == ProviderType \in ProviderTypes

VARIABLES
    secret,     \* the secret file of the read and of the write provider
    document,   \* the attestation document
    mint,       \* where mint_installation_token is, and what it holds
    attester,   \* where attest_provider is, and what it holds
    caller,     \* where WriteCapabilityBroker.authorize is
    handed      \* write material that was handed out, and for which repository

credentialVars == <<secret, document, mint, attester, caller, handed>>

NoToken == [class |-> "none", repos |-> {}, perms |-> "none"]
AppToken(r) == [class |-> "app", repos |-> {r}, perms |-> "exact"]
Written(t) == [env |-> "file", kind |-> "regular", open |-> FALSE, body |-> t]
Unset == [env |-> "unset", kind |-> "gone", open |-> FALSE, body |-> NoToken]

\* What the mint writes beside the token.
MintDocument(r) ==
    [closed |-> TRUE, type |-> "app", perms |-> "exact", unexpected |-> {}, scopes |-> {r},
     confirmed |-> TRUE, source |-> "installation_token_mint_response", zone |-> TRUE]

Idle == [at |-> "none", repo |-> Foreign, token |-> NoToken]
NotAttesting ==
    [at |-> "none", type |-> "app", doc |-> MintDocument(Foreign), token |-> NoToken, repos |-> {}]

CredentialTypeOK ==
    /\ DOMAIN secret = {"read", "write"}
    /\ mint.at \in {"none", "found", "minted", "half"}
    /\ attester.at \in {"none", "declared", "resolved", "passed", "failed"}
    /\ caller.at \in {"none", "ready"}

CredentialInit ==
    /\ secret = [s \in {"read", "write"} |-> Unset]
    /\ document = MintDocument(Foreign) /\ mint = Idle /\ attester = NotAttesting
    /\ caller = [at |-> "none", repo |-> Foreign] /\ handed = {}

-----------------------------------------------------------------------------
(* The file providers                                                      *)

\* _read_fd_validated and _read_material: one descriptor, checked, then read.
\* The prefix of the material gives its class; nothing else of it is looked at.
ReadStatus(f, type) ==
    IF f.env = "inline" THEN "ENV_MATERIAL_REJECTED"
    ELSE IF f.env = "unset" THEN "NOT_CONFIGURED"
    ELSE IF f.kind = "symlink" THEN "FILE_NOT_REGULAR"
    ELSE IF f.kind = "gone" THEN "FILE_UNREADABLE"
    ELSE IF f.open THEN "FILE_PERMISSIONS_TOO_OPEN"
    ELSE IF f.body.class = "garbled" THEN "MATERIAL_MALFORMED"
    ELSE IF f.body.class = "none" THEN "FILE_EMPTY"
    ELSE IF f.body.class = "classic" THEN "CLASSIC_PAT_REJECTED"
    ELSE IF f.body.class # type THEN "PROVIDER_TYPE_MISMATCH"
    ELSE "READY"

\* FileGitHubAuthorizationProvider.resolve and FileWriteMaterialProvider.resolve
Resolves(f, type, r) == r \in Repo /\ ReadStatus(f, type) = "READY"

\* capability_state_for and _DENIED_STATUSES
StateFor(status) ==
    IF status = "READY" THEN "READY"
    ELSE IF status \in {"CLASSIC_PAT_REJECTED", "ENV_MATERIAL_REJECTED",
                        "PROVIDER_TYPE_MISMATCH", "FILE_PERMISSIONS_TOO_OPEN"}
    THEN "DENIED" ELSE "UNAVAILABLE"

\* exact_permission_failure: the verdict order is fixed, a superset fails.
PermissionFailure(granted) ==
    IF granted = NotProbed THEN "NOT_READY"
    ELSE IF "administration" \in DOMAIN granted THEN "ADMINISTRATION_PRESENT"
    ELSE IF ~(DOMAIN granted \subseteq DOMAIN Intended) THEN "SUPERSET"
    ELSE IF granted # Intended THEN "MISMATCH" ELSE "none"

\* WriteCapabilityBroker.readiness
Readiness(f) ==
    IF ReadStatus(f, ProviderType) # "READY" THEN StateFor(ReadStatus(f, ProviderType))
    ELSE IF PermissionFailure(Granted) # "none"
    THEN IF Granted = NotProbed THEN "UNAVAILABLE" ELSE "DENIED"
    ELSE IF PolicyAllows THEN "READY" ELSE "HEALTHY"

\* authorize: readiness first, then the provider reads the file again.
AuthorizeWrite(r) ==
    /\ caller.at = "none" /\ Readiness(secret["write"]) = "READY"
    /\ caller' = [at |-> "ready", repo |-> r]
    /\ UNCHANGED <<secret, document, mint, attester, handed>>

HandOut ==
    /\ caller.at = "ready"
    /\ caller' = [caller EXCEPT !.at = "none"]
    /\ handed' = IF Resolves(secret["write"], ProviderType, caller.repo)
                 THEN {[file |-> secret["write"], repo |-> caller.repo]} ELSE handed
    /\ UNCHANGED <<secret, document, mint, attester>>

-----------------------------------------------------------------------------
(* mint_installation_token                                                 *)

\* The installation is found for the repository with the exact permissions and
\* an exact selection; every other answer ends the mint before it wrote.
Discover(r) ==
    /\ mint.at = "none"
    /\ mint' = [at |-> "found", repo |-> r, token |-> NoToken]
    /\ UNCHANGED <<secret, document, attester, caller, handed>>

\* external: what GitHub may mint; the answer is checked before it is written.
MintToken(t) ==
    /\ mint.at = "found"
    /\ mint' = IF t = AppToken(mint.repo) THEN [mint EXCEPT !.at = "minted", !.token = t]
               ELSE Idle
    /\ UNCHANGED <<secret, document, attester, caller, handed>>

\* _atomic_write of the token, then of the attestation.
WriteToken ==
    /\ mint.at = "minted"
    /\ secret' = [secret EXCEPT !["read"] = Written(mint.token)]
    /\ mint' = [mint EXCEPT !.at = "half"]
    /\ UNCHANGED <<document, attester, caller, handed>>

WriteAttestation ==
    /\ mint.at = "half"
    /\ document' = MintDocument(mint.repo) /\ mint' = Idle
    /\ UNCHANGED <<secret, attester, caller, handed>>

\* The process dies, or a write fails: what was written stays.
MintFails ==
    /\ mint.at # "none" /\ mint' = Idle
    /\ UNCHANGED <<secret, document, attester, caller, handed>>

-----------------------------------------------------------------------------
(* Attestation                                                             *)

\* load_attestation_input: a closed schema, confirmed from an allowed source.
ValidDeclaration(d) ==
    /\ d.closed /\ d.type \in {"app", "fine"} /\ d.perms # "none" /\ d.scopes # {}
    /\ d.confirmed /\ d.zone
    /\ d.source \in (IF d.type = "app"
                     THEN {"github_app_settings_ui", "installation_token_mint_response"}
                     ELSE {"github_settings_ui"})

\* The attester runs for a provider of its own type and for repositories R.
LoadAttestation(R, type) ==
    /\ attester.at \in {"none", "passed", "failed"} /\ R # {}
    /\ attester' = IF ValidDeclaration(document)
                   THEN [at |-> "declared", type |-> type, doc |-> document,
                         token |-> NoToken, repos |-> R]
                   ELSE [NotAttesting EXCEPT !.at = "failed"]
    /\ UNCHANGED <<secret, document, mint, caller, handed>>

\* The declaration against the configuration, then one read of the material.
CrossCheck(d, R, type) ==
    d.type = type /\ d.scopes = R /\ d.perms = "exact" /\ d.unexpected = {}

ResolveMaterial ==
    /\ attester.at = "declared"
    /\ attester' =
        IF /\ CrossCheck(attester.doc, attester.repos, attester.type)
           /\ \E r \in attester.repos : Resolves(secret["read"], attester.type, r)
        THEN [attester EXCEPT !.at = "resolved", !.token = secret["read"].body]
        ELSE [attester EXCEPT !.at = "failed"]
    /\ UNCHANGED <<secret, document, mint, caller, handed>>

\* external: what GitHub lets a token read.
ReadableBy(token) == token.repos \cup Public

\* The repositories of the installation are not compared.
ProbesAgree_Reads(token, R, type) == R \subseteq ReadableBy(token)

\* The probes: reads of each repository, and for an App token the repositories
\* its installation lists. A fine-grained token lists none, and no probe asks
\* for permissions: there the declaration is taken at its word.
ProbesAgree(token, R, type) ==
    R \subseteq ReadableBy(token) /\ (type = "app" => token.repos = R)

Attest ==
    /\ attester.at = "resolved"
    /\ attester' = [attester EXCEPT !.at =
            IF ProbesAgree(attester.token, attester.repos, attester.type)
            THEN "passed" ELSE "failed"]
    /\ UNCHANGED <<secret, document, mint, caller, handed>>

ProbeFails ==
    /\ attester.at = "resolved" /\ attester' = [attester EXCEPT !.at = "failed"]
    /\ UNCHANGED <<secret, document, mint, caller, handed>>

\* external: the operator, at any moment.
OperatorPuts(s) ==
    /\ \E f \in HandMade : secret' = [secret EXCEPT ![s] = f]
    /\ UNCHANGED <<document, mint, attester, caller, handed>>

OperatorDeclares ==
    /\ \E d \in Declarations : document' = d
    /\ UNCHANGED <<secret, mint, attester, caller, handed>>

\* The two providers share nothing.
ReadSideNext ==
    \/ \E r \in Repo \cup {Foreign} : Discover(r) \/ MintToken(AppToken(r))
    \/ \E f \in HandMade : MintToken(f.body)
    \/ \E R \in SUBSET Repo, type \in ProviderTypes : LoadAttestation(R, type)
    \/ WriteToken \/ WriteAttestation \/ MintFails
    \/ ResolveMaterial \/ Attest \/ ProbeFails
    \/ OperatorPuts("read") \/ OperatorDeclares

WriteSideNext ==
    \/ \E r \in Repo \cup {Foreign} : AuthorizeWrite(r)
    \/ HandOut \/ OperatorPuts("write")

-----------------------------------------------------------------------------
(* Properties                                                              *)

\* attest_provider: an attestation that passes is of material of the declared
\* type that can read every attested repository. An App token is confined to
\* exactly those, though token and document are written one after the other and
\* either may be replaced while the attester works, and its permissions are the
\* attested ones unless an operator put it there by hand. Permissions are not
\* probed and neither is the selection of a fine-grained token: there the
\* attestation says no more than its document (README, section 5).
AttestedScopeIsTrue ==
    attester.at = "passed" =>
        /\ attester.token.class = attester.type /\ attester.doc.type = attester.type
        /\ attester.doc.scopes = attester.repos /\ attester.doc.perms = "exact"
        /\ attester.repos \subseteq ReadableBy(attester.token)
        /\ attester.type = "app" =>
            /\ attester.token.repos = attester.repos
            /\ \/ attester.token.perms = "exact"
               \/ attester.token \in {f.body : f \in HandMade}

\* WriteCapabilityBroker.authorize: write material is handed out only from a
\* private regular file that holds a token of the provider's type, for a
\* repository of the allow-list, even when the file is replaced between the
\* readiness check and the read. What that token may do is not checked again:
\* the attested map belongs to the broker and not to the file.
HandedIsFit ==
    \A h \in handed : /\ h.file.kind = "regular" /\ ~h.file.open
                      /\ h.file.body.class = ProviderType /\ h.repo \in Repo
=============================================================================
