--------------------------- MODULE ProviderDomains ---------------------------
(***************************************************************************)
(* Which providers exist and with whose credentials they are called: the   *)
(* manifests of v2/provider_contract.py, their registration                *)
(* (v2/provider_registry.py) and the credential broker with its single-use *)
(* handles (v2/provider_credentials.py).  ProviderGateway takes what these *)
(* decide as given.  A capability id is a pair: the provider that prefixes *)
(* it, and a name.                                                         *)
(***************************************************************************)
EXTENDS Integers, Sequences

CONSTANTS
    Manifests,              \* documents that are offered for registration
    ProviderAllowList, KnownTools,
    CredentialRecords,      \* what operators give to the broker
    ContractVersion,
    MaxHandles              \* bound: handles that are minted

VARIABLES
    registered,     \* registry._manifests
    frozen,         \* registry._frozen
    material,       \* broker._records, by provider and credential
    revoked,        \* broker._revoked
    handles         \* the AuthorizationHandles, in the order they were minted

domainVars == <<registered, frozen, material, revoked, handles>>

-----------------------------------------------------------------------------
(* Documents                                                               *)

\* CapabilityDeclaration.__post_init__: the class decides what the rest may say.
DeclarationHolds(d) ==
    /\ d.scopes # {} /\ d.hosts # {} /\ ~d.secretShaped
    /\ d.deadline \in 1 .. 60000 /\ d.resultBytes \in 1024 .. 1048576
    /\ d.write = d.mutates /\ d.write = (d.idempotency # "READ") /\ d.write = ~d.readOnlyTier

\* CredentialDomain.capability_ids: at most one credential for each purpose.
DomainIds(domain) == {domain.read, domain.write} \ {"none"}

\* CredentialDomain.__post_init__: every credential has scopes, and nothing else.
DomainHolds(domain) ==
    /\ DomainIds(domain) # {} /\ DOMAIN domain.granted = DomainIds(domain)
    /\ \A c \in DomainIds(domain) : domain.granted[c] # {}

\* ProviderManifest.__post_init__: a capability is called with a credential of
\* its own provider, within the scopes of that credential, and a write never
\* with the one for reads.
ManifestHolds(m) ==
    /\ m.version = ContractVersion /\ m.capabilities # << >> /\ DomainHolds(m.domain)
    /\ m.domain.provider = m.provider
    /\ \A i, j \in DOMAIN m.capabilities : m.capabilities[i].id = m.capabilities[j].id => i = j
    /\ \A i \in DOMAIN m.capabilities : LET d == m.capabilities[i] IN
        /\ DeclarationHolds(d) /\ d.id[1] = m.provider
        /\ d.credential \in DomainIds(m.domain) /\ d.scopes \subseteq m.domain.granted[d.credential]
        /\ ~(d.write /\ d.credential = m.domain.read)

-----------------------------------------------------------------------------
(* The registry                                                            *)

\* ProviderRegistry and ProviderCredentialBroker are empty when they are built.
DomainsInit ==
    /\ registered = {} /\ frozen = FALSE
    /\ material = << >> /\ revoked = {} /\ handles = << >>

\* register; a document that does not hold is not even built.
RegisterManifest(m) ==
    /\ ~frozen /\ ManifestHolds(m)
    /\ m.provider \in ProviderAllowList /\ m.status # "BLOCKED_UNCONFIRMED"
    /\ \A n \in registered : n.provider # m.provider
    /\ \A i \in DOMAIN m.capabilities : m.capabilities[i].tool \in KnownTools
    /\ registered' = registered \cup {m}
    /\ UNCHANGED <<frozen, material, revoked, handles>>

\* freeze, at the end of build_registry.
FreezeRegistry ==
    /\ ~frozen /\ frozen' = TRUE
    /\ UNCHANGED <<registered, material, revoked, handles>>

\* registry.capability: the declarations that can be found by their id.
Declared == UNION {{m.capabilities[i] : i \in DOMAIN m.capabilities} : m \in registered}
DomainOf(provider) == (CHOOSE m \in registered : m.provider = provider).domain
Knows(provider, credential) ==
    /\ \E m \in registered : m.provider = provider
    /\ credential \in DomainIds(DomainOf(provider))

-----------------------------------------------------------------------------
(* The broker: it is given the domains of the frozen registry              *)

KeyOfRecord(r) == <<r.provider, r.credential>>

\* register: a credential of that domain, and not a broad one.
RecordFits(r) == Knows(r.provider, r.credential) /\ ~r.broad
WithRecord(r) ==
    [k \in DOMAIN material \cup {KeyOfRecord(r)} |-> IF k = KeyOfRecord(r) THEN r ELSE material[k]]

RegisterRecord(r) ==
    /\ frozen /\ RecordFits(r)
    /\ material' = WithRecord(r)
    /\ UNCHANGED <<registered, frozen, revoked, handles>>

\* rotate: the revocation is forgotten first, and the record may be refused then.
RotateRecord(r) ==
    /\ frozen
    /\ revoked' = revoked \ {KeyOfRecord(r)}
    /\ material' = IF RecordFits(r) THEN WithRecord(r) ELSE material
    /\ UNCHANGED <<registered, frozen, handles>>

\* revoke takes any key; handles that were minted before are not looked at.
RevokeCredential(key) ==
    /\ frozen /\ revoked' = revoked \cup {key}
    /\ UNCHANGED <<registered, frozen, material, handles>>

\* status
ReadyAt(key) == key \notin revoked /\ key \in DOMAIN material /\ material[key].ready

\* resolve, as the gateway calls it for a capability it has found.
MintHandle(d) ==
    LET key == <<d.id[1], d.credential>> IN
    /\ frozen /\ d \in Declared /\ Len(handles) < MaxHandles
    /\ Knows(d.id[1], d.credential)
    /\ d.scopes \subseteq DomainOf(d.id[1]).granted[d.credential]
    /\ ReadyAt(key)
    /\ handles' = Append(handles, [for |-> d, record |-> material[key],
                                   late |-> FALSE, spent |-> FALSE, uses |-> 0])
    /\ UNCHANGED <<registered, frozen, material, revoked>>

\* AuthorizationHandle.apply is refused once it is spent, and spends it.
ApplyHandle(i) ==
    /\ ~handles[i].spent
    /\ handles' = [handles EXCEPT ![i].spent = TRUE,
                                  ![i].uses = IF handles[i].late THEN @ ELSE @ + 1]
    /\ UNCHANGED <<registered, frozen, material, revoked>>

\* AuthorizationHandle.revoke
RevokeHandle(i) ==
    /\ ~handles[i].spent
    /\ handles' = [handles EXCEPT ![i].spent = TRUE]
    /\ UNCHANGED <<registered, frozen, material, revoked>>

\* The deadline of a capability passes.
HandleExpires(i) ==
    /\ ~handles[i].spent /\ ~handles[i].late
    /\ handles' = [handles EXCEPT ![i].late = TRUE]
    /\ UNCHANGED <<registered, frozen, material, revoked>>

DomainsNext ==
    \/ \E m \in Manifests : RegisterManifest(m)
    \/ FreezeRegistry
    \/ \E r \in CredentialRecords :
        RegisterRecord(r) \/ RotateRecord(r) \/ RevokeCredential(KeyOfRecord(r))
    \/ \E d \in Declared : MintHandle(d)
    \/ \E i \in DOMAIN handles : ApplyHandle(i) \/ RevokeHandle(i) \/ HandleExpires(i)

-----------------------------------------------------------------------------
(* Properties                                                              *)

\* Credential domains do not cross, whatever is registered, rotated and revoked
\* meanwhile: material leaves the broker for the provider and the credential it
\* was given for, once per handle, for a capability whose scopes the credential
\* was granted; and a write never leaves with the provider's read credential.
DomainsApart ==
    \A i \in DOMAIN handles : LET h == handles[i] IN
        /\ h.uses <= 1 /\ ~h.record.broad
        /\ KeyOfRecord(h.record) = <<h.for.id[1], h.for.credential>>
        /\ \E m \in registered :
            /\ m.provider = h.for.id[1] /\ m.provider \in ProviderAllowList
            /\ h.for.scopes \subseteq m.domain.granted[h.record.credential]
            /\ h.for.write => h.record.credential # m.domain.read
=============================================================================
