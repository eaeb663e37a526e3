------------------------ MODULE ProviderGatewayProofs ------------------------
(***************************************************************************)
(* Safety of ProviderGateway for any calls, ids, keys and approvals.       *)
(***************************************************************************)
EXTENDS ProviderGateway, TLAPS

\* A write that is on its way to the provider, or was sent.
Onward(c) == (IsWrite(c) /\ InFlight(c)) \/ Sent(c)

\* A call that has not come to the adapter, or never will, has had no effect.
NothingYet == \A c \in Call : pc[c] \in {"idle", "admitted", "unaudited"} => effect[c] = "none"

\* What such a write has left behind: its intent and its approval.
Paid ==
    \A c \in Call : Onward(c) =>
        /\ IdOf[c] \in intent
        /\ CapOf[c] \in NeedsApproval =>
              ApprovalOf[c] \in consumed /\ c \in GrantedTo[ApprovalOf[c]]

\* So no other write has the same id, and none the same approval.
Alone ==
    \A c, d \in Call : Onward(c) /\ Onward(d) /\ c # d =>
        /\ IdOf[c] # IdOf[d]
        /\ CapOf[c] \in NeedsApproval /\ CapOf[d] \in NeedsApproval
              => ApprovalOf[c] # ApprovalOf[d]

\* What is kept under a key is a write with that key that took effect.
KeptIsDone ==
    \A k \in Key : entries[k] # NoCall => effect[entries[k]] = "done" /\ KeyOf[entries[k]] = k

\* One call at a time, and one that was admitted found nothing kept.
OneAtATime == \A c, d \in Call : InFlight(c) /\ InFlight(d) => c = d
NothingKept ==
    \A c \in Call : pc[c] = "admitted" /\ IsWrite(c) /\ KeyOf[c] # NoKey
        => entries[KeyOf[c]] = NoCall

\* The adapter of a write is called with the write under way.
Called == \A c \in Call : pc[c] = "calling" /\ IsWrite(c) => Sent(c)

\* A call whose request id nobody else uses, and a record that does not hide
\* its effect.
Single(c) == \A d \in Call \ {c} : IdOf[d] # IdOf[c]
Shows(c) ==
    \/ terminal[IdOf[c]] = NoTerminal
    \/ terminal[IdOf[c]].outcome \in {"success", "unknown"}
    \/ terminal[IdOf[c]].counted

\* Only a write has an effect at the provider.
ReadsNothing == \A c \in Call : Sent(c) => IsWrite(c)

\* Such a call has no terminal record while it is under way, and its record
\* shows a write that was or may yet be carried out.
ShownInv ==
    \A c \in Call : Single(c) =>
        /\ pc[c] \in {"idle", "admitted", "calling"} => terminal[IdOf[c]] = NoTerminal
        /\ effect[c] \in {"sent", "done"} => Shows(c)

OnceInv == GatewayTypeOK /\ NothingYet /\ Paid /\ Alone
ToldInv == OutcomesRecorded /\ KeptIsDone /\ ReplayIsTrue /\ OneAtATime /\ NothingKept /\ Called

-----------------------------------------------------------------------------
(* Ending a call                                                           *)

\* EndAs leaves the call in one of two ways, and both keep records and
\* outcomes well-typed.
LEMMA EndStep ==
    ASSUME GatewayTypeOK, NEW c \in Call, NEW outcome \in Outcome, NEW counted \in BOOLEAN,
           NEW p \in Ended, EndAs(c, outcome, counted, p)
    PROVE  /\ terminal' \in [RequestId -> Terminal]
           /\ pc' = [pc EXCEPT ![c] = p] \/ pc' = [pc EXCEPT ![c] = "raised"]
BY CallsAssumption DEF EndAs, Goes, GatewayTypeOK, Terminal

\* A step that sets no new write on its way keeps Paid and Alone.
LEMMA NoNewWrite ==
    ASSUME Paid, Alone, intent \subseteq intent', consumed \subseteq consumed',
           \A c \in Call : Onward(c)' => Onward(c)
    PROVE  Paid' /\ Alone'
BY DEF Paid, Alone

\* A call that ends without a new effect.
LEMMA EndKeepsOnce ==
    ASSUME OnceInv, NEW c \in Call, NEW p \in Ended, pc' = [pc EXCEPT ![c] = p],
           effect' = effect \/ (effect' = [effect EXCEPT ![c] = "never"] /\ Onward(c)),
           p # "unaudited" \/ effect'[c] = "none",
           intent \subseteq intent', consumed \subseteq consumed'
    PROVE  NothingYet' /\ Paid' /\ Alone'
<1>1. /\ pc \in [Call -> {"idle", "admitted", "calling"} \cup Ended]
      /\ effect \in [Call -> {"none", "sent", "done", "never"}]
  BY DEF OnceInv, GatewayTypeOK
<1>2. p \notin {"idle", "admitted", "calling"}
  BY DEF Ended, Outcome
<1>3. \A d \in Call : Onward(d)' => Onward(d)
  BY <1>1, <1>2 DEF Onward, Sent, InFlight, IsWrite
<1>4. NothingYet'
  BY <1>1, <1>2 DEF OnceInv, NothingYet
<1> QED
  BY <1>3, <1>4, NoNewWrite DEF OnceInv

\* Every step keeps a write with its id and its approval alone.
LEMMA OnceStep ==
    ASSUME OnceInv, [Next]_vars
    PROVE  OnceInv'
<1>1. GatewayTypeOK /\ NothingYet /\ Paid /\ Alone
  BY DEF OnceInv
<1>2. /\ pc \in [Call -> {"idle", "admitted", "calling"} \cup Ended]
      /\ effect \in [Call -> {"none", "sent", "done", "never"}]
      /\ state \in [Capability -> CapabilityState]
      /\ entries \in [Key -> Call \cup {NoCall}]
  BY <1>1 DEF GatewayTypeOK
<1>3. CASE UNCHANGED <<consumed, entries, intent, terminal, pc, effect>>
           /\ state' \in [Capability -> CapabilityState] /\ usable' \in SUBSET Capability
  <2>1. GatewayTypeOK'
    BY <1>1, <1>3 DEF GatewayTypeOK
  <2>2. NothingYet' /\ Paid' /\ Alone'
    BY <1>1, <1>3 DEF NothingYet, Paid, Alone, Onward, Sent, InFlight, IsWrite
  <2> QED
    BY <2>1, <2>2 DEF OnceInv
<1>4. ASSUME NEW c \in Call, NEW outcome \in Outcome, NEW counted \in BOOLEAN,
             NEW p \in Ended \ {"unaudited"}, EndAs(c, outcome, counted, p),
             effect' = effect \/ (effect' = [effect EXCEPT ![c] = "never"] /\ Onward(c)),
             intent' = intent, consumed \subseteq consumed', consumed' \in SUBSET Approval,
             state' = state, usable' = usable, entries' \in [Key -> Call \cup {NoCall}]
      PROVE  OnceInv'
  <2>1. PICK q \in Ended \ {"unaudited"} : pc' = [pc EXCEPT ![c] = q]
    BY <1>1, <1>4, EndStep DEF Ended
  <2>2. terminal' \in [RequestId -> Terminal]
    BY <1>1, <1>4, EndStep
  <2>3. GatewayTypeOK'
    BY <1>1, <1>4, <2>1, <2>2 DEF GatewayTypeOK
  <2>4. NothingYet' /\ Paid' /\ Alone'
    BY <1>4, <2>1, EndKeepsOnce
  <2> QED
    BY <2>3, <2>4 DEF OnceInv
<1>5. "refused" \in Outcome /\ "success" \in Outcome /\ "unknown" \in Outcome /\ "error" \in Outcome
      /\ Outcome \subseteq Ended /\ "replayed" \in Ended /\ "raised" \in Ended
      /\ Outcome \subseteq Ended \ {"unaudited"} /\ {"replayed", "raised"} \subseteq Ended \ {"unaudited"}
      /\ "unaudited" \in Ended /\ "dead" \in Ended /\ FALSE \in BOOLEAN /\ TRUE \in BOOLEAN
  BY DEF Outcome, Ended
<1>6. ASSUME NEW cap \in Capability, Probe(cap) \/ Revoke(cap) \/ Rotate(cap) PROVE OnceInv'
  <2>1. ASSUME NEW report \in Report
        PROVE  /\ Demoted(state[cap], report) \in CapabilityState
               /\ Classified(cap, report) \in CapabilityState
    BY <1>2 DEF Demoted, Classified, Report, CapabilityState, Rank
  <2>2. state' \in [Capability -> CapabilityState] /\ usable' \in SUBSET Capability
    BY <1>1, <1>2, <1>6, <2>1 DEF Probe, Revoke, Rotate, GatewayTypeOK
  <2> QED
    BY <1>3, <1>6, <2>2 DEF Probe, Revoke, Rotate
<1>7. ASSUME NEW c \in Call, Deny(c) PROVE OnceInv'
  BY <1>1, <1>4, <1>5, <1>7 DEF Deny, Refuse, GatewayTypeOK
<1>8. ASSUME NEW c \in Call, AdmitRead(c) PROVE OnceInv'
  <2>1. GatewayTypeOK'
    BY <1>1, <1>8 DEF GatewayTypeOK, AdmitRead, Goes
  <2>2. NothingYet'
    BY <1>1, <1>2, <1>8 DEF NothingYet, AdmitRead, Goes
  <2>3. \A d \in Call : Onward(d)' => Onward(d)
    BY <1>2, <1>8 DEF Onward, Sent, InFlight, IsWrite, AdmitRead, Goes
  <2>4. intent' = intent /\ consumed' = consumed
    BY <1>8 DEF AdmitRead
  <2> QED
    BY <1>1, <2>1, <2>2, <2>3, <2>4, NoNewWrite DEF OnceInv
<1>9. ASSUME NEW c \in Call, AdmitWrite(c) PROVE OnceInv'
  <2>1. /\ consumed \subseteq consumed' /\ consumed' \in SUBSET Approval
        /\ CapOf[c] \in NeedsApproval =>
              /\ ApprovalOf[c] \notin consumed /\ ApprovalOf[c] \in consumed'
              /\ c \in GrantedTo[ApprovalOf[c]]
    BY <1>1, <1>9 DEF AdmitWrite, Bind, GatewayTypeOK
  <2>2. /\ pc[c] = "idle" /\ effect[c] = "none"
        /\ state' = state /\ usable' = usable /\ entries' = entries /\ effect' = effect
    BY <1>1, <1>9 DEF AdmitWrite, NothingYet
  <2>3. CASE Refuse(c) /\ intent' = intent
    BY <1>2, <1>4, <1>5, <2>1, <2>2, <2>3 DEF Refuse
  <2>4. CASE EndAs(c, "success", FALSE, "replayed") /\ intent' = intent
    BY <1>2, <1>4, <1>5, <2>1, <2>2, <2>4
  <2>5. CASE NewIntent(c) /\ intent' = intent \cup {IdOf[c]} /\ Goes(c, "admitted")
             /\ terminal' = terminal
    <3>1. GatewayTypeOK'
      BY <1>1, <2>1, <2>2, <2>5, CallsAssumption DEF GatewayTypeOK, Goes
    <3>2. NothingYet'
      BY <1>1, <1>2, <2>2, <2>5 DEF NothingYet, Goes
    <3>3. \A d \in Call : Onward(d)' => Onward(d) \/ d = c
      BY <1>2, <2>2, <2>5 DEF Onward, Sent, InFlight, IsWrite, Goes
    <3>4. Paid'
      BY <1>1, <2>1, <2>5, <3>3 DEF Paid
    <3>5. ASSUME NEW d \in Call, Onward(d), d # c
          PROVE  /\ IdOf[c] # IdOf[d]
                 /\ CapOf[c] \in NeedsApproval /\ CapOf[d] \in NeedsApproval
                       => ApprovalOf[c] # ApprovalOf[d]
      BY <1>1, <2>1, <2>5, <3>5 DEF Paid, NewIntent
    <3>6. Alone'
      BY <1>1, <3>3, <3>5 DEF Alone
    <3> QED
      BY <3>1, <3>2, <3>4, <3>6 DEF OnceInv
  <2>6. CASE intent' = intent /\ Goes(c, "unaudited") /\ terminal' = terminal
    <3>1. pc' = [pc EXCEPT ![c] = "unaudited"]
      BY <2>6 DEF Goes
    <3>2. GatewayTypeOK'
      BY <1>1, <1>5, <2>1, <2>2, <2>6, <3>1 DEF GatewayTypeOK
    <3>3. NothingYet' /\ Paid' /\ Alone'
      BY <1>5, <2>1, <2>2, <2>6, <3>1, EndKeepsOnce
    <3> QED
      BY <3>2, <3>3 DEF OnceInv
  <2> QED
    BY <1>9, <2>3, <2>4, <2>5, <2>6 DEF AdmitWrite
<1>10. ASSUME NEW c \in Call, Resolve(c) PROVE OnceInv'
  <2>1. /\ pc[c] = "admitted" /\ intent' = intent /\ consumed' = consumed
        /\ state' = state /\ usable' = usable /\ entries' = entries
    BY <1>10 DEF Resolve
  <2>2. CASE Refuse(c) /\ effect' = effect
    BY <1>1, <1>2, <1>4, <1>5, <2>1, <2>2 DEF Refuse, GatewayTypeOK
  <2>3. CASE /\ Goes(c, "calling") /\ terminal' = terminal
             /\ effect' = IF IsWrite(c) THEN [effect EXCEPT ![c] = "sent"] ELSE effect
    <3>1. GatewayTypeOK'
      BY <1>1, <2>1, <2>3 DEF GatewayTypeOK, Goes
    <3>2. NothingYet'
      BY <1>1, <1>2, <2>3 DEF NothingYet, Goes
    <3>3. \A d \in Call : Onward(d)' => Onward(d)
      BY <1>2, <2>1, <2>3 DEF Onward, Sent, InFlight, IsWrite, Goes
    <3> QED
      BY <1>1, <2>1, <3>1, <3>2, <3>3, NoNewWrite DEF OnceInv
  <2> QED
    BY <1>10, <2>2, <2>3 DEF Resolve
<1>11. ASSUME NEW c \in Call,
              Succeed(c) \/ BadResult(c) \/ TypedRefusal(c) \/ LoseTrack(c)
       PROVE  OnceInv'
  <2>1. /\ intent' = intent /\ consumed' = consumed /\ state' = state /\ usable' = usable
        /\ consumed' \in SUBSET Approval /\ consumed \subseteq consumed'
    BY <1>1, <1>11 DEF Succeed, BadResult, TypedRefusal, LoseTrack, GatewayTypeOK
  <2>2. PICK outcome \in Outcome, counted \in BOOLEAN, p \in Ended \ {"unaudited"} : EndAs(c, outcome, counted, p)
    BY <1>5, <1>11 DEF Succeed, BadResult, TypedRefusal, LoseTrack, Refuse
  <2>3. entries' \in [Key -> Call \cup {NoCall}]
    BY <1>2, <1>11 DEF Succeed, BadResult, TypedRefusal, LoseTrack
  <2>4. effect' = effect \/ (effect' = [effect EXCEPT ![c] = "never"] /\ Onward(c))
    BY <1>11 DEF Succeed, BadResult, TypedRefusal, LoseTrack, Onward, InFlight
  <2> QED
    BY <1>4, <2>1, <2>2, <2>3, <2>4
<1>12. ASSUME NEW c \in Call, ProviderActs(c) PROVE OnceInv'
  <2>1. PICK fate \in {"done", "never"} : effect' = [effect EXCEPT ![c] = fate]
    BY <1>12 DEF ProviderActs
  <2>2. GatewayTypeOK'
    BY <1>1, <1>12, <2>1 DEF GatewayTypeOK, ProviderActs
  <2>3. NothingYet' /\ intent' = intent /\ consumed' = consumed
    BY <1>1, <1>2, <1>12, <2>1 DEF NothingYet, ProviderActs
  <2>4. \A d \in Call : Onward(d)' => Onward(d)
    BY <1>2, <1>12, <2>1 DEF Onward, Sent, InFlight, IsWrite, ProviderActs
  <2> QED
    BY <1>1, <2>2, <2>3, <2>4, NoNewWrite DEF OnceInv
<1>13. CASE Restart
  <2>1. GatewayTypeOK'
    BY <1>1, <1>2, <1>5, <1>13 DEF GatewayTypeOK, Restart, CapabilityState, Rank
  <2>2. NothingYet' /\ intent' = intent /\ consumed' = consumed
    BY <1>1, <1>2, <1>13 DEF NothingYet, Restart, InFlight
  <2>3. \A d \in Call : Onward(d)' => Onward(d)
    BY <1>2, <1>13 DEF Onward, Sent, InFlight, IsWrite, Restart
  <2> QED
    BY <1>1, <2>1, <2>2, <2>3, NoNewWrite DEF OnceInv
<1>14. CASE UNCHANGED vars
  BY <1>1, <1>3, <1>14 DEF vars, GatewayTypeOK
<1> QED
  BY <1>6, <1>7, <1>8, <1>9, <1>10, <1>11, <1>12, <1>13, <1>14 DEF Next

-----------------------------------------------------------------------------
(* What clients and the sink are told                                      *)

\* The ledger has no record to lose when a call ends.
LEMMA EndKeepsAudit ==
    ASSUME GatewayTypeOK, OutcomesRecorded, NEW c \in Call, NEW outcome \in Outcome,
           NEW counted \in BOOLEAN, NEW p \in {outcome, "replayed", "raised"},
           EndAs(c, outcome, counted, p)
    PROVE  OutcomesRecorded'
<1>1. pc \in [Call -> {"idle", "admitted", "calling"} \cup Ended]
      /\ terminal \in [RequestId -> Terminal]
  BY DEF GatewayTypeOK
<1>2. "raised" \notin Outcome /\ "raised" # "replayed" /\ "replayed" \notin Outcome
  BY DEF Outcome
<1>3. CASE /\ terminal[IdOf[c]] = NoTerminal
           /\ terminal' = [terminal EXCEPT ![IdOf[c]] =
                              [by |-> c, outcome |-> outcome, counted |-> counted]]
           /\ pc' = [pc EXCEPT ![c] = p]
  <2>1. ASSUME NEW d \in Call, d # c, pc[d] \in Outcome \cup {"replayed"} PROVE IdOf[d] # IdOf[c]
    <3>1. terminal[IdOf[d]].by = d
      BY <2>1 DEF OutcomesRecorded
    <3> QED
      BY <1>3, <3>1, CallsAssumption DEF NoTerminal
  <2>2. ASSUME NEW d \in Call, d # c
        PROVE  /\ pc'[d] \in Outcome => /\ terminal'[IdOf[d]].by = d
                                        /\ terminal'[IdOf[d]].outcome = pc'[d]
               /\ pc'[d] = "replayed" => terminal'[IdOf[d]].by = d
    BY <1>1, <1>3, <2>1, <2>2, CallsAssumption DEF OutcomesRecorded
  <2>3. /\ terminal'[IdOf[c]].by = c /\ terminal'[IdOf[c]].outcome = outcome
        /\ pc'[c] = p
    BY <1>1, <1>3, CallsAssumption
  <2> QED
    BY <1>2, <2>2, <2>3 DEF OutcomesRecorded
<1>4. CASE terminal' = terminal /\ pc' = [pc EXCEPT ![c] = "raised"]
  BY <1>1, <1>2, <1>4 DEF OutcomesRecorded
<1> QED
  BY <1>3, <1>4 DEF EndAs, Goes

\* A step in which nobody is told anything.
LEMMA Untold ==
    ASSUME GatewayTypeOK, OutcomesRecorded, terminal' = terminal,
           \A c \in Call : pc'[c] \in Outcome \cup {"replayed"} => pc'[c] = pc[c]
    PROVE  OutcomesRecorded'
BY DEF OutcomesRecorded

\* Only an admission starts a call, and then there is no other.
LEMMA Ends ==
    ASSUME ToldInv, \A c \in Call : InFlight(c)' => InFlight(c)
    PROVE  OneAtATime'
BY DEF ToldInv, OneAtATime

\* What was carried out stays so; a success is kept only of such a write.
LEMMA DoneStays ==
    ASSUME OnceInv, [Next]_vars
    PROVE  /\ \A c \in Call : (effect[c] = "done" => effect'[c] = "done") /\ (Sent(c) => Sent(c)')
           /\ \A k \in Key : entries'[k] = entries[k] \/
                 /\ entries[k] = NoCall /\ entries'[k] \in Call
                 /\ pc[entries'[k]] = "calling" /\ IsWrite(entries'[k])
                 /\ effect[entries'[k]] = "done" /\ KeyOf[entries'[k]] = k
<1>1. /\ effect \in [Call -> {"none", "sent", "done", "never"}]
      /\ entries \in [Key -> Call \cup {NoCall}] /\ NothingYet
  BY DEF OnceInv, GatewayTypeOK
<1>2. ASSUME NEW c \in Call, Resolve(c)
      PROVE  \A d \in Call : (effect[d] = "done" => effect'[d] = "done") /\ (Sent(d) => Sent(d)')
  BY <1>1, <1>2 DEF Resolve, NothingYet, Sent
<1>3. ASSUME NEW c \in Call, TypedRefusal(c) \/ ProviderActs(c)
      PROVE  \A d \in Call : (effect[d] = "done" => effect'[d] = "done") /\ (Sent(d) => Sent(d)')
  BY <1>1, <1>3 DEF TypedRefusal, ProviderActs, Sent
<1>4. ASSUME NEW c \in Call, Deny(c) \/ AdmitRead(c) \/ AdmitWrite(c) \/ Succeed(c) \/ BadResult(c)
             \/ LoseTrack(c)
      PROVE  effect' = effect
  BY <1>4 DEF Deny, AdmitRead, AdmitWrite, Succeed, BadResult, LoseTrack
<1>5. ASSUME NEW cap \in Capability, Probe(cap) \/ Revoke(cap) \/ Rotate(cap)
      PROVE  effect' = effect /\ entries' = entries
  BY <1>5 DEF Probe, Revoke, Rotate
<1>6. ASSUME Restart \/ UNCHANGED vars PROVE effect' = effect /\ entries' = entries
  BY <1>6 DEF Restart, vars
<1>7. \A c \in Call : (effect[c] = "done" => effect'[c] = "done") /\ (Sent(c) => Sent(c)')
  BY <1>2, <1>3, <1>4, <1>5, <1>6 DEF Next, Sent
<1>8. ASSUME NEW c \in Call, Succeed(c), entries' # entries
      PROVE  /\ IsWrite(c) /\ KeyOf[c] \in Key /\ entries[KeyOf[c]] = NoCall
             /\ pc[c] = "calling" /\ effect[c] = "done"
             /\ entries' = [entries EXCEPT ![KeyOf[c]] = c]
  BY <1>8, CallsAssumption DEF Succeed
<1>9. ASSUME NEW c \in Call,
             Deny(c) \/ AdmitRead(c) \/ AdmitWrite(c) \/ Resolve(c) \/ BadResult(c)
             \/ TypedRefusal(c) \/ LoseTrack(c) \/ ProviderActs(c)
      PROVE  entries' = entries
  BY <1>9 DEF Deny, AdmitRead, AdmitWrite, Resolve, BadResult, TypedRefusal, LoseTrack, ProviderActs
<1>10. entries' = entries \/ \E c \in Call : Succeed(c) /\ entries' # entries
  BY <1>5, <1>6, <1>9 DEF Next
<1>11. CASE entries' = entries
  BY <1>7, <1>11
<1>12. ASSUME NEW c \in Call, Succeed(c), entries' # entries
       PROVE \A k \in Key : entries'[k] = entries[k] \/
                 /\ entries[k] = NoCall /\ entries'[k] \in Call
                 /\ pc[entries'[k]] = "calling" /\ IsWrite(entries'[k])
                 /\ effect[entries'[k]] = "done" /\ KeyOf[entries'[k]] = k
  BY <1>1, <1>8, <1>12
<1> QED
  BY <1>7, <1>10, <1>11, <1>12

\* How the place of a call changes.
LEMMA Moves ==
    ASSUME OnceInv, [Next]_vars, NEW c \in Call, pc'[c] # pc[c]
    PROVE  \/ pc'[c] \in Ended /\ pc'[c] # "replayed"
           \/ pc'[c] = "replayed" /\ AdmitWrite(c) /\ Prior(c) # NoCall
           \/ pc'[c] = "calling" /\ pc[c] = "admitted" /\ (IsWrite(c) => Sent(c)')
           \/ pc'[c] = "admitted" /\ Free /\ pc' = [pc EXCEPT ![c] = "admitted"]
                 /\ entries' = entries /\ (IsWrite(c) => Prior(c) = NoCall)
<1>1. GatewayTypeOK /\ pc \in [Call -> {"idle", "admitted", "calling"} \cup Ended]
  BY DEF OnceInv, GatewayTypeOK
<1>2. "refused" \in Outcome /\ "success" \in Outcome /\ "unknown" \in Outcome /\ "error" \in Outcome
      /\ Outcome \subseteq Ended /\ "replayed" \in Ended /\ "raised" \in Ended /\ "raised" # "replayed"
      /\ "unaudited" \in Ended /\ "dead" \in Ended /\ "replayed" \notin Outcome
  BY DEF Outcome, Ended
<1>3. ASSUME NEW d \in Call, NEW outcome, NEW counted, NEW p \in Ended,
             EndAs(d, outcome, counted, p)
      PROVE  c = d /\ pc'[c] \in {p, "raised"}
  BY <1>1, <1>3 DEF EndAs, Goes
<1>4. ASSUME NEW d \in Call, Deny(d) \/ BadResult(d) \/ TypedRefusal(d) \/ LoseTrack(d) \/ Succeed(d)
      PROVE  pc'[c] \in Ended /\ pc'[c] # "replayed"
  BY <1>2, <1>3, <1>4 DEF Deny, BadResult, TypedRefusal, LoseTrack, Succeed, Refuse
<1>5. ASSUME NEW d \in Call, AdmitRead(d)
      PROVE  pc'[c] = "admitted" /\ Free /\ pc' = [pc EXCEPT ![c] = "admitted"]
             /\ entries' = entries /\ ~IsWrite(c)
  BY <1>1, <1>5 DEF AdmitRead, Goes
<1>6. ASSUME NEW d \in Call, AdmitWrite(d)
      PROVE  \/ pc'[c] \in Ended /\ pc'[c] # "replayed"
             \/ pc'[c] = "replayed" /\ AdmitWrite(c) /\ Prior(c) # NoCall
             \/ pc'[c] = "admitted" /\ Free /\ pc' = [pc EXCEPT ![c] = "admitted"]
                   /\ entries' = entries /\ Prior(c) = NoCall
  <2>1. CASE Refuse(d)
    BY <1>2, <1>3, <2>1 DEF Refuse
  <2>2. CASE Prior(d) # NoCall /\ EndAs(d, "success", FALSE, "replayed")
    BY <1>2, <1>3, <1>6, <2>2
  <2>3. CASE Prior(d) = NoCall /\ Goes(d, "admitted")
    BY <1>1, <1>6, <2>3 DEF AdmitWrite, Goes
  <2>4. CASE Goes(d, "unaudited")
    BY <1>1, <1>2, <2>4 DEF Goes
  <2> QED
    BY <1>6, <2>1, <2>2, <2>3, <2>4 DEF AdmitWrite
<1>7. ASSUME NEW d \in Call, Resolve(d)
      PROVE  \/ pc'[c] \in Ended /\ pc'[c] # "replayed"
             \/ pc'[c] = "calling" /\ pc[c] = "admitted" /\ (IsWrite(c) => Sent(c)')
  <2>1. CASE Refuse(d)
    BY <1>2, <1>3, <2>1 DEF Refuse
  <2>2. CASE /\ Goes(d, "calling")
             /\ effect' = IF IsWrite(d) THEN [effect EXCEPT ![d] = "sent"] ELSE effect
    BY <1>1, <1>7, <2>2 DEF Goes, Resolve, Sent, GatewayTypeOK
  <2> QED
    BY <1>7, <2>1, <2>2 DEF Resolve
<1>8. CASE Restart
  BY <1>1, <1>2, <1>8 DEF Restart
<1>9. ASSUME NEW d \in Call PROVE ~ProviderActs(d)
  BY DEF ProviderActs
<1>10. ASSUME NEW cap \in Capability PROVE ~(Probe(cap) \/ Revoke(cap) \/ Rotate(cap))
  BY DEF Probe, Revoke, Rotate
<1>11. ~UNCHANGED vars
  BY DEF vars
<1> QED
  BY <1>4, <1>5, <1>6, <1>7, <1>8, <1>9, <1>10, <1>11 DEF Next

\* Every step keeps the records complete.
LEMMA AuditStep ==
    ASSUME OnceInv, OutcomesRecorded, [Next]_vars
    PROVE  OutcomesRecorded'
<1>1. GatewayTypeOK /\ pc \in [Call -> {"idle", "admitted", "calling"} \cup Ended]
  BY DEF OnceInv, GatewayTypeOK
<1>2. "refused" \in Outcome /\ "success" \in Outcome /\ "unknown" \in Outcome /\ "error" \in Outcome
      /\ "replayed" \notin Outcome /\ "raised" \notin Outcome /\ "raised" # "replayed"
      /\ "admitted" \notin Outcome \cup {"replayed"} /\ "calling" \notin Outcome \cup {"replayed"}
      /\ "unaudited" \notin Outcome \cup {"replayed"} /\ "dead" \notin Outcome \cup {"replayed"}
  BY DEF Outcome
<1>3. ASSUME NEW c \in Call, Refuse(c) PROVE OutcomesRecorded'
  BY <1>1, <1>2, <1>3, EndKeepsAudit DEF Refuse
<1>4. ASSUME NEW c \in Call, NEW p \in {"admitted", "calling", "unaudited"},
             Goes(c, p), terminal' = terminal
      PROVE  OutcomesRecorded'
  BY <1>1, <1>2, <1>4, Untold DEF Goes
<1>5. ASSUME NEW c \in Call, Deny(c) \/ AdmitRead(c) PROVE OutcomesRecorded'
  BY <1>3, <1>4, <1>5 DEF Deny, AdmitRead
<1>6. ASSUME NEW c \in Call, AdmitWrite(c) PROVE OutcomesRecorded'
  <2>1. CASE EndAs(c, "success", FALSE, "replayed")
    BY <1>1, <1>2, <2>1, EndKeepsAudit
  <2> QED
    BY <1>3, <1>4, <1>6, <2>1 DEF AdmitWrite
<1>7. ASSUME NEW c \in Call, Resolve(c) PROVE OutcomesRecorded'
  BY <1>3, <1>4, <1>7 DEF Resolve
<1>8. ASSUME NEW c \in Call, Succeed(c) \/ BadResult(c) \/ TypedRefusal(c) \/ LoseTrack(c)
      PROVE  OutcomesRecorded'
  <2>1. PICK outcome \in Outcome, counted \in BOOLEAN :
           EndAs(c, outcome, counted, outcome) \/ EndAs(c, outcome, counted, "raised")
    BY <1>2, <1>8 DEF Succeed, BadResult, TypedRefusal, LoseTrack, Refuse
  <2> QED
    BY <1>1, <2>1, EndKeepsAudit
<1>9. ASSUME NEW c \in Call, ProviderActs(c) PROVE OutcomesRecorded'
  BY <1>1, <1>9, Untold DEF ProviderActs
<1>10. ASSUME NEW cap \in Capability, Probe(cap) \/ Revoke(cap) \/ Rotate(cap) PROVE OutcomesRecorded'
  BY <1>1, <1>10, Untold DEF Probe, Revoke, Rotate
<1>11. CASE Restart
  BY <1>1, <1>2, <1>11, Untold DEF Restart
<1>12. CASE UNCHANGED vars
  BY <1>1, <1>12, Untold DEF vars
<1> QED
  BY <1>5, <1>6, <1>7, <1>8, <1>9, <1>10, <1>11, <1>12 DEF Next

\* Every step keeps what clients are told true.
LEMMA ToldStep ==
    ASSUME OnceInv, ToldInv, [Next]_vars
    PROVE  ToldInv'
<1>1. /\ pc \in [Call -> {"idle", "admitted", "calling"} \cup Ended]
      /\ entries \in [Key -> Call \cup {NoCall}] /\ NothingYet
  BY DEF OnceInv, GatewayTypeOK
<1>2. "replayed" \notin {"admitted", "calling"} /\ {"admitted", "calling"} \cap Ended = {}
  BY DEF Ended, Outcome
<1>3. KeptIsDone'
  BY <1>1, DoneStays DEF ToldInv, KeptIsDone
<1>4. ReplayIsTrue'
  <2> SUFFICES ASSUME NEW c \in Call, pc'[c] = "replayed"
               PROVE  \E d \in Call \ {c} : KeyOf[d] = KeyOf[c] /\ effect'[d] = "done"
    BY DEF ReplayIsTrue
  <2>1. CASE pc[c] = "replayed"
    BY <2>1, DoneStays DEF ToldInv, ReplayIsTrue
  <2>2. CASE pc[c] # "replayed"
    <3>1. AdmitWrite(c) /\ Prior(c) # NoCall
      BY <1>2, <2>2, Moves
    <3>2. KeyOf[c] \in Key /\ entries[KeyOf[c]] # NoCall
      BY <3>1, CallsAssumption DEF Prior
    <3>3. PICK d \in Call : d = entries[KeyOf[c]]
      BY <1>1, <3>2
    <3>4. effect[d] = "done" /\ KeyOf[d] = KeyOf[c]
      BY <3>2, <3>3 DEF ToldInv, KeptIsDone
    <3>5. effect[c] = "none"
      BY <1>1, <3>1 DEF AdmitWrite, NothingYet
    <3> QED
      BY <3>4, <3>5, DoneStays
  <2> QED
    BY <2>1, <2>2
<1>5. OneAtATime'
  <2>1. CASE \A c \in Call : InFlight(c)' => InFlight(c)
    BY <2>1, Ends
  <2>2. ASSUME NEW c \in Call, InFlight(c)', ~InFlight(c) PROVE OneAtATime'
    <3>1. Free /\ pc' = [pc EXCEPT ![c] = "admitted"]
      BY <1>2, <2>2, Moves DEF InFlight
    <3> QED
      BY <1>1, <3>1 DEF OneAtATime, InFlight, Free
  <2> QED
    BY <2>1, <2>2
<1>6. NothingKept'
  <2> SUFFICES ASSUME NEW c \in Call, pc'[c] = "admitted", IsWrite(c), KeyOf[c] # NoKey
               PROVE  entries'[KeyOf[c]] = NoCall
    BY DEF NothingKept, IsWrite
  <2>1. CASE pc[c] = "admitted"
    <3>1. entries[KeyOf[c]] = NoCall /\ KeyOf[c] \in Key
      BY <2>1, CallsAssumption DEF ToldInv, NothingKept
    <3>2. CASE entries'[KeyOf[c]] # entries[KeyOf[c]]
      <4>1. PICK d \in Call : d = entries'[KeyOf[c]] /\ pc[d] = "calling"
        BY <3>1, <3>2, DoneStays
      <4> QED
        BY <2>1, <4>1 DEF ToldInv, OneAtATime, InFlight
    <3> QED
      BY <3>1, <3>2
  <2>2. CASE pc[c] # "admitted"
    <3>1. entries' = entries /\ Prior(c) = NoCall
      BY <1>2, <2>2, Moves
    <3> QED
      BY <3>1 DEF Prior
  <2> QED
    BY <2>1, <2>2
<1>7. OutcomesRecorded'
  BY AuditStep DEF ToldInv
<1>8. Called'
  <2> SUFFICES ASSUME NEW c \in Call, pc'[c] = "calling", IsWrite(c) PROVE Sent(c)'
    BY DEF Called, IsWrite
  <2>1. CASE pc[c] = "calling"
    BY <2>1, DoneStays DEF ToldInv, Called
  <2>2. CASE pc[c] # "calling"
    BY <1>2, <2>2, Moves
  <2> QED
    BY <2>1, <2>2
<1> QED
  BY <1>3, <1>4, <1>5, <1>6, <1>7, <1>8 DEF ToldInv

-----------------------------------------------------------------------------
(* What the sink shows                                                     *)

\* A call that ends hides no effect if its record names success, unknown or a
\* provider call wherever the effect may be there.
LEMMA EndShows ==
    ASSUME GatewayTypeOK, ShownInv, NEW c \in Call, NEW outcome \in Outcome,
           NEW counted \in BOOLEAN, NEW p \in Ended, EndAs(c, outcome, counted, p),
           pc[c] \in {"idle", "admitted", "calling"},
           \A d \in Call \ {c} : effect'[d] = effect[d],
           effect'[c] \in {"sent", "done"} => outcome \in {"success", "unknown"} \/ counted
    PROVE  ShownInv'
<1>1. /\ pc \in [Call -> {"idle", "admitted", "calling"} \cup Ended]
      /\ terminal \in [RequestId -> Terminal]
  BY DEF GatewayTypeOK
<1>2. p \notin {"idle", "admitted", "calling"} /\ "raised" \notin {"idle", "admitted", "calling"}
  BY DEF Ended, Outcome
<1>3. ASSUME NEW d \in Call, Single(d), d # c
      PROVE  terminal'[IdOf[d]] = terminal[IdOf[d]] /\ pc'[d] = pc[d] /\ effect'[d] = effect[d]
  BY <1>1, <1>3, CallsAssumption DEF EndAs, Goes, Single
<1>4. ASSUME Single(c)
      PROVE  /\ pc'[c] \notin {"idle", "admitted", "calling"}
             /\ effect'[c] \in {"sent", "done"} => Shows(c)'
  <2>1. pc'[c] \in {p, "raised"}
    BY <1>1 DEF EndAs, Goes
  <2>2. CASE terminal' = terminal
    BY <1>2, <1>4, <2>1, <2>2 DEF Shows, ShownInv
  <2>3. CASE terminal' = [terminal EXCEPT ![IdOf[c]] =
                             [by |-> c, outcome |-> outcome, counted |-> counted]]
    BY <1>1, <1>2, <2>1, <2>3, CallsAssumption DEF Shows
  <2> QED
    BY <2>2, <2>3 DEF EndAs
<1>5. \A d \in Call : Single(d)' <=> Single(d)
  BY DEF Single
<1> QED
  BY <1>3, <1>4, <1>5 DEF ShownInv, Shows

\* A step that writes no record and sends nothing hides nothing.
LEMMA QuietShows ==
    ASSUME ShownInv, terminal' = terminal,
           \A c \in Call : /\ pc'[c] \in {"idle", "admitted", "calling"}
                                 => pc[c] \in {"idle", "admitted", "calling"}
                           /\ effect'[c] \in {"sent", "done"} =>
                                 effect[c] \in {"sent", "done"} \/ pc[c] = "admitted"
    PROVE  ShownInv'
BY DEF ShownInv, Shows, Single

\* Every step sends writes only.
LEMMA ReadsStep ==
    ASSUME OnceInv, ReadsNothing, [Next]_vars
    PROVE  ReadsNothing'
<1>1. effect \in [Call -> {"none", "sent", "done", "never"}]
  BY DEF OnceInv, GatewayTypeOK
<1>2. ASSUME NEW c \in Call, Resolve(c) \/ TypedRefusal(c) \/ ProviderActs(c) PROVE ReadsNothing'
  BY <1>1, <1>2 DEF Resolve, TypedRefusal, ProviderActs, ReadsNothing, Sent, IsWrite
<1>3. ASSUME effect' = effect PROVE ReadsNothing'
  BY <1>3 DEF ReadsNothing, Sent, IsWrite
<1> QED
  BY <1>2, <1>3 DEF Next, Deny, AdmitRead, AdmitWrite, Succeed, BadResult, LoseTrack, Probe, Revoke,
                    Rotate, Restart, vars

\* Every step leaves each effect to be seen in the sink.
LEMMA ShownStep ==
    ASSUME OnceInv, ReadsNothing, ShownInv, [Next]_vars
    PROVE  ShownInv'
<1>1. /\ GatewayTypeOK /\ NothingYet
      /\ pc \in [Call -> {"idle", "admitted", "calling"} \cup Ended]
      /\ effect \in [Call -> {"none", "sent", "done", "never"}]
  BY DEF OnceInv, GatewayTypeOK
<1>2. "refused" \in Outcome /\ "success" \in Outcome /\ "unknown" \in Outcome /\ "error" \in Outcome
      /\ Outcome \subseteq Ended /\ "replayed" \in Ended /\ "raised" \in Ended
      /\ {"unaudited", "dead"} \cap {"idle", "admitted", "calling"} = {}
  BY DEF Outcome, Ended
<1>3. ASSUME NEW c \in Call, pc[c] \in {"idle", "admitted"}, effect' = effect,
             \/ Refuse(c) \/ EndAs(c, "success", FALSE, "replayed")
      PROVE  ShownInv'
  <2>1. effect[c] = "none"
    BY <1>1, <1>3 DEF NothingYet
  <2> QED
    BY <1>1, <1>2, <1>3, <2>1, EndShows DEF Refuse
<1>4. ASSUME NEW c \in Call, NEW p \in {"admitted", "unaudited"}, Goes(c, p), pc[c] = "idle",
             terminal' = terminal, effect' = effect
      PROVE  ShownInv'
  BY <1>1, <1>2, <1>4, QuietShows DEF Goes
<1>5. ASSUME NEW c \in Call, Deny(c) \/ AdmitRead(c) \/ AdmitWrite(c) PROVE ShownInv'
  BY <1>3, <1>4, <1>5 DEF Deny, AdmitRead, AdmitWrite
<1>6. ASSUME NEW c \in Call, Resolve(c) PROVE ShownInv'
  <2>1. CASE Refuse(c) /\ effect' = effect
    BY <1>3, <1>6, <2>1 DEF Resolve
  <2>2. CASE /\ Goes(c, "calling") /\ terminal' = terminal
             /\ effect' = IF IsWrite(c) THEN [effect EXCEPT ![c] = "sent"] ELSE effect
    BY <1>1, <1>6, <2>2, QuietShows DEF Goes, Resolve
  <2> QED
    BY <1>6, <2>1, <2>2 DEF Resolve
<1>7. ASSUME NEW c \in Call, Succeed(c) \/ BadResult(c) PROVE ShownInv'
  <2>1. PICK outcome \in Outcome, p \in Ended : EndAs(c, outcome, TRUE, p)
    BY <1>2, <1>7 DEF Succeed, BadResult
  <2>2. pc[c] = "calling" /\ effect' = effect
    BY <1>7 DEF Succeed, BadResult
  <2> QED
    BY <1>1, <2>1, <2>2, EndShows
<1>8. ASSUME NEW c \in Call, TypedRefusal(c) PROVE ShownInv'
  <2>1. EndAs(c, "refused", FALSE, "refused") /\ pc[c] = "calling"
        /\ effect[c] # "done"
        /\ effect' = IF IsWrite(c) THEN [effect EXCEPT ![c] = "never"] ELSE effect
    BY <1>8 DEF TypedRefusal
  <2>2. effect'[c] \notin {"sent", "done"}
    BY <1>1, <2>1 DEF ReadsNothing, Sent
  <2> QED
    BY <1>1, <1>2, <2>1, <2>2, EndShows
<1>9. ASSUME NEW c \in Call, LoseTrack(c) PROVE ShownInv'
  <2>1. pc[c] = "calling" /\ effect' = effect
    BY <1>9 DEF LoseTrack
  <2>2. CASE ~IsWrite(c)
    <3>1. effect'[c] \notin {"sent", "done"}
      BY <2>1, <2>2 DEF ReadsNothing, Sent
    <3>2. PICK outcome \in Outcome, counted \in BOOLEAN, p \in Ended :
             EndAs(c, outcome, counted, p)
      BY <1>2, <1>9, <2>2 DEF LoseTrack, Refuse
    <3> QED
      BY <1>1, <2>1, <3>1, <3>2, EndShows
  <2>3. CASE IsWrite(c)
    <3>1. PICK counted \in BOOLEAN : EndAs(c, "unknown", counted, "unknown")
      BY <1>9, <2>3 DEF LoseTrack
    <3> QED
      BY <1>1, <1>2, <2>1, <3>1, EndShows
  <2> QED
    BY <2>2, <2>3
<1>10. ASSUME NEW c \in Call, ProviderActs(c) PROVE ShownInv'
  BY <1>1, <1>10, QuietShows DEF ProviderActs
<1>11. ASSUME NEW cap \in Capability, Probe(cap) \/ Revoke(cap) \/ Rotate(cap) PROVE ShownInv'
  BY <1>11, QuietShows DEF Probe, Revoke, Rotate
<1>12. CASE Restart
  BY <1>1, <1>2, <1>12, QuietShows DEF Restart
<1>13. CASE UNCHANGED vars
  BY <1>13, QuietShows DEF vars
<1> QED
  BY <1>5, <1>6, <1>7, <1>8, <1>9, <1>10, <1>11, <1>12, <1>13 DEF Next

-----------------------------------------------------------------------------
(* The theorems                                                            *)

\* Nothing has happened yet.
LEMMA GatewayInit == Init => OnceInv /\ ToldInv /\ ReadsNothing /\ ShownInv
<1> SUFFICES ASSUME Init PROVE OnceInv /\ ToldInv /\ ReadsNothing /\ ShownInv
  OBVIOUS
<1>1. GatewayTypeOK
  BY CallsAssumption DEF Init, GatewayTypeOK, CapabilityState, Rank, Terminal, NoTerminal, Outcome
<1>2. "idle" \notin Outcome \cup {"replayed", "admitted", "calling"}
  BY DEF Outcome
<1>3. \A c \in Call : ~Onward(c) /\ ~InFlight(c) /\ effect[c] = "none" /\ pc[c] = "idle"
  BY DEF Init, Onward, InFlight, Sent
<1>4. NothingYet /\ Paid /\ Alone
  BY <1>3 DEF NothingYet, Paid, Alone
<1>5. OutcomesRecorded /\ KeptIsDone /\ ReplayIsTrue
  BY <1>2, <1>3 DEF Init, OutcomesRecorded, KeptIsDone, ReplayIsTrue
<1>6. OneAtATime /\ NothingKept /\ Called
  BY <1>2, <1>3 DEF OneAtATime, NothingKept, Called
<1>7. ReadsNothing /\ ShownInv
  BY <1>3, CallsAssumption DEF Init, ReadsNothing, ShownInv, Sent, Shows
<1> QED
  BY <1>1, <1>4, <1>5, <1>6, <1>7 DEF OnceInv, ToldInv

\* The invariant of the lane.
LEMMA GatewayInvariant == Spec => [](OnceInv /\ ToldInv /\ ReadsNothing /\ ShownInv)
<1>1. OnceInv /\ ToldInv /\ ReadsNothing /\ ShownInv /\ [Next]_vars
         => OnceInv' /\ ToldInv' /\ ReadsNothing' /\ ShownInv'
  BY OnceStep, ToldStep, ReadsStep, ShownStep
<1> QED
  BY <1>1, GatewayInit, PTL DEF Spec

\* For any clients, ids, approvals and restarts: a request id and an approval
\* each let at most one write through to the provider.
THEOREM OneWrite == Spec => [](GatewayTypeOK /\ OneWritePerRequest /\ ApprovalSpentOnce)
<1>1. OnceInv => OneWritePerRequest /\ ApprovalSpentOnce
  <2> SUFFICES ASSUME OnceInv PROVE OneWritePerRequest /\ ApprovalSpentOnce
    OBVIOUS
  <2>1. \A c \in Call : Sent(c) => Onward(c)
    BY DEF Onward
  <2>2. OneWritePerRequest
    BY <2>1 DEF OnceInv, Alone, OneWritePerRequest
  <2>3. ApprovalSpentOnce
    BY <2>1 DEF OnceInv, Alone, Paid, ApprovalSpentOnce
  <2> QED
    BY <2>2, <2>3
<1>2. OnceInv => GatewayTypeOK
  BY DEF OnceInv
<1> QED
  BY <1>1, <1>2, GatewayInvariant, PTL

\* What a client was told has a terminal record of its own, or is the refusal for a
\* record that could not be made, after which nothing is sent; and a replayed success is
\* the success of a write with the same key.
THEOREM ToldTheTruth == Spec => [](CompleteAudit /\ ReplayIsTrue)
<1>1. OnceInv /\ ToldInv => CompleteAudit /\ ReplayIsTrue
  BY DEF OnceInv, NothingYet, ToldInv, CompleteAudit, Sent
<1> QED
  BY <1>1, GatewayInvariant, PTL

\* A key whose success is kept is never sent to the provider again.
THEOREM KeptKey == Spec => KeptKeyRests
<1> DEFINE Rests == \A c \in Call : ~Sent(c) /\ Sent(c)' /\ KeyOf[c] # NoKey
                                        => entries[KeyOf[c]] = NoCall
<1>1. ASSUME OnceInv, ToldInv, [Next]_vars PROVE Rests
  <2> SUFFICES ASSUME NEW c \in Call, ~Sent(c), Sent(c)', KeyOf[c] # NoKey
               PROVE  entries[KeyOf[c]] = NoCall
    OBVIOUS
  <2>1. effect \in [Call -> {"none", "sent", "done", "never"}] /\ effect[c] = "none" /\ effect'[c] # "none"
    BY <1>1 DEF OnceInv, GatewayTypeOK, Sent
  <2>2. ASSUME NEW d \in Call, Resolve(d) PROVE c = d /\ pc[c] = "admitted" /\ IsWrite(c)
    BY <2>1, <2>2 DEF Resolve
  <2>3. ASSUME NEW d \in Call, TypedRefusal(d) PROVE c = d /\ IsWrite(c) /\ pc[c] = "calling"
    BY <2>1, <2>3 DEF TypedRefusal
  <2>4. ASSUME NEW d \in Call,
               Deny(d) \/ AdmitRead(d) \/ AdmitWrite(d) \/ Succeed(d) \/ BadResult(d) \/ LoseTrack(d)
        PROVE  FALSE
    BY <2>1, <2>4 DEF Deny, AdmitRead, AdmitWrite, Succeed, BadResult, LoseTrack
  <2>5. ASSUME NEW d \in Call, ProviderActs(d) PROVE FALSE
    BY <2>1, <2>5 DEF ProviderActs
  <2>6. ASSUME NEW cap \in Capability, Probe(cap) \/ Revoke(cap) \/ Rotate(cap) PROVE FALSE
    BY <2>1, <2>6 DEF Probe, Revoke, Rotate
  <2>7. ~Restart /\ ~UNCHANGED vars
    BY <2>1 DEF Restart, vars
  <2>8. IsWrite(c) /\ (pc[c] = "admitted" \/ pc[c] = "calling")
    BY <1>1, <2>2, <2>3, <2>4, <2>5, <2>6, <2>7 DEF Next
  <2>9. pc[c] = "admitted"
    BY <1>1, <2>8 DEF ToldInv, Called
  <2> QED
    BY <1>1, <2>8, <2>9 DEF ToldInv, NothingKept
<1>2. OnceInv /\ ToldInv /\ [Next]_vars => Rests
  BY <1>1
<1>3. Spec => [][Rests]_vars
  BY <1>2, GatewayInvariant, PTL DEF Spec
<1> QED
  BY <1>3 DEF KeptKeyRests

\* How a step may change what became of the writes.
LEMMA WriteMoves ==
    ASSUME OnceInv, [Next]_vars
    PROVE  \/ effect' = effect
           \/ \E c \in Call : \/ Onward(c) /\ effect[c] = "none" /\ effect' = [effect EXCEPT ![c] = "sent"]
                              \/ effect[c] # "done" /\ effect' = [effect EXCEPT ![c] = "never"]
                              \/ effect[c] = "sent" /\ effect' = [effect EXCEPT ![c] = "done"]
<1>1. ASSUME NEW c \in Call, Resolve(c), effect' # effect
      PROVE  Onward(c) /\ effect[c] = "none" /\ effect' = [effect EXCEPT ![c] = "sent"]
  BY <1>1 DEF Resolve, OnceInv, NothingYet, Onward, InFlight
<1>2. ASSUME NEW c \in Call, TypedRefusal(c), effect' # effect
      PROVE  effect[c] # "done" /\ effect' = [effect EXCEPT ![c] = "never"]
  BY <1>2 DEF TypedRefusal
<1>3. ASSUME NEW c \in Call, ProviderActs(c)
      PROVE  \/ effect[c] # "done" /\ effect' = [effect EXCEPT ![c] = "never"]
             \/ effect[c] = "sent" /\ effect' = [effect EXCEPT ![c] = "done"]
  BY <1>3 DEF ProviderActs
<1>4. ASSUME NEW c \in Call,
             Deny(c) \/ AdmitRead(c) \/ AdmitWrite(c) \/ Succeed(c) \/ BadResult(c) \/ LoseTrack(c)
      PROVE  effect' = effect
  BY <1>4 DEF Deny, AdmitRead, AdmitWrite, Succeed, BadResult, LoseTrack
<1>5. ASSUME NEW cap \in Capability, Probe(cap) \/ Revoke(cap) \/ Rotate(cap) PROVE effect' = effect
  BY <1>5 DEF Probe, Revoke, Rotate
<1>6. Restart \/ UNCHANGED vars => effect' = effect
  BY DEF Restart, vars
<1> QED
  BY <1>1, <1>2, <1>3, <1>4, <1>5, <1>6 DEF Next

\* Of the calls of a request id at most one is on its way or was sent, so every step
\* is one of EffectOnce, or changes no write.
LEMMA WriteOnceStep ==
    ASSUME OnceInv, [Next]_vars
    PROVE  [Writes!EffectNext]_[r \in RequestId |-> EffectOf(r)]
<1> DEFINE writes == [r \in RequestId |-> EffectOf(r)]
<1>1. /\ effect \in [Call -> {"none", "sent", "done", "never"}]
      /\ \A c \in Call : IdOf[c] \in RequestId
  BY CallsAssumption DEF OnceInv, GatewayTypeOK
<1>2. ASSUME NEW c \in Call, NEW d \in Call, c # d, IdOf[c] = IdOf[d], Onward(c)
      PROVE  effect[d] = "none"
  BY <1>2 DEF OnceInv, Alone, Onward, Sent
<1>3. CASE effect' = effect
  BY <1>3 DEF EffectOf
<1>4. ASSUME NEW c \in Call, NEW fate \in {"sent", "never", "done"}, effect' = [effect EXCEPT ![c] = fate],
             \/ Onward(c) /\ effect[c] = "none" /\ fate = "sent"
             \/ effect[c] # "done" /\ fate = "never"
             \/ effect[c] = "sent" /\ fate = "done"
      PROVE  Writes!EffectNext \/ writes' = writes
  <2>1. PICK r \in RequestId : r = IdOf[c]
    BY <1>1
  <2>2. /\ effect'[c] = fate /\ \A d \in Call \ {c} : effect'[d] = effect[d]
        /\ \A q \in RequestId \ {r} : EffectOf(q)' = EffectOf(q)
    <3>1. effect'[c] = fate /\ \A d \in Call \ {c} : effect'[d] = effect[d]
      BY <1>1, <1>4
    <3> QED
      BY <2>1, <3>1 DEF EffectOf
  <2>3. \/ EffectOf(r) = "none" /\ EffectOf(r)' = "open"
        \/ EffectOf(r) = "open" /\ EffectOf(r)' \in {"done", "none"}
        \/ EffectOf(r)' = EffectOf(r)
    <3>1. CASE effect[c] = "none" /\ fate = "sent"
      <4>1. \A d \in Call : IdOf[d] = r => effect[d] = "none"
        BY <1>2, <1>4, <2>1, <3>1
      <4> QED
        BY <2>1, <2>2, <3>1, <4>1 DEF EffectOf
    <3>2. CASE effect[c] = "sent"
      <4>1. \A d \in Call \ {c} : IdOf[d] = r => effect[d] = "none"
        BY <1>2, <2>1, <3>2 DEF Onward, Sent
      <4> QED
        BY <1>4, <2>1, <2>2, <3>2, <4>1 DEF EffectOf
    <3>3. CASE effect[c] \in {"none", "never"} /\ fate = "never"
      BY <2>1, <2>2, <3>3 DEF EffectOf
    <3> QED
      BY <1>1, <1>4, <3>1, <3>2, <3>3
  <2>4. PICK old, new : /\ old = [q \in RequestId |-> EffectOf(q)] /\ old = writes
                        /\ new = [q \in RequestId |-> EffectOf(q)'] /\ new = writes'
    OBVIOUS
  <2>5. \A q \in RequestId : old[q] = EffectOf(q) /\ new[q] = EffectOf(q)'
    BY <2>4
  <2>6. new = [old EXCEPT ![r] = EffectOf(r)']
    BY <2>2, <2>4, <2>5
  <2>7. CASE EffectOf(r) = "none" /\ EffectOf(r)' = "open"
    <3>1. old[r] = "none" /\ new = [old EXCEPT ![r] = "open"] /\ [q \in RequestId |-> {}][r] = {}
      BY <2>5, <2>6, <2>7
    <3> QED
      BY <2>4, <3>1 DEF Writes!EffectNext, Writes!Attempt
  <2>8. CASE EffectOf(r) = "open" /\ EffectOf(r)' \in {"done", "none"}
    <3>1. old[r] = "open" /\ \E x \in {"done", "none"} : new = [old EXCEPT ![r] = x]
      BY <2>5, <2>6, <2>8
    <3> QED
      BY <2>4, <3>1 DEF Writes!EffectNext, Writes!Settle
  <2>9. CASE EffectOf(r)' = EffectOf(r)
    <3>1. \A q \in RequestId : new[q] = old[q]
      BY <2>2, <2>5, <2>9
    <3> QED
      BY <2>4, <3>1
  <2> QED
    BY <2>3, <2>7, <2>8, <2>9
<1> QED
  BY <1>3, <1>4, WriteMoves

\* For any clients, ids, keys, approvals and restarts: the write of a request id is
\* brought about as EffectOnce says, by whichever of the calls that carry the id.
THEOREM WritesOnce == Spec => ImplementsWrites
<1> DEFINE writes == [r \in RequestId |-> EffectOf(r)]
<1>1. Init => Writes!EffectInit
  <2> SUFFICES ASSUME Init PROVE \A r \in RequestId : EffectOf(r) = "none"
    BY DEF Writes!EffectInit
  <2> QED
    BY DEF Init, EffectOf
<1>2. OnceInv /\ [Next]_vars => [Writes!EffectNext]_writes
  BY WriteOnceStep
<1>3. Spec => Writes!EffectInit /\ [][Writes!EffectNext]_writes
  <2> HIDE DEF writes
  <2> QED
    BY <1>1, <1>2, GatewayInvariant, PTL DEF Spec
<1> QED
  BY <1>3, PTL DEF ImplementsWrites, Writes!EffectSpec

\* For any clients, ids, keys, approvals and restarts: an approval lets one
\* write through, a replay tells of a success that took place, and the audit
\* sink shows every write that was or may yet be carried out.
THEOREM GatewayAudited == Spec => []GatewayAccounted
<1>1. OnceInv /\ ShownInv => AuditShowsEffect
  <2> SUFFICES ASSUME OnceInv, ShownInv, NEW c \in Call, effect[c] \in {"sent", "done"}, Single(c)
               PROVE  IdOf[c] \in intent /\ Shows(c)
    BY DEF AuditShowsEffect, Single, Shows
  <2> QED
    BY DEF OnceInv, Paid, Onward, Sent, ShownInv
<1> QED
  BY <1>1, OneWrite, ToldTheTruth, GatewayInvariant, PTL DEF GatewayAccounted

\* Whatever the probes report, and in whatever order: a capability is raised
\* only from CONFIGURED, or by the registry being built again.
THEOREM Demoting == Spec => ProbesOnlyDemote
<1> DEFINE Lowers == \A cap \in Capability :
              Rank[state'[cap]] > Rank[state[cap]] => state[cap] = "CONFIGURED" \/ Restart
<1>1. ASSUME OnceInv, [Next]_vars PROVE Lowers
  <2>1. state \in [Capability -> CapabilityState] /\ Rank \in [CapabilityState -> 0 .. 6]
    BY <1>1 DEF OnceInv, GatewayTypeOK, CapabilityState, Rank
  <2>2. CASE state' = state
    BY <2>1, <2>2
  <2>3. ASSUME NEW cap \in Capability, Probe(cap) PROVE Lowers
    <3>1. PICK report \in Report : state' = [state EXCEPT ![cap] = Classified(cap, report)]
                                \/ state' = [state EXCEPT ![cap] = Demoted(state[cap], report)]
      BY <2>3 DEF Probe
    <3>2. report \in CapabilityState
      BY DEF Report, CapabilityState, Rank
    <3>3. Rank[Demoted(state[cap], report)] <= Rank[state[cap]]
      BY <2>1, <3>2 DEF Demoted
    <3>4. state[cap] # "CONFIGURED" => Classified(cap, report) = Demoted(state[cap], report)
      BY DEF Classified
    <3>5. ASSUME NEW other \in Capability, state[other] # "CONFIGURED"
          PROVE  Rank[state'[other]] <= Rank[state[other]]
      BY <2>1, <3>1, <3>3, <3>4, <3>5
    <3>6. state' \in [Capability -> CapabilityState]
      <4>1. Demoted(state[cap], report) \in CapabilityState /\ Classified(cap, report) \in CapabilityState
        BY <2>1, <3>2 DEF Demoted, Classified, CapabilityState, Rank
      <4> QED
        BY <2>1, <3>1, <4>1
    <3> QED
      BY <2>1, <3>5, <3>6
  <2> QED
    BY <1>1, <2>2, <2>3 DEF Next, Deny, AdmitRead, AdmitWrite, Resolve, Succeed, BadResult,
                            TypedRefusal, LoseTrack, ProviderActs, Revoke, Rotate, vars
<1>2. OnceInv /\ [Next]_vars => Lowers
  BY <1>1
<1>3. Spec => [][Lowers]_vars
  BY <1>2, GatewayInvariant, PTL DEF Spec
<1> QED
  BY <1>3 DEF ProbesOnlyDemote
=============================================================================
