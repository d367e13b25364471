------------------------- MODULE Governance_proofs -------------------------
(***************************************************************************)
(* Proofs about who may use the broker, for any organisations, services,   *)
(* remote services, appchains and thresholds.  IInv, the conjunction of    *)
(* the invariants that are model-checked, is inductive.                    *)
(***************************************************************************)
EXTENDS Governance, TLAPS

IInv ==
  /\ TypeOK
  /\ TablesAgree
  /\ RemotesOnChains
  /\ TrafficBacked

USE AdminAssumption, BrokerAssumption, ThresholdsAssumption, MaxListedAssumption

(* A vote counts once, and its voter is remembered. *)
LEMMA VotedProposal ==
  ASSUME NEW p \in Proposals, NEW a \in Orgs, NEW status
  PROVE  /\ Voted(p, a, status) \in Proposals
         /\ a \in Voted(p, a, status).voted
         /\ status # Passed => Voted(p, a, status).reject = p.reject + 1
  <1> DEFINE q == [p EXCEPT !.voted = @ \union {a}]
  <1>1. q \in Proposals /\ a \in q.voted /\ q.reject = p.reject
    BY DEF Proposals
  <1>2. Voted(p, a, status) = IF status = Passed THEN [q EXCEPT !.approve = @ + 1]
                                                 ELSE [q EXCEPT !.reject = @ + 1]
    BY DEF Voted
  <1> HIDE DEF q
  <1>3. /\ [q EXCEPT !.approve = @ + 1] \in Proposals
        /\ [q EXCEPT !.approve = @ + 1].voted = q.voted
    BY <1>1 DEF Proposals
  <1>4. /\ [q EXCEPT !.reject = @ + 1] \in Proposals
        /\ [q EXCEPT !.reject = @ + 1].voted = q.voted
        /\ [q EXCEPT !.reject = @ + 1].reject = q.reject + 1
    BY <1>1 DEF Proposals
  <1> QED BY <1>1, <1>2, <1>3, <1>4

(* The initial state, with nobody registered, satisfies the invariant. *)
LEMMA InitInv == Init => IInv
  BY DEF Init, EmptyMap, IInv, TypeOK, TablesAgree, RemotesOnChains, TrafficBacked

(* An initialize by the admin starts over.  The registries of the          *)
(* transaction chaincode are reset together, or not at all.                *)
LEMMA InitializeInv ==
  ASSUME IInv, NEW t \in Thresholds, Initialize(t)
  PROVE  IInv'
  <1> USE DEF IInv, Initialize, InitMap, InitTransaction, EmptyMap, transaction
  <1>1. TypeOK'
    BY DEF TypeOK
  <1>2. TablesAgree'
    BY DEF TablesAgree
  <1>3. RemotesOnChains'
    BY DEF RemotesOnChains
  <1>4. TrafficBacked'
    BY DEF TrafficBacked
  <1> QED BY <1>1, <1>2, <1>3, <1>4

(* A registration gives a proposal to a service that had none. *)
LEMMA RegisterInv ==
  ASSUME IInv, NEW s \in Services, NEW ordered \in BOOLEAN, Register(s, ordered)
  PROVE  IInv'
  <1> DEFINE p == [approve |-> 0, reject |-> 0, voted |-> {}, ordered |-> ordered]
  <1>1. /\ s \notin localWhitelist /\ s \notin DOMAIN localProposal
        /\ localProposal' = Put(localProposal, s, p)
        /\ UNCHANGED <<valThreshold, localWhitelist, localServiceList,
                       serviceOrdered, appchains, remoteWhiteList,
                       lastEmission, lastCall>>
    BY DEF Register, Known, transaction, history
  <1>2. p \in Proposals
    BY DEF Proposals
  <1> HIDE DEF p
  <1>3. /\ DOMAIN localProposal' = DOMAIN localProposal \union {s}
        /\ localProposal'[s] = p
        /\ \A x \in DOMAIN localProposal : localProposal'[x] = localProposal[x]
    BY <1>1 DEF Put
  <1>4. TypeOK'
    BY <1>1, <1>2, <1>3 DEF IInv, TypeOK
  <1>5. TablesAgree'
    <2>1. p.approve = 0
      BY DEF p
    <2> QED BY <1>1, <1>3, <2>1 DEF IInv, TablesAgree
  <1>6. RemotesOnChains' /\ TrafficBacked'
    BY <1>1 DEF IInv, RemotesOnChains, TrafficBacked, Direct
  <1> QED BY <1>4, <1>5, <1>6 DEF IInv

(* A vote that decides is an approval: the quorum of rejections is none,   *)
(* and a rejection has passed it already.                                  *)
LEMMA OnlyApprovals ==
  ASSUME IInv, NEW s \in Services, NEW a \in Orgs, NEW status \in {Passed, Rejected},
         Audit(s, a, status)
  PROVE  \E q \in Proposals :
           /\ s \in DOMAIN localProposal /\ s \notin localWhitelist
           /\ q.approve = 1 /\ Admin \in q.voted
           /\ localProposal' = [localProposal EXCEPT ![s] = q]
           /\ Len(localServiceList) < MaxListed
           /\ localWhitelist' = localWhitelist \union {s}
           /\ localServiceList' = Append(localServiceList, s)
           /\ serviceOrdered' = Put(serviceOrdered, s, q.ordered)
  <1> USE DEF Passed, Rejected
  <1>1. /\ a = Admin /\ s \in DOMAIN localProposal
        /\ Admin \notin localProposal[s].voted
    BY DEF Audit
  <1>2. localProposal[s] \in Proposals
    BY <1>1 DEF IInv, TypeOK
  <1>3. status = Passed
    <2> SUFFICES ASSUME status = Rejected PROVE FALSE
      OBVIOUS
    <2>1. Voted(localProposal[s], a, status).reject = localProposal[s].reject + 1
      BY <1>2, VotedProposal
    <2>2. Voted(localProposal[s], a, status).reject = 0
      BY DEF Audit, Decides, RejectQuorum, AdminThreshold
    <2> QED BY <2>1, <2>2, <1>2 DEF Proposals
  <1>4. s \notin localWhitelist
    BY <1>1 DEF IInv, TablesAgree
  <1> DEFINE q == Voted(localProposal[s], a, status)
  <1>5. q \in Proposals /\ Admin \in q.voted
    BY <1>1, <1>2, VotedProposal
  <1>6. s \in DOMAIN localProposal /\ s \notin localWhitelist
    BY <1>1, <1>4
  <1>7. q.approve = 1
    BY <1>3 DEF Audit, Decides, AdminThreshold
  <1>8. /\ localProposal' = [localProposal EXCEPT ![s] = q]
        /\ Len(localServiceList) < MaxListed
        /\ localWhitelist' = localWhitelist \union {s}
        /\ localServiceList' = Append(localServiceList, s)
        /\ serviceOrdered' = Put(serviceOrdered, s, q.ordered)
    BY <1>3 DEF Audit
  <1> QED BY <1>5, <1>6, <1>7, <1>8

(* An audit puts the service on the whitelist with its approval.           *)
LEMMA AuditInv ==
  ASSUME IInv, NEW s \in Services, NEW a \in Orgs, NEW status \in {Passed, Rejected},
         Audit(s, a, status)
  PROVE  IInv'
  <1>1. PICK q \in Proposals :
           /\ s \in DOMAIN localProposal /\ s \notin localWhitelist
           /\ q.approve = 1 /\ Admin \in q.voted
           /\ localProposal' = [localProposal EXCEPT ![s] = q]
           /\ Len(localServiceList) < MaxListed
           /\ localWhitelist' = localWhitelist \union {s}
           /\ localServiceList' = Append(localServiceList, s)
           /\ serviceOrdered' = Put(serviceOrdered, s, q.ordered)
    BY OnlyApprovals
  <1>2. UNCHANGED <<valThreshold, appchains, remoteWhiteList, lastEmission, lastCall>>
    BY DEF Audit, transaction, history
  <1>3. /\ DOMAIN localProposal' = DOMAIN localProposal
        /\ localProposal'[s] = q
        /\ \A x \in DOMAIN localProposal : x # s => localProposal'[x] = localProposal[x]
    BY <1>1
  <1>4. /\ DOMAIN serviceOrdered' = DOMAIN serviceOrdered \union {s}
        /\ serviceOrdered'[s] = q.ordered
        /\ \A x \in DOMAIN serviceOrdered : x # s => serviceOrdered'[x] = serviceOrdered[x]
    BY <1>1 DEF Put
  <1>5. localServiceList \in Seq(Services)
    BY DEF IInv, TypeOK
  <1>6. /\ localServiceList' \in Seq(Services)
        /\ Len(localServiceList') = Len(localServiceList) + 1
        /\ localServiceList'[Len(localServiceList) + 1] = s
        /\ \A k \in DOMAIN localServiceList : localServiceList'[k] = localServiceList[k]
        /\ DOMAIN localServiceList' = DOMAIN localServiceList \union {Len(localServiceList) + 1}
    BY <1>1, <1>5
  <1>7. TypeOK'
    <2>1. q.ordered \in BOOLEAN
      BY DEF Proposals
    <2>2. Len(localServiceList') <= MaxListed
      BY <1>1, <1>5, <1>6
    <2> QED BY <1>1, <1>2, <1>3, <1>4, <1>6, <2>1, <2>2 DEF IInv, TypeOK
  <1>8. TablesAgree'
    BY <1>1, <1>3, <1>4, <1>6 DEF IInv, TablesAgree
  <1>9. RemotesOnChains' /\ TrafficBacked'
    BY <1>1, <1>2 DEF IInv, RemotesOnChains, TrafficBacked, Direct
  <1> QED BY <1>7, <1>8, <1>9 DEF IInv

(* The registries of remote appchains and services. *)
LEMMA RegistryInv ==
  ASSUME IInv,
         \/ \E c \in Chains : RegisterAppchain(c)
         \/ \E r \in Remotes, orgs \in SUBSET Orgs : RegisterRemoteService(r, orgs)
  PROVE  IInv'
  <1> USE DEF broker, history
  <1>1. ASSUME NEW c \in Chains, RegisterAppchain(c)
        PROVE  IInv'
    <2> USE <1>1 DEF RegisterAppchain
    <2>1. TypeOK'
      BY DEF IInv, TypeOK
    <2> QED BY <2>1 DEF IInv, TablesAgree, RemotesOnChains, TrafficBacked, Direct
  <1>2. ASSUME NEW r \in Remotes, NEW orgs \in SUBSET Orgs, RegisterRemoteService(r, orgs)
        PROVE  IInv'
    <2>1. /\ DOMAIN remoteWhiteList' = DOMAIN remoteWhiteList \union {r}
          /\ remoteWhiteList'[r] = orgs
          /\ \A x \in DOMAIN remoteWhiteList :
               x # r => remoteWhiteList'[x] = remoteWhiteList[x]
      BY <1>2 DEF RegisterRemoteService, Put
    <2>2. TypeOK'
      BY <1>2, <2>1 DEF RegisterRemoteService, IInv, TypeOK
    <2>3. TablesAgree'
      BY <1>2 DEF RegisterRemoteService, IInv, TablesAgree
    <2>4. RemotesOnChains'
      BY <1>2, <2>1 DEF RegisterRemoteService, IInv, RemotesOnChains
    <2>5. TrafficBacked'
      BY <1>2 DEF RegisterRemoteService, IInv, TrafficBacked, Direct
    <2> QED BY <2>2, <2>3, <2>4, <2>5 DEF IInv
  <1> QED BY <1>1, <1>2

(* An emission or a call passes the tables it is guarded by; in direct     *)
(* mode the remote service it names has an appchain.                       *)
LEMMA TrafficInv ==
  ASSUME IInv,
         \/ \E s \in Services, org \in Orgs, r \in Remotes : Emit(s, org, r)
         \/ \E r \in Remotes, s \in Services : Call(r, s)
  PROVE  IInv'
  <1> USE DEF broker, transaction
  <1>1. ASSUME NEW s \in Services, NEW org \in Orgs, NEW r \in Remotes, Emit(s, org, r)
        PROVE  IInv'
    <2> USE <1>1 DEF Emit
    <2>1. TypeOK'
      BY DEF IInv, TypeOK
    <2>2. TablesAgree' /\ RemotesOnChains'
      BY DEF IInv, TablesAgree, RemotesOnChains
    <2>3. TrafficBacked'
      BY DEF IInv, TrafficBacked, RemotesOnChains, MayEmit, Direct
    <2> QED BY <2>1, <2>2, <2>3 DEF IInv
  <1>2. ASSUME NEW r \in Remotes, NEW s \in Services, Call(r, s)
        PROVE  IInv'
    <2> USE <1>2 DEF Call
    <2>1. TypeOK'
      BY DEF IInv, TypeOK
    <2>2. TablesAgree' /\ RemotesOnChains'
      BY DEF IInv, TablesAgree, RemotesOnChains
    <2>3. TrafficBacked'
      BY DEF IInv, TrafficBacked, RemotesOnChains, MayCall, Direct
    <2> QED BY <2>1, <2>2, <2>3 DEF IInv
  <1> QED BY <1>1, <1>2

(* IInv holds for ever. *)
THEOREM Invariance == Spec => []IInv
  <1>1. IInv /\ [Next]_vars => IInv'
    <2> SUFFICES ASSUME IInv, [Next]_vars PROVE IInv'
      OBVIOUS
    <2>1. CASE Next
      BY <2>1, InitializeInv, RegisterInv, AuditInv, RegistryInv, TrafficInv DEF Next
    <2>2. CASE UNCHANGED vars
      BY <2>2 DEF vars, broker, transaction, history, IInv, TypeOK, TablesAgree,
                  RemotesOnChains, TrafficBacked, Direct
    <2> QED BY <2>1, <2>2
  <1> QED BY InitInv, <1>1, PTL DEF Spec

(* Type correctness of the governance tables. *)
THEOREM TypeCorrect == Spec => []TypeOK
  BY Invariance, PTL DEF IInv

(* Whitelist, proposals, service list and orders agree: register, audit    *)
(* and initialize write them one by one.                                   *)
THEOREM TablesStayInAgreement == Spec => []TablesAgree
  BY Invariance, PTL DEF IInv

(* No remote service outlives its appchain, whatever the mode switches.    *)
THEOREM RemotesStayOnChains == Spec => []RemotesOnChains
  BY Invariance, PTL DEF IInv

(* Only audited or registered parties exchange messages. *)
THEOREM TrafficIsBacked == Spec => []TrafficBacked
  BY Invariance, PTL DEF IInv

-----------------------------------------------------------------------------

(* register finds a whitelisted service known, and its proposal carries    *)
(* the only administrator's vote already: nothing but initialize touches   *)
(* it again.                                                               *)
THEOREM AuditIsFinal == Spec => AuditFinal
  <1> DEFINE Kept(s) == /\ s \in localWhitelist'
                        /\ localProposal'[s] = localProposal[s]
                        /\ serviceOrdered'[s] = serviceOrdered[s]
             A == \/ \E t \in Thresholds : Initialize(t)
                  \/ \A s \in localWhitelist : Kept(s)
  <1>1. IInv /\ [Next]_vars => [A]_vars
    <2> SUFFICES ASSUME IInv, Next PROVE A
      OBVIOUS
    <2>1. \A x \in localWhitelist : /\ x \in Services /\ x \in DOMAIN localProposal
                                    /\ x \in DOMAIN serviceOrdered
      BY DEF IInv, TypeOK, TablesAgree
    <2>2. CASE \E t \in Thresholds : Initialize(t)
      BY <2>2
    <2>3. ASSUME NEW s \in Services, NEW ordered \in BOOLEAN, Register(s, ordered)
          PROVE  A
      BY <2>1, <2>3 DEF Register, Known, Put
    <2>4. ASSUME NEW s \in Services, NEW a \in Orgs, NEW status \in {Passed, Rejected},
                 Audit(s, a, status)
          PROVE  A
      <3>1. PICK q \in Proposals :
               /\ s \in DOMAIN localProposal /\ s \notin localWhitelist
               /\ localProposal' = [localProposal EXCEPT ![s] = q]
               /\ localWhitelist' = localWhitelist \union {s}
               /\ serviceOrdered' = Put(serviceOrdered, s, q.ordered)
        BY <2>4, OnlyApprovals
      <3>2. ASSUME NEW x \in localWhitelist PROVE Kept(x)
        BY <2>1, <3>1 DEF Put
      <3> QED BY <3>2
    <2>5. CASE UNCHANGED broker
      BY <2>5 DEF broker
    <2> QED BY <2>2, <2>3, <2>4, <2>5
            DEF Next, RegisterAppchain, RegisterRemoteService, Emit, Call
  <1>2. Spec => [][A]_vars
    BY <1>1, Invariance, PTL DEF Spec
  <1> QED BY <1>2 DEF AuditFinal
=============================================================================
