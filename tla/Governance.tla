----------------------------- MODULE Governance -----------------------------
(***************************************************************************)
(* Who may use the broker: services register and an administrator audits   *)
(* them onto the local whitelist; in direct mode remote appchains and      *)
(* their services are registered in the transaction chaincode.  Emissions  *)
(* and incoming calls pass or fail on these tables.                        *)
(*                                                                         *)
(* One action is one committed Fabric transaction.  An audit whose vote    *)
(* does not decide returns an error: its count and its voter are lost.     *)
(***************************************************************************)
EXTENDS Integers, Sequences

CONSTANTS
  Orgs,         \* MSPs that call the chaincodes
  Admin,        \* the one in adminList: Init's caller, and nobody after it
  Services,     \* local chaincodes, as the signed proposal names them
  Broker,       \* the broker chaincode itself
  Remotes,      \* full ids of remote services
  ChainOf,      \* the appchain of each
  Thresholds,   \* values of valThreshold an admin may initialize with
  MaxListed     \* bound: length of localServiceList

ASSUME AdminAssumption      == Admin \in Orgs
ASSUME BrokerAssumption     == Broker \in Services
ASSUME ThresholdsAssumption == Thresholds \subseteq Int
ASSUME MaxListedAssumption  == MaxListed \in Nat

Chains == {ChainOf[r] : r \in Remotes}

VARIABLES
  valThreshold,      \* 0: direct mode; > 0: relay mode; < 0: unreadable
  localProposal,     \* a map: the services that have a proposal, and each one
  localWhitelist,    \* audited services
  localServiceList,  \* audited services, in order of their audit
  serviceOrdered,    \* a map: whether an audited service asked for order
  appchains,         \* the transaction chaincode's appchains
  remoteWhiteList,   \* a map: the remote services registered, and for each the
                     \* organisations listed with it
  lastEmission,      \* history: the last emission, service and remote service
  lastCall           \* history: the last call, remote service and service

broker      == <<valThreshold, localProposal, localWhitelist, localServiceList,
                 serviceOrdered>>
transaction == <<appchains, remoteWhiteList>>
history     == <<lastEmission, lastCall>>
vars        == <<broker, transaction, history>>

Passed   == 1
Rejected == 0

Proposals == [approve : Nat, reject : Nat, voted : SUBSET Orgs, ordered : BOOLEAN]

TypeOK ==
  /\ valThreshold \in Thresholds \union {1}
  /\ DOMAIN localProposal \subseteq Services
  /\ \A s \in DOMAIN localProposal : localProposal[s] \in Proposals
  /\ localWhitelist \subseteq Services
  /\ localServiceList \in Seq(Services) /\ Len(localServiceList) <= MaxListed
  /\ DOMAIN serviceOrdered \subseteq Services
  /\ \A s \in DOMAIN serviceOrdered : serviceOrdered[s] \in BOOLEAN
  /\ appchains \subseteq Chains
  /\ DOMAIN remoteWhiteList \subseteq Remotes
  /\ \A r \in DOMAIN remoteWhiteList : remoteWhiteList[r] \subseteq Orgs
  /\ lastEmission \in {<<>>} \union (Services \X Remotes)
  /\ lastCall \in {<<>>} \union (Remotes \X Services)

EmptyMap == [x \in {} |-> TRUE]

(* Go's f[k] = v: a new entry, or another value in an old one.             *)
Put(f, k, v) == [x \in DOMAIN f \union {k} |-> IF x = k THEN v ELSE f[x]]

Init ==
  /\ valThreshold = 1
  /\ localProposal = EmptyMap /\ localWhitelist = {}
  /\ localServiceList = <<>> /\ serviceOrdered = EmptyMap
  /\ appchains = {} /\ remoteWhiteList = EmptyMap
  /\ lastEmission = <<>> /\ lastCall = <<>>

-----------------------------------------------------------------------------

(* Mutant of InitMap: the whitelist survives. *)
InitMapKeepsWhitelist ==
  /\ localProposal' = EmptyMap
  /\ serviceOrdered' = EmptyMap
  /\ UNCHANGED <<localWhitelist, localServiceList>>

(* initMap: localServiceList is not among the tables it empties. *)
InitMap ==
  /\ localProposal' = EmptyMap
  /\ localWhitelist' = {}
  /\ serviceOrdered' = EmptyMap
  /\ UNCHANGED localServiceList

(* Mutant of InitTransaction: the remote services survive. *)
InitTransactionKeepsRemotes == appchains' = {} /\ UNCHANGED remoteWhiteList

(* initialize of the transaction chaincode. *)
InitTransaction == appchains' = {} /\ remoteWhiteList' = EmptyMap

(* initialize, by the admin; the histories restart with the tables. *)
Initialize(t) ==
  /\ valThreshold' = t
  /\ InitMap
  /\ IF t = 0 THEN InitTransaction ELSE UNCHANGED transaction
  /\ lastEmission' = <<>> /\ lastCall' = <<>>

Readable == valThreshold >= 0
Direct   == valThreshold = 0

(* Mutant of Known: a service may replace its proposal. *)
KnownNever(s) == FALSE

Known(s) == s \in localWhitelist \/ s \in DOMAIN localProposal

(* register, called through service s.  A known one is answered with       *)
(* success and changes nothing.                                            *)
Register(s, ordered) ==
  /\ ~Known(s)
  /\ localProposal' = Put(localProposal, s, [approve |-> 0, reject |-> 0,
                                            voted |-> {}, ordered |-> ordered])
  /\ UNCHANGED <<valThreshold, localWhitelist, localServiceList, serviceOrdered,
                 transaction, history>>

(* Mutant of AdminThreshold. *)
AdminThresholdTwo == 2

AdminThreshold == 1

(* The list of admins the quorum is computed from is never filled. *)
RejectQuorum == 0 - AdminThreshold + 1

(* Mutant of Voted: the vote is stored for the voter. *)
VotedStatus(p, a, status) ==
  [p EXCEPT !.voted = @ \union {status}, !.approve = @ + 1]

(* vote: the proposal with one more vote, and whether that decides. *)
Voted(p, a, status) ==
  LET q == [p EXCEPT !.voted = @ \union {a}] IN
  IF status = Passed THEN [q EXCEPT !.approve = @ + 1] ELSE [q EXCEPT !.reject = @ + 1]

Decides(p, status) ==
  IF status = Passed THEN p.approve = AdminThreshold ELSE p.reject = RejectQuorum

Audit(s, a, status) ==
  /\ a = Admin
  /\ s \in DOMAIN localProposal /\ a \notin localProposal[s].voted
  /\ LET p == Voted(localProposal[s], a, status) IN
     /\ Decides(p, status)
     /\ localProposal' = [localProposal EXCEPT ![s] = p]
     /\ IF status = Passed
        THEN /\ Len(localServiceList) < MaxListed             \* bound
             /\ localWhitelist' = localWhitelist \union {s}
             /\ localServiceList' = Append(localServiceList, s)
             /\ serviceOrdered' = Put(serviceOrdered, s, p.ordered)
        ELSE UNCHANGED <<localWhitelist, localServiceList, serviceOrdered>>
  /\ UNCHANGED <<valThreshold, transaction, history>>

(* registerAppchain, through the broker. *)
RegisterAppchain(c) ==
  /\ c \notin appchains
  /\ appchains' = appchains \union {c}
  /\ UNCHANGED <<broker, remoteWhiteList, history>>

(* registerRemoteService, through the broker: again replaces the list. *)
RegisterRemoteService(r, orgs) ==
  /\ ChainOf[r] \in appchains
  /\ remoteWhiteList' = Put(remoteWhiteList, r, orgs)
  /\ UNCHANGED <<broker, appchains, history>>

(* The guards of an emission.  In direct mode an organisation on the       *)
(* remote service's "white list" is the one that is turned away, and the   *)
(* transaction chaincode serves a proposal only if it names the broker.    *)
MayEmit(s, org, r) ==
  /\ s \in localWhitelist
  /\ Direct => /\ s = Broker
               /\ r \in DOMAIN remoteWhiteList /\ org \notin remoteWhiteList[r]

Emit(s, org, r) ==
  /\ Readable
  /\ MayEmit(s, org, r)
  /\ lastEmission' = <<s, r>>
  /\ UNCHANGED <<broker, transaction, lastCall>>

(* Mutant of MayCall: the two modes swapped. *)
MayCallSwapped(r, s) == IF Direct THEN s \in localWhitelist ELSE r \in DOMAIN remoteWhiteList

(* checkService.  In direct mode the list is looked up under the local     *)
(* service's name, where there never is one.                               *)
MayCall(r, s) == IF Direct THEN r \in DOMAIN remoteWhiteList ELSE s \in localWhitelist

(* invokeInterchain, by the admin, as far as the tables decide it. *)
Call(r, s) ==
  /\ Readable
  /\ MayCall(r, s)
  /\ lastCall' = <<r, s>>
  /\ UNCHANGED <<broker, transaction, lastEmission>>

Next ==
  \/ \E t \in Thresholds : Initialize(t)
  \/ \E s \in Services, ordered \in BOOLEAN : Register(s, ordered)
  \/ \E s \in Services, a \in Orgs, status \in {Passed, Rejected} : Audit(s, a, status)
  \/ \E c \in Chains : RegisterAppchain(c)
  \/ \E r \in Remotes, orgs \in SUBSET Orgs : RegisterRemoteService(r, orgs)
  \/ \E s \in Services, org \in Orgs, r \in Remotes : Emit(s, org, r)
  \/ \E r \in Remotes, s \in Services : Call(r, s)

(* The admin, when asked, keeps voting one way until it is accepted. *)
Approving == \A s \in Services : WF_vars(Audit(s, Admin, Passed))
Rejecting == \A s \in Services : WF_vars(Audit(s, Admin, Rejected))

Spec          == Init /\ [][Next]_vars /\ Approving
RejectingSpec == Init /\ [][Next]_vars /\ Rejecting

-----------------------------------------------------------------------------

(* The four tables of the broker agree: a service is on the whitelist iff  *)
(* its proposal carries the admin's approval, and then it is listed and    *)
(* has the order it asked for.                                             *)
TablesAgree ==
  \A s \in Services :
    /\ s \in localWhitelist <=>
         /\ s \in DOMAIN localProposal
         /\ localProposal[s].approve = 1 /\ Admin \in localProposal[s].voted
    /\ s \in localWhitelist =>
         /\ \E k \in DOMAIN localServiceList : localServiceList[k] = s
         /\ s \in DOMAIN serviceOrdered
         /\ serviceOrdered[s] = localProposal[s].ordered

(* A remote service is registered only while its appchain is, whichever    *)
(* modes the broker was initialized to in between.                         *)
RemotesOnChains == \A r \in DOMAIN remoteWhiteList : ChainOf[r] \in appchains

(* Since the last initialize, whoever emitted was audited, and whoever     *)
(* exchanged a message in direct mode did so with a service of a           *)
(* registered appchain; in relay mode only audited services were called.   *)
TrafficBacked ==
  /\ lastEmission # <<>> =>
       /\ lastEmission[1] \in localWhitelist
       /\ Direct => ChainOf[lastEmission[2]] \in appchains
  /\ lastCall # <<>> =>
       IF Direct THEN ChainOf[lastCall[1]] \in appchains
                 ELSE lastCall[2] \in localWhitelist

(* An audit is final: until the admin initializes again, no registration   *)
(* and no vote touches a service on the whitelist.                         *)
AuditFinal ==
  [][\/ \E t \in Thresholds : Initialize(t)
     \/ \A s \in localWhitelist :
          /\ s \in localWhitelist'
          /\ localProposal'[s] = localProposal[s]
          /\ serviceOrdered'[s] = serviceOrdered[s]
    ]_vars

(* A registered service whose admin approves gets onto the whitelist,      *)
(* unless the broker is initialized first (or the bound is reached).       *)
ApprovalCounts ==
  \A s \in Services :
    s \in DOMAIN localProposal ~>
      (s \in localWhitelist \/ s \notin DOMAIN localProposal
       \/ Len(localServiceList) = MaxListed)

(* What register says of an audit: it ends with passed or with failed.  A  *)
(* registered service whose admin keeps rejecting should see its proposal  *)
(* decided, unless the broker is initialized first.                        *)
RejectionCounts ==
  \A s \in Services :
    s \in DOMAIN localProposal ~>
      (s \notin DOMAIN localProposal \/ localProposal[s].voted # {})
=============================================================================
