--------------------------------- MODULE Anchors ---------------------------------
(* The anchor registries, twice: the mock backend (core/anchors/mock.go) that   *)
(* tests and demos run on, and the contracts (contracts/polygon/src) it stands  *)
(* for. Every call is made to both, and each accepts or refuses it by its own   *)
(* conditions.                                                                  *)
EXTENDS Integers, FiniteSets

CONSTANTS
  Accounts, Admin,
  ValidatorIDs,
  CredentialHashes, ProposalHashes, QCHashes,
  MaxAnchored, MaxGrants  \* bounds on the accepted calls and on changes of authorization

VARIABLES
  roles,             \* MockBackend.roles: the accounts of a role
  mock,              \* the records of the mock backend
  anchorTick,        \* MockBackend.tick
  authorized,        \* AnchorAccess.authorized of a contract
  grants,            \* changes of authorization so far
  contract,          \* the records of the contracts
  unlike             \* history: a record was given that only one of them checks

anchorVars == << roles, mock, anchorTick, authorized, grants, contract, unlike >>

\* One contract for each role of the mock backend.
Registries == {"identity", "credential", "governance", "qc"}

Put(f, k, v) == [x \in DOMAIN f \cup {k} |-> IF x = k THEN v ELSE f[x]]
EmptyRecords == [i \in {} |-> 0]
Empty == [r \in Registries |-> EmptyRecords]

\* The fields the checks look at. A validity of 0 has no end.
IdentityInputs == [key : ValidatorIDs \cup {""}, complete : BOOLEAN, metadata : {"", "m1", "m2"}]
CredentialInputs == [key : CredentialHashes \cup {""}, subject : ValidatorIDs \cup {""},
                     issuer : ValidatorIDs, from : {0, 1}, until : {0, 1}]
ProposalStates == {"", "anchored", "accepted", "rejected", "executed"}
ProposalInputs == [key : ProposalHashes \cup {""}, creator : BOOLEAN, state : {"", "accepted"}]
QCInputs == [key : QCHashes \cup {""}, block : BOOLEAN, event : BOOLEAN, threshold : 0..1, signers : 0..1]

--------------------------------------------------------------------------------
\* What the mock backend checks of a record.
ValidateIdentityRecord(r) == r.key # "" /\ r.complete /\ r.metadata # ""
ValidateCredentialRecord(r) ==
  r.key # "" /\ r.subject # "" /\ ~(r.until > 0 /\ r.until < r.from)
ValidateGovernanceProposalRecord(r) == r.key # "" /\ r.creator
ValidateQuorumCertificateRecord(r) ==
  r.key # "" /\ (r.block \/ r.event) /\ r.threshold > 0 /\ r.signers >= r.threshold

\* When a contract does not revert.
hasIdentity(id) == id \in DOMAIN contract["identity"]
validateIdentityInput(r) == r.key # "" /\ r.complete
registerIdentity(actor, r) ==
  actor \in authorized["identity"] /\ validateIdentityInput(r) /\ ~hasIdentity(r.key)
updateIdentity(actor, r) ==
  actor \in authorized["identity"] /\ validateIdentityInput(r) /\ hasIdentity(r.key)
anchorCredential(actor, r) ==
  /\ actor \in authorized["credential"]
  /\ r.key # "" /\ r.key \notin DOMAIN contract["credential"]
  /\ hasIdentity(r.subject) /\ hasIdentity(r.issuer)
  /\ ~(r.until # 0 /\ r.until < r.from)
anchorProposal(actor, r) ==
  /\ actor \in authorized["governance"]
  /\ r.key # "" /\ r.key \notin DOMAIN contract["governance"]
updateProposalState(actor, key, state) ==
  /\ actor \in authorized["governance"]
  /\ key \in DOMAIN contract["governance"] /\ state # ""
anchorQuorumCertificate(actor, r) ==
  /\ actor \in authorized["qc"]
  /\ r.key # "" /\ (r.block \/ r.event)
  /\ ~(r.threshold = 0 \/ r.signers < r.threshold)
  /\ r.key \notin DOMAIN contract["qc"]

--------------------------------------------------------------------------------
\* A call to both backends, each of which writes what it accepts. "alike" says
\* that both look at every field of the record that one of them looks at; the
\* histories explored end with the first record that is not.
write(accepted, records, reg, key, value) ==
  IF accepted THEN [records EXCEPT ![reg] = Put(@, key, value)] ELSE records

callBoth(reg, key, value, mockAccepts, contractValue, contractAccepts, alike) ==
  /\ anchorTick < MaxAnchored /\ ~unlike
  /\ mock' = write(mockAccepts, mock, reg, key, value)
  /\ contract' = write(contractAccepts, contract, reg, key, contractValue)
  /\ anchorTick' = IF mockAccepts THEN anchorTick + 1 ELSE anchorTick
  /\ unlike' = (unlike \/ ~alike)
  /\ UNCHANGED << roles, authorized, grants >>

authorizedLocked(reg, actor) == actor \in roles[reg]

\* RegisterIdentity and UpdateIdentity: only the mock asks for a metadata hash.
RegisterIdentity(actor, r) ==
  callBoth("identity", r.key, r.metadata,
    /\ ValidateIdentityRecord(r)
    /\ authorizedLocked("identity", actor)
    /\ r.key \notin DOMAIN mock["identity"],
    r.metadata, registerIdentity(actor, r), r.metadata # "")

UpdateIdentity(actor, r) ==
  callBoth("identity", r.key, r.metadata,
    /\ ValidateIdentityRecord(r)
    /\ authorizedLocked("identity", actor)
    /\ r.key \in DOMAIN mock["identity"],
    r.metadata, updateIdentity(actor, r), r.metadata # "")

AnchorCredential_NoIssuer(actor, r) ==
  callBoth("credential", r.key, r,
    /\ ValidateCredentialRecord(r)
    /\ authorizedLocked("credential", actor)
    /\ r.subject \in DOMAIN mock["identity"]
    /\ r.key \notin DOMAIN mock["credential"],
    r, anchorCredential(actor, r), TRUE)

AnchorCredential(actor, r) ==
  callBoth("credential", r.key, r,
    /\ ValidateCredentialRecord(r)
    /\ authorizedLocked("credential", actor)
    /\ {r.subject, r.issuer} \subseteq DOMAIN mock["identity"]
    /\ r.key \notin DOMAIN mock["credential"],
    r, anchorCredential(actor, r), TRUE)

\* The mock asks for a creator and keeps a state that the record brings.
AnchorGovernanceProposal(actor, r) ==
  callBoth("governance", r.key, IF r.state = "" THEN "anchored" ELSE r.state,
    /\ ValidateGovernanceProposalRecord(r)
    /\ authorizedLocked("governance", actor)
    /\ r.key \notin DOMAIN mock["governance"],
    "anchored", anchorProposal(actor, r), r.creator /\ r.state = "")

\* The empty state is the contract's ProposalState.Unknown.
UpdateGovernanceProposalState(actor, key, state) ==
  callBoth("governance", key, state,
    /\ key # "" /\ state # ""
    /\ authorizedLocked("governance", actor)
    /\ key \in DOMAIN mock["governance"],
    state, updateProposalState(actor, key, state), TRUE)

AnchorQuorumCertificate(actor, r) ==
  callBoth("qc", r.key, r,
    /\ ValidateQuorumCertificateRecord(r)
    /\ authorizedLocked("qc", actor)
    /\ r.key \notin DOMAIN mock["qc"],
    r, anchorQuorumCertificate(actor, r), TRUE)

--------------------------------------------------------------------------------
grant == grants < MaxGrants /\ ~unlike /\ grants' = grants + 1

\* setAuthorized, by any authorized account, and the Authorize that mirrors it.
SetAuthorized(actor, reg, account, allowed) ==
  /\ actor \in authorized[reg]
  /\ authorized' = [authorized EXCEPT ![reg] = IF allowed THEN @ \cup {account} ELSE @ \ {account}]
  /\ roles' = [roles EXCEPT ![reg] = IF allowed THEN @ \cup {account} ELSE @ \ {account}]
  /\ grant
  /\ UNCHANGED << mock, anchorTick, contract, unlike >>

\* transferOwnership authorizes the new owner and leaves the old one authorized;
\* no check reads the owner itself.
TransferOwnership(actor, reg, account) ==
  /\ actor \in authorized[reg]
  /\ authorized' = [authorized EXCEPT ![reg] = @ \cup {account}]
  /\ roles' = [roles EXCEPT ![reg] = @ \cup {account}]
  /\ grant
  /\ UNCHANGED << mock, anchorTick, contract, unlike >>

--------------------------------------------------------------------------------
AnchorInit ==
  /\ roles = [r \in Registries |-> {Admin}]
  /\ mock = Empty
  /\ anchorTick = 0
  /\ authorized = [r \in Registries |-> {Admin}]
  /\ grants = 0
  /\ contract = Empty
  /\ unlike = FALSE

AnchorNext ==
  \E actor \in Accounts :
    \/ \E r \in IdentityInputs : RegisterIdentity(actor, r) \/ UpdateIdentity(actor, r)
    \/ \E r \in CredentialInputs : AnchorCredential(actor, r)
    \/ \E r \in ProposalInputs : AnchorGovernanceProposal(actor, r)
    \/ \E key \in ProposalHashes \cup {""}, s \in ProposalStates :
         UpdateGovernanceProposalState(actor, key, s)
    \/ \E r \in QCInputs : AnchorQuorumCertificate(actor, r)
    \/ \E reg \in Registries, account \in Accounts :
         \/ TransferOwnership(actor, reg, account)
         \/ \E allowed \in BOOLEAN : SetAuthorized(actor, reg, account, allowed)

AnchorSpec == AnchorInit /\ [][AnchorNext]_anchorVars

--------------------------------------------------------------------------------
\* The mock backend stands for the contracts: after the same calls, in any order
\* and by any accounts, both hold the same records, whichever calls each refused,
\* as long as no identity came without a metadata hash and no proposal without a
\* creator or with a state of its own, which only the mock looks at.
MockMatchesContracts == unlike \/ mock = contract
================================================================================
