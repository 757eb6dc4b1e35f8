----------------------------- MODULE NodeLookup -----------------------------
(***************************************************************************)
(* How the teardown finds a Machine's node among the etcd members that a   *)
(* peer lists (internal/teardown/etcd.go): by the names the node may have, *)
(* up to the first dot and in any letter case.  Teardown uses the result,  *)
(* FindMember of TeardownEnv; LookupExact says that this is what the names *)
(* lead to, in every state of the membership.                              *)
(***************************************************************************)
EXTENDS Teardown

CONSTANTS
    Labels,         \* first labels of host names, in lower case
    Domains,        \* what may follow the first label; "" for nothing
    InfraName,      \* spec.infrastructureRef.name of each Machine
    MachineName,    \* its metadata.name
    Registered,     \* the name under which each node is an etcd member
    Statuses        \* what the status of each Machine may report at a lookup

(* A host name: its first label, how it is written, and the rest. *)
Name == [label : Labels, upper : BOOLEAN, domain : Domains]
NoName == [label |-> "", upper |-> FALSE, domain |-> ""]

(* The names that CABPT may give to the node of m: hostname.source is       *)
(* InfrastructureName or MachineName.                                       *)
HostnameSources(m) == {InfraName[m], MachineName[m]}

(* The ways in which a host name is reported. *)
Spellings(h) == {n \in Name : n.label = h.label}

ASSUME LabelsAssumption == Labels \subseteq STRING /\ "" \notin Labels
ASSUME DomainsAssumption == Domains \subseteq STRING /\ "" \in Domains
ASSUME NamesAssumption ==
    InfraName \in [Machines -> Name] /\ MachineName \in [Machines -> Name]

(* The node registers some spelling of its name, and the Machine's status   *)
(* reports some spelling of it, or nothing.                                 *)
ASSUME SpellingsAssumption ==
    \A m \in Machines : \E h \in HostnameSources(m) :
        /\ Registered[m] \in Spellings(h)
        /\ Statuses[m] \subseteq [nodeRef : Spellings(h) \union {NoName},
                                  hostName : Spellings(h) \union {NoName}]

(* Not only the names of the Machines are unique, but their first labels. *)
DistinctLabels ==
    \A m, n \in Machines : m # n =>
        \A a \in HostnameSources(m), b \in HostnameSources(n) : a.label # b.label

-----------------------------------------------------------------------------

(* Only the names CACPPT's auditEtcd knows: a node that never joined the    *)
(* Kubernetes cluster has none.                                             *)
Bug_HostnameCandidates(m, status) ==
    LET nodeName == IF status.hostName # NoName THEN status.hostName ELSE status.nodeRef
    IN  {nodeName} \ {NoName}

(* hostnameCandidates: the node's name, if one is known, the infrastructure *)
(* name and the Machine's name.                                             *)
HostnameCandidates(m, status) ==
    LET nodeName == IF status.hostName # NoName THEN status.hostName ELSE status.nodeRef
    IN  {nodeName, InfraName[m], MachineName[m]} \ {NoName}

(* strings.Cut at the first dot, and strings.EqualFold. *)
FirstLabel(n) == [n EXCEPT !.domain = ""]
EqualFold(a, b) == [a EXCEPT !.upper = FALSE] = [b EXCEPT !.upper = FALSE]

MatchesMember(candidates, hostname) ==
    \E c \in candidates : EqualFold(FirstLabel(c), FirstLabel(hostname))

(* findMember returns the first of these, in the order of the answer. *)
MatchingMembers(list, candidates) ==
    {x \in list : MatchesMember(candidates, x.hostname)}

(* The answer of a peer. *)
EtcdMemberList == {[id |-> p, hostname |-> Registered[p]] : p \in members}

-----------------------------------------------------------------------------

(* At every point of the teardowns, the member list has an entry for a      *)
(* victim exactly while its node is a member, and never another node's,     *)
(* whatever the status of the Machine reports by then and however the names *)
(* are spelled: "multiple candidates cannot match different members".       *)
LookupExact ==
    \A m \in Machines : \A status \in Statuses[m] :
        {x.id : x \in MatchingMembers(EtcdMemberList, HostnameCandidates(m, status))}
            = {p \in {m} : FindMember(p)}
=============================================================================
