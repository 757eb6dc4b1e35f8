-------------------------- MODULE NodeLookupProofs --------------------------
(***************************************************************************)
(* With distinct first labels, what findMember returns is what Teardown    *)
(* takes it to return.                                                     *)
(***************************************************************************)
EXTENDS NodeLookup, TeardownProofs

(* Two names match when their first labels do. *)
LEMMA MatchIsLabel ==
    ASSUME NEW a \in Name, NEW b \in Name
    PROVE  EqualFold(FirstLabel(a), FirstLabel(b)) <=> a.label = b.label
  BY DEF Name, EqualFold, FirstLabel

(* The name of a node is a candidate, and every candidate is one that the   *)
(* node may have.                                                           *)
LEMMA CandidateLabels ==
    ASSUME NEW m \in Machines, NEW status \in Statuses[m]
    PROVE  /\ HostnameSources(m) \subseteq HostnameCandidates(m, status)
           /\ \A c \in HostnameCandidates(m, status) :
                c \in Name /\ \E h \in HostnameSources(m) : c.label = h.label
  <1>1. PICK h \in HostnameSources(m) :
            Statuses[m] \subseteq [nodeRef : Spellings(h) \union {NoName},
                                   hostName : Spellings(h) \union {NoName}]
    BY SpellingsAssumption
  <1>2. /\ status.nodeRef \in Spellings(h) \union {NoName}
        /\ status.hostName \in Spellings(h) \union {NoName}
    BY <1>1
  <1>3. InfraName[m] \in Name /\ MachineName[m] \in Name
    BY NamesAssumption
  <1>4. NoName \notin Name
    <2>1. NoName.label = ""
      BY DEF NoName
    <2>. QED  BY <2>1, LabelsAssumption DEF Name
  <1>5. HostnameSources(m) \subseteq HostnameCandidates(m, status)
    BY <1>3, <1>4 DEF HostnameSources, HostnameCandidates
  <1>6. ASSUME NEW c \in HostnameCandidates(m, status)
        PROVE  c \in Name /\ \E g \in HostnameSources(m) : c.label = g.label
    <2>1. CASE c \in HostnameSources(m)
      BY <1>3, <2>1 DEF HostnameSources
    <2>2. CASE c \notin HostnameSources(m)
      <3>1. c # NoName /\ c \in {status.nodeRef, status.hostName}
        BY <1>6, <2>2 DEF HostnameCandidates, HostnameSources
      <3>. QED  BY <1>2, <3>1 DEF Spellings
    <2>. QED  BY <2>1, <2>2
  <1>. QED  BY <1>5, <1>6

(* Only the own member matches, and it does. *)
LEMMA MatchesOwn ==
    ASSUME DistinctLabels, NEW m \in Machines, NEW status \in Statuses[m], NEW p \in Machines
    PROVE  MatchesMember(HostnameCandidates(m, status), Registered[p]) <=> p = m
  <1>1. PICK g \in HostnameSources(p) : Registered[p] \in Spellings(g)
    BY SpellingsAssumption
  <1>2. Registered[p] \in Name /\ Registered[p].label = g.label
    BY <1>1 DEF Spellings
  <1>3. ASSUME p = m PROVE MatchesMember(HostnameCandidates(m, status), Registered[p])
    <2>1. g \in HostnameCandidates(m, status) /\ g \in Name
      BY <1>1, <1>3, CandidateLabels
    <2>2. EqualFold(FirstLabel(g), FirstLabel(Registered[p]))
      BY <1>2, <2>1, MatchIsLabel
    <2>. QED  BY <2>1, <2>2 DEF MatchesMember
  <1>4. ASSUME MatchesMember(HostnameCandidates(m, status), Registered[p]) PROVE p = m
    <2>1. PICK c \in HostnameCandidates(m, status) :
              EqualFold(FirstLabel(c), FirstLabel(Registered[p]))
      BY <1>4 DEF MatchesMember
    <2>2. c \in Name /\ \E h \in HostnameSources(m) : c.label = h.label
      BY <2>1, CandidateLabels
    <2>3. c.label = g.label
      BY <1>2, <2>1, <2>2, MatchIsLabel
    <2>. QED  BY <1>1, <2>2, <2>3 DEF DistinctLabels
  <1>. QED  BY <1>3, <1>4

(* In any cluster whose names differ in their first labels, findMember      *)
(* returns the victim's own member, exactly while it is one, whatever has   *)
(* been reported of the Machine and however its names are spelled.          *)
THEOREM LookupSafety ==
    ASSUME DistinctLabels
    PROVE  Spec => []LookupExact
  <1>1. ASSUME members \subseteq Machines PROVE LookupExact
    <2>. SUFFICES ASSUME NEW m \in Machines, NEW status \in Statuses[m]
                  PROVE  {x.id : x \in MatchingMembers(EtcdMemberList,
                                                        HostnameCandidates(m, status))}
                             = {p \in {m} : FindMember(p)}
      BY DEF LookupExact
    <2>. DEFINE Entry(p) == [id |-> p, hostname |-> Registered[p]]
                Found == MatchingMembers(EtcdMemberList, HostnameCandidates(m, status))
    <2>1. ASSUME NEW x \in Found PROVE x.id = m /\ m \in members
      <3>1. PICK p \in members : x = Entry(p)
        BY <2>1 DEF MatchingMembers, EtcdMemberList
      <3>2. MatchesMember(HostnameCandidates(m, status), Registered[p])
        BY <2>1, <3>1 DEF MatchingMembers
      <3>3. p = m
        BY <1>1, <3>2, MatchesOwn
      <3>. QED  BY <3>1, <3>3
    <2>2. ASSUME m \in members PROVE Entry(m) \in Found /\ Entry(m).id = m
      <3>1. MatchesMember(HostnameCandidates(m, status), Registered[m])
        BY MatchesOwn
      <3>2. Entry(m) \in EtcdMemberList
        BY <2>2 DEF EtcdMemberList
      <3>3. Entry(m).hostname = Registered[m] /\ Entry(m).id = m
        OBVIOUS
      <3>. QED  BY <3>1, <3>2, <3>3 DEF MatchingMembers
    <2>. HIDE DEF Found, Entry
    <2>3. {x.id : x \in Found} = {p \in {m} : p \in members}
      BY <2>1, <2>2
    <2>. QED  BY <2>3 DEF FindMember, Found
  <1>2. TypeOK => members \subseteq Machines
    BY SubsetsAssumption DEF TypeOK, EnvTypeOK
  <1>. QED  BY <1>1, <1>2, TypeCorrectness, PTL
=============================================================================
