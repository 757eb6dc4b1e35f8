---------------------------- MODULE MCNodeLookup ----------------------------
(* An instance of NodeLookup for TLC. *)
EXTENDS NodeLookup

MCName(l, up, d) == [label |-> l, upper |-> up, domain |-> d]

(* The nodes are named after the Hardware. *)
MCInfraName ==
    [m \in Machines |-> CASE m = 1 -> MCName("hw-1", FALSE, "")
                          [] m = 2 -> MCName("hw-2", FALSE, "lan")
                          [] m = 3 -> MCName("hw-3", FALSE, "")]
MCMachineName ==
    [m \in Machines |-> CASE m = 1 -> MCName("cp-1", FALSE, "")
                          [] m = 2 -> MCName("cp-2", FALSE, "")
                          [] m = 3 -> MCName("cp-3", FALSE, "lan")]

(* The members are spelled otherwise. *)
MCRegistered ==
    [m \in Machines |-> CASE m = 1 -> MCName("hw-1", TRUE, "lan")
                          [] m = 2 -> MCName("hw-2", FALSE, "")
                          [] m = 3 -> MCName("hw-3", TRUE, "")]

(* The node has not been reported, or its name, or its address as well. *)
MCStatuses ==
    [m \in Machines |->
        {[nodeRef |-> NoName, hostName |-> NoName],
         [nodeRef |-> MCInfraName[m], hostName |-> NoName],
         [nodeRef |-> MCInfraName[m], hostName |-> MCRegistered[m]]}]
=============================================================================
