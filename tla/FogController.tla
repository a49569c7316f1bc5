----------------------------- MODULE FogController -----------------------------
(***************************************************************************)
(* The fog controller of Fog4VR and the clients and servers that share its *)
(* global table serverData: which server is on, how much of its memory is  *)
(* free and which contents it holds.  A client connects to the home server *)
(* first; when that connection succeeds it asks the controller for a       *)
(* server, moves there, may be moved on by the scenario (SetHandover), and *)
(* gives the memory back when its session ends.                            *)
(*                                                                         *)
(* A client's session is seen from outside (StreamClient has the inside).  *)
(* Each TCP connection has two ends: the client's callback for a           *)
(* connection runs before the server's HandleAccept for it, a close by the *)
(* client reaches the server's HandlePeerClose later, after HandleAccept.  *)
(* The events of different connections are not ordered.                    *)
(***************************************************************************)
EXTENDS Integers, Sequences, SequencesExt, FiniteSets, FiniteSetsExt

CONSTANTS
    Clients,
    NumServers,     \* nServers
    Home,           \* the server of fogAddress[7]: clients start there, policy 7 names it
    MemorySize,     \* memorySize, by server
    Content,        \* conId, by client
    Size,           \* conSize, by client
    Region,         \* by client, the ServerId attribute the scenario gives it
    Policies,       \* values of the option politica
    MaxContents,    \* limit of AHP.py and pliLocal.py on the contents of a server (10)
    MaxHandovers    \* bound on the calls of SetHandover by the scenario

Servers == 0..(NumServers - 1)

ASSUME ClientsAssumption == IsFiniteSet(Clients)
ASSUME NumServersAssumption == NumServers \in Nat \ {0}
ASSUME HomeAssumption == Home \in Servers
ASSUME MemorySizeAssumption == MemorySize \in [Servers -> Nat]
ASSUME SizeAssumption == Size \in [Clients -> Nat]
ASSUME RegionAssumption == Region \in [Clients -> Servers]
ASSUME PoliciesAssumption == Policies \subseteq 0..8
ASSUME MaxContentsAssumption == MaxContents \in Nat
ASSUME MaxHandoversAssumption == MaxHandovers \in Nat

Contents == {Content[c] : c \in Clients}
None == -1

VARIABLES
    polId,                  \* the policy, the same for every client
    aborted,                \* an uncaught exception has ended the simulation
    \* serverData
    onOff, memoryFree, allocatedContentType,
    \* the servers
    m_connectedClients,     \* by server: connections, in the order they were accepted
    \* the clients
    phase,                  \* "idle", "initial", "streaming" or "terminal"
    serverId,               \* the server whose memory the client uses
    fetched,                \* a segment was downloaded from the server chosen, or a later one
    handover,               \* server of a pending handover, or None
    handovers,              \* calls of SetHandover so far
    \* the network
    links                   \* by client: its connections, the last one is m_socket

serverData == <<onOff, memoryFree, allocatedContentType>>
clients == <<phase, serverId, fetched, handover, handovers>>
vars == <<polId, aborted, serverData, m_connectedClients, clients, links>>

Init ==
    /\ polId \in Policies
    /\ aborted = FALSE
    /\ onOff = [s \in Servers |-> FALSE]
    /\ memoryFree = MemorySize
    /\ allocatedContentType = [s \in Servers |-> <<>>]
    /\ m_connectedClients = [s \in Servers |-> <<>>]
    /\ phase = [c \in Clients |-> "idle"]
    /\ serverId = Region
    /\ fetched = [c \in Clients |-> FALSE]
    /\ handover = [c \in Clients |-> None]
    /\ handovers = 0
    /\ links = [c \in Clients |-> <<>>]

-------------------------------------------------------------------------------
(***************************************************************************)
(* The controller's functions.                                             *)
(***************************************************************************)

\* Mutant: the memory is given to the server the client came from.
AddContentElsewhere(s, c) ==
    /\ memoryFree' = [memoryFree EXCEPT ![serverId[c]] = @ - Size[c]]
    /\ allocatedContentType' = [allocatedContentType EXCEPT ![s] = Append(@, Content[c])]

addContent(s, c) ==
    /\ memoryFree' = [memoryFree EXCEPT ![s] = @ - Size[c]]
    /\ allocatedContentType' = [allocatedContentType EXCEPT ![s] = Append(@, Content[c])]

\* Mutant: a content that another client still uses stays allocated.
RemoveContentUnshared(s, c) ==
    /\ memoryFree' = [memoryFree EXCEPT ![s] = @ + Size[c]]
    /\ allocatedContentType' =
           IF \E d \in Clients \ {c} : phase[d] = "streaming" /\ Content[d] = Content[c]
           THEN allocatedContentType
           ELSE [allocatedContentType EXCEPT ![s] = RemoveFirst(@, Content[c])]
    /\ onOff' = [onOff EXCEPT ![s] = FALSE]

\* Mutant: the server is left as it is.
RemoveContentStillOn(s, c) ==
    /\ memoryFree' = [memoryFree EXCEPT ![s] = @ + Size[c]]
    /\ allocatedContentType' = [allocatedContentType EXCEPT ![s] = RemoveFirst(@, Content[c])]
    /\ UNCHANGED onOff

\* The first entry of the content is erased; the server is turned off whoever
\* else uses it.
removeContent(s, c) ==
    /\ memoryFree' = [memoryFree EXCEPT ![s] = @ + Size[c]]
    /\ allocatedContentType' = [allocatedContentType EXCEPT ![s] = RemoveFirst(@, Content[c])]
    /\ onOff' = [onOff EXCEPT ![s] = FALSE]

choiceServer(s, c) ==
    /\ onOff' = [onOff EXCEPT ![s] = TRUE]
    /\ addContent(s, c)

\* The servers a script puts in its lists: the rows of the controller's log
\* with enough free memory.
Fitting(c) == {s \in Servers : memoryFree[s] >= Size[c]}

\* Mutant: the answer counts from one.
PositionFromOne(s, c) == Cardinality({t \in Fitting(c) : t < s}) + 1

\* ServersIP.index: the position of a server in those lists.
Position(s, c) == Cardinality({t \in Fitting(c) : t < s})

\* Mutant: the script finds the row's free memory wherever it is in the list.
ListsAgreeAlways(c) == TRUE

\* Mutant: the script looks one entry further.
ListsAgreeFurther(c) == \A s \in Fitting(c) : s < Position(s, c)

\* The script reads freeMemory[i] with the number i of the row: it fails when a
\* row before i was left out and the list is too short.
ListsAgree(c) == \A s \in Fitting(c) : s <= Position(s, c)

\* An empty list of contents reads as one (empty) content.
Band(s) == IF allocatedContentType[s] = <<>> THEN 1 ELSE Len(allocatedContentType[s])

\* Mutant: a server at the limit is still ranked.
UnderLimitOrAtIt(s) == Band(s) <= MaxContents

UnderLimit(s) == Band(s) < MaxContents

\* The answers of a script that ranks the given servers: an index into its lists.
\* Min () of an empty list, and the first of no scores, are errors.
Answers(c, ranked) == IF ListsAgree(c) THEN {Position(s, c) : s \in ranked} ELSE {}

AHP(c) == Answers(c, {s \in Fitting(c) : UnderLimit(s)})
GulosoAleatorio(c) == Answers(c, Fitting(c))

\* The servers sendRequest may answer.  When a script fails it prints nothing,
\* and stoul throws: no answer.  Policy 7 runs AHP.py as well, then names the
\* home server; policies 0 to 3 leave the answer as constructed.
sendRequest(c) ==
    CASE polId \in {4, 8} -> AHP(c)
      [] polId \in {5, 6} -> GulosoAleatorio(c)
      [] polId = 7        -> IF AHP(c) = {} THEN {} ELSE {Home}
      [] OTHER            -> {0}

-------------------------------------------------------------------------------
(***************************************************************************)
(* Connections.  The client's end is "connecting", "open", "failed",       *)
(* "closed" after it was open, or "dropped" before; the server's end is    *)
(* "none", "accepted" or "closed".                                         *)
(***************************************************************************)
NewLink(s) == [to |-> s, client |-> "connecting", server |-> "none"]
LinkIsAt(c, at) == links[c] # <<>> /\ Last(links[c]).client = at

\* The client's last connection, its end now at.
LinkMoved(c, at) == [links[c] EXCEPT ![Len(links[c])].client = at]

\* m_socket->Close ().  A connection not yet established never reaches
\* HandleAccept.
Closed(seq) ==
    [seq EXCEPT ![Len(seq)].client = IF @ = "open" THEN "closed"
                                     ELSE IF @ = "connecting" THEN "dropped" ELSE @]

\* HandoverApplication: close, and connect to s.
HandoverApplication(seq, s) == Append(Closed(seq), NewLink(s))

StartApplication(c) ==
    /\ phase[c] = "idle"
    /\ phase' = [phase EXCEPT ![c] = "initial"]
    /\ links' = [links EXCEPT ![c] = <<NewLink(Home)>>]
    /\ UNCHANGED <<polId, aborted, serverData, m_connectedClients, serverId, fetched,
                   handover, handovers>>

\* Controller (init): the client is placed on server s, and moves on at once
\* when a handover is pending.
Placed(c, s) ==
    /\ choiceServer(s, c)
    /\ serverId' = [serverId EXCEPT ![c] = s]
    /\ phase' = [phase EXCEPT ![c] = "streaming"]
    /\ handover' = [handover EXCEPT ![c] = None]
    /\ LET moved == HandoverApplication(LinkMoved(c, "open"), s)
       IN  links' = [links EXCEPT ![c] =
               IF handover[c] = None THEN moved ELSE HandoverApplication(moved, handover[c])]
    /\ UNCHANGED aborted

\* The exception of stoul is not caught.
Aborted ==
    /\ aborted' = TRUE
    /\ UNCHANGED <<serverData, phase, serverId, handover, links>>

ConnectionSucceeded(c) ==
    /\ LinkIsAt(c, "connecting")
    /\ IF phase[c] = "initial"
       THEN \/ \E s \in sendRequest(c) : Placed(c, s)
            \/ sendRequest(c) = {} /\ Aborted
       ELSE /\ links' = [links EXCEPT ![c] = LinkMoved(c, "open")]
            /\ UNCHANGED <<aborted, serverData, phase, serverId, handover>>
    /\ UNCHANGED <<polId, m_connectedClients, fetched, handovers>>

ConnectionFailed(c) ==
    /\ LinkIsAt(c, "connecting")
    /\ links' = [links EXCEPT ![c] = LinkMoved(c, "failed")]
    /\ UNCHANGED <<polId, aborted, serverData, m_connectedClients, clients>>

\* The scenario asks for a change of server at any time.
SetHandover(c, s) ==
    /\ handovers < MaxHandovers
    /\ handovers' = handovers + 1
    /\ handover' = [handover EXCEPT ![c] = s]
    /\ UNCHANGED <<polId, aborted, serverData, m_connectedClients, phase, serverId,
                   fetched, links>>

\* A segment has been downloaded: the moment a pending handover is carried out.
\* The memory stays with the server the controller chose.
DownloadFinished(c) ==
    /\ phase[c] = "streaming" /\ LinkIsAt(c, "open")
    /\ fetched' = [fetched EXCEPT ![c] = TRUE]
    /\ handover' = [handover EXCEPT ![c] = None]
    /\ links' = IF handover[c] = None THEN links
                ELSE [links EXCEPT ![c] = HandoverApplication(@, handover[c])]
    /\ UNCHANGED <<polId, aborted, serverData, m_connectedClients, phase, serverId, handovers>>

\* The session ends: finishedRequest, then StopApplication closes the socket.
SessionFinished(c) ==
    /\ phase[c] = "streaming" /\ fetched[c]
    /\ removeContent(serverId[c], c)
    /\ phase' = [phase EXCEPT ![c] = "terminal"]
    /\ links' = [links EXCEPT ![c] = Closed(@)]
    /\ UNCHANGED <<polId, aborted, m_connectedClients, serverId, fetched, handover, handovers>>

-------------------------------------------------------------------------------
(***************************************************************************)
(* The servers' end of connection k of client c.                           *)
(***************************************************************************)
HandleAccept(c, k) ==
    /\ links[c][k].client \in {"open", "closed"} /\ links[c][k].server = "none"
    /\ LET s == links[c][k].to
       IN  /\ m_connectedClients' = [m_connectedClients EXCEPT ![s] = Append(@, <<c, k>>)]
           /\ onOff' = [onOff EXCEPT ![s] = TRUE]
    /\ links' = [links EXCEPT ![c][k].server = "accepted"]
    /\ UNCHANGED <<polId, aborted, memoryFree, allocatedContentType, clients>>

HandlePeerClose(c, k) ==
    /\ links[c][k].client = "closed" /\ links[c][k].server = "accepted"
    /\ LET s == links[c][k].to
       IN  /\ m_connectedClients' = [m_connectedClients EXCEPT ![s] = RemoveFirst(@, <<c, k>>)]
           /\ onOff' = IF m_connectedClients'[s] = <<>>
                       THEN [onOff EXCEPT ![s] = FALSE] ELSE onOff
    /\ links' = [links EXCEPT ![c][k].server = "closed"]
    /\ UNCHANGED <<polId, aborted, memoryFree, allocatedContentType, clients>>

ServerStep(c) ==
    \E k \in 1..Len(links[c]) : HandleAccept(c, k) \/ HandlePeerClose(c, k)

Next ==
    /\ ~aborted
    /\ \E c \in Clients :
          \/ StartApplication(c)
          \/ ConnectionSucceeded(c)
          \/ ConnectionFailed(c)
          \/ \E s \in Servers : SetHandover(c, s)
          \/ DownloadFinished(c)
          \/ SessionFinished(c)
          \/ \E k \in 1..Len(links[c]) : HandleAccept(c, k)
          \/ \E k \in 1..Len(links[c]) : HandlePeerClose(c, k)

Spec == Init /\ [][Next]_vars

\* TCP tells the server of every connection and of every close.
Fairness == \A c \in Clients : WF_vars(~aborted /\ ServerStep(c))

FairSpec == Spec /\ Fairness

-------------------------------------------------------------------------------
(***************************************************************************)
(* Properties.                                                             *)
(***************************************************************************)
Link == [to : Servers,
         client : {"connecting", "open", "failed", "closed", "dropped"},
         server : {"none", "accepted", "closed"}]

\* Every variable has the type of the member it models.
TypeOK ==
    /\ polId \in Policies /\ aborted \in BOOLEAN
    /\ onOff \in [Servers -> BOOLEAN]
    /\ memoryFree \in [Servers -> Int]
    /\ allocatedContentType \in [Servers -> Seq(Contents)]
    /\ m_connectedClients \in [Servers -> Seq(Clients \X (Nat \ {0}))]
    /\ phase \in [Clients -> {"idle", "initial", "streaming", "terminal"}]
    /\ serverId \in [Clients -> Servers]
    /\ fetched \in [Clients -> BOOLEAN]
    /\ handover \in [Clients -> Servers \union {None}]
    /\ handovers \in Nat
    /\ links \in [Clients -> Seq(Link)]

Users(s) == {c \in Clients : phase[c] = "streaming" /\ serverId[c] = s}

\* A server's free memory and the sizes of the sessions placed on it add up to
\* its memory: each session takes its memory once and gives it back once, to the
\* same server, wherever it was moved in between.
MemoryConserved ==
    \A s \in Servers :
        memoryFree[s] + MapThenSumSet(LAMBDA c : Size[c], Users(s)) = MemorySize[s]

\* The contents of a server are those of the sessions placed on it, with their
\* multiplicity: removeContent always finds what it erases (erasing the end of
\* the vector would be undefined behaviour).
ContentsMatch ==
    \A s \in Servers : \A x \in Contents :
        Cardinality({i \in DOMAIN allocatedContentType[s] : allocatedContentType[s][i] = x})
            = Cardinality({c \in Users(s) : Content[c] = x})

\* The policies that run a script and use its answer never place a session on a
\* server without room for it, although the answer is an index into a list the
\* servers without room were left out of.
NoOvercommit ==
    polId \in {4, 5, 6, 8} => \A s \in Servers : memoryFree[s] >= 0

\* The policies that look at the number of contents keep it within their limit,
\* an empty server, which reads as one with one content, included.
ContentsBounded ==
    polId \in {4, 8} => \A s \in Servers : Len(allocatedContentType[s]) <= MaxContents

\* A script fails, and its empty answer ends the simulation, only while some
\* server has no room for the client that waits, or as many contents as the
\* policies allow: placing, moving and finishing other clients is no reason.
AbortsOnlyUnderLoad ==
    aborted => \E c \in Clients : /\ phase[c] = "initial"
                                  /\ \E s \in Servers : s \notin Fitting(c) \/ ~UnderLimit(s)

\* When every session has ended, every server is eventually off and has no
\* client left, in whatever order the servers hear of connections and closes.
ServersOffAtTheEnd ==
    (\A c \in Clients : phase[c] = "terminal")
        ~> [](\A s \in Servers : ~onOff[s] /\ m_connectedClients[s] = <<>>)
===============================================================================
