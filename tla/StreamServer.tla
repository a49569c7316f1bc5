------------------------------ MODULE StreamServer ------------------------------
(***************************************************************************)
(* The video server of Fog4VR (TcpStreamServer): it answers a request for  *)
(* a number of bytes by writing that many bytes to the connection, as much *)
(* at a time as the socket's send buffer takes, and remembers in           *)
(* m_callbackData, per client address, how far it got.                     *)
(*                                                                         *)
(* Of the TCP connections (TcpSocketBase) the module keeps what the server *)
(* sees: a request, the data and the acknowledgements travel               *)
(* independently, data reach the client in order and exactly once, and the *)
(* socket calls HandleSend when an acknowledgement frees send buffer and   *)
(* when it has less to send than it might.  A client asks for a segment    *)
(* when it has received the previous one (StreamClient,                    *)
(* OneRequestOutstanding).                                                 *)
(***************************************************************************)
EXTENDS Integers, Sequences, SequencesExt

CONSTANTS
    Conns,      \* client addresses: a new port, and address, for every connection
    Sizes,      \* sizes of segments
    TxBuffer,   \* capacity of a socket's send buffer
    MaxRequests \* bound on the requests made on one connection

ASSUME SizesAssumption == Sizes \subseteq Nat \ {0}
ASSUME TxBufferAssumption == TxBuffer \in Nat \ {0}
ASSUME MaxRequestsAssumption == MaxRequests \in Nat

VARIABLES
    m_callbackData,     \* per address: currentTxBytes, packetSizeToReturn, send
    m_connectedClients, \* addresses in the order they were accepted
    onOff,              \* serverData.onOff of this server; FogController writes it too
    \* the connections
    conn,               \* "none", "open" or "closed" by the client
    requests,           \* requests made so far
    unread,             \* size asked for by a request the server has not read; 0: none
    flying,             \* bytes written by the server that have not reached the client
    unacked,            \* bytes that reached the client, not acknowledged to the server
    owed                \* bytes the client waits for

network == <<conn, requests, unread, flying, unacked, owed>>
vars == <<m_callbackData, m_connectedClients, onOff, network>>

NoData == [currentTxBytes |-> 0, packetSizeToReturn |-> 0, send |-> FALSE]

Init ==
    /\ m_callbackData = [c \in Conns |-> NoData]
    /\ m_connectedClients = <<>>
    /\ onOff = FALSE
    /\ conn = [c \in Conns |-> "none"]
    /\ requests = [c \in Conns |-> 0]
    /\ unread = [c \in Conns |-> 0]
    /\ flying = [c \in Conns |-> 0]
    /\ unacked = [c \in Conns |-> 0]
    /\ owed = [c \in Conns |-> 0]

\* The send buffer holds what has not been acknowledged.
GetTxAvailable(c) == TxBuffer - flying[c] - unacked[c]

Smaller(a, b) == IF a <= b THEN a ELSE b

\* Mutant: the operands of the subtraction are exchanged.
ToSendSwapped(cbd, available) == Smaller(available, cbd.currentTxBytes - cbd.packetSizeToReturn)

\* std::min (GetTxAvailable (), packetSizeToReturn - currentTxBytes)
ToSend(cbd, available) == Smaller(available, cbd.packetSizeToReturn - cbd.currentTxBytes)

\* Mutant: the handler forgets to count what it has written.
HandleSendUncounted(c, cbd, available) ==
    IF available > 0 /\ cbd.send
    THEN /\ flying' = [flying EXCEPT ![c] = @ + ToSend(cbd, available)]
         /\ m_callbackData' = [m_callbackData EXCEPT ![c] = cbd]
    ELSE /\ m_callbackData' = [m_callbackData EXCEPT ![c] = cbd]
         /\ UNCHANGED flying

\* Mutant: the handler waits until all the rest fits the send buffer.
HandleSendWhole(c, cbd, available) ==
    IF cbd.currentTxBytes = cbd.packetSizeToReturn
    THEN /\ m_callbackData' = [m_callbackData EXCEPT ![c] = NoData]
         /\ UNCHANGED flying
    ELSE IF available >= cbd.packetSizeToReturn - cbd.currentTxBytes /\ cbd.send
    THEN /\ flying' = [flying EXCEPT ![c] = @ + ToSend(cbd, available)]
         /\ m_callbackData' = [m_callbackData EXCEPT ![c] =
                [cbd EXCEPT !.currentTxBytes = @ + ToSend(cbd, available)]]
    ELSE /\ m_callbackData' = [m_callbackData EXCEPT ![c] = cbd]
         /\ UNCHANGED flying

(***************************************************************************)
(* HandleSend (socket) with the callback data cbd and available bytes of   *)
(* send buffer.  A write that fits the buffer is always taken in full.     *)
(***************************************************************************)
HandleSend(c, cbd, available) ==
    IF cbd.currentTxBytes = cbd.packetSizeToReturn
    THEN /\ m_callbackData' = [m_callbackData EXCEPT ![c] = NoData]
         /\ UNCHANGED flying
    ELSE IF available > 0 /\ cbd.send
    THEN /\ flying' = [flying EXCEPT ![c] = @ + ToSend(cbd, available)]
         /\ m_callbackData' = [m_callbackData EXCEPT ![c] =
                [cbd EXCEPT !.currentTxBytes = @ + ToSend(cbd, available)]]
    ELSE /\ m_callbackData' = [m_callbackData EXCEPT ![c] = cbd]
         /\ UNCHANGED flying

-------------------------------------------------------------------------------
HandleAccept(c) ==
    /\ conn[c] = "none"
    /\ conn' = [conn EXCEPT ![c] = "open"]
    /\ m_callbackData' = [m_callbackData EXCEPT ![c] = NoData]
    /\ m_connectedClients' = Append(m_connectedClients, c)
    /\ onOff' = TRUE
    /\ UNCHANGED <<requests, unread, flying, unacked, owed>>

\* The client's next request: it has received all it asked for.
Request(c, size) ==
    /\ conn[c] = "open" /\ owed[c] = 0 /\ requests[c] < MaxRequests
    /\ requests' = [requests EXCEPT ![c] = @ + 1]
    /\ unread' = [unread EXCEPT ![c] = size]
    /\ owed' = [owed EXCEPT ![c] = size]
    /\ UNCHANGED <<m_callbackData, m_connectedClients, onOff, conn, flying, unacked>>

\* GetCommand gives back the number the client wrote.
HandleRead(c) ==
    /\ unread[c] > 0
    /\ HandleSend(c, [currentTxBytes |-> 0, packetSizeToReturn |-> unread[c], send |-> TRUE],
                  GetTxAvailable(c))
    /\ unread' = [unread EXCEPT ![c] = 0]
    /\ UNCHANGED <<m_connectedClients, onOff, conn, requests, unacked, owed>>

\* n bytes reach the client.
Deliver(c, n) ==
    /\ n \in 1..flying[c]
    /\ flying' = [flying EXCEPT ![c] = @ - n]
    /\ unacked' = [unacked EXCEPT ![c] = @ + n]
    /\ owed' = [owed EXCEPT ![c] = @ - n]
    /\ UNCHANGED <<m_callbackData, m_connectedClients, onOff, conn, requests, unread>>

\* n bytes are acknowledged; the socket has room again and calls HandleSend.
Acknowledge(c, n) ==
    /\ n \in 1..unacked[c]
    /\ unacked' = [unacked EXCEPT ![c] = @ - n]
    /\ HandleSend(c, m_callbackData[c], GetTxAvailable(c) + n)
    /\ UNCHANGED <<m_connectedClients, onOff, conn, requests, unread, owed>>

\* SendPendingData: about to transmit, or to transmit again, what is in its send
\* buffer, the socket asks for more when that is less than the window.  (It also
\* calls HandleSend once the connection is accepted, when there is nothing to
\* write.)
NotifySend(c) ==
    /\ flying[c] + unacked[c] > 0
    /\ HandleSend(c, m_callbackData[c], GetTxAvailable(c))
    /\ UNCHANGED <<m_connectedClients, onOff, conn, requests, unread, unacked, owed>>

\* Mutant: the loop stops before it has looked for the address.
HandlePeerCloseKeepingClient(c) ==
    /\ conn[c] = "open" /\ owed[c] = 0
    /\ conn' = [conn EXCEPT ![c] = "closed"]
    /\ UNCHANGED <<m_callbackData, m_connectedClients, onOff, requests, unread, flying, unacked, owed>>

\* The client closes between two segments (StreamClient); the first entry of
\* its address is erased, and the server turned off when that was the last one;
\* m_callbackData and the socket are left as they are.
HandlePeerClose(c) ==
    /\ conn[c] = "open" /\ owed[c] = 0
    /\ conn' = [conn EXCEPT ![c] = "closed"]
    /\ m_connectedClients' = RemoveFirst(m_connectedClients, c)
    /\ onOff' = (onOff /\ m_connectedClients' # <<>>)
    /\ UNCHANGED <<m_callbackData, requests, unread, flying, unacked, owed>>

Next ==
    \E c \in Conns :
        \/ HandleAccept(c)
        \/ \E size \in Sizes : Request(c, size)
        \/ HandleRead(c)
        \/ \E n \in 1..flying[c] : Deliver(c, n)
        \/ \E n \in 1..unacked[c] : Acknowledge(c, n)
        \/ NotifySend(c)
        \/ HandlePeerClose(c)

Spec == Init /\ [][Next]_vars

\* TCP delivers and acknowledges; the socket tells the server what it received.
Fairness ==
    \A c \in Conns :
        /\ WF_vars(HandleRead(c))
        /\ WF_vars(\E n \in 1..flying[c] : Deliver(c, n))
        /\ WF_vars(\E n \in 1..unacked[c] : Acknowledge(c, n))

FairSpec == Spec /\ Fairness

-------------------------------------------------------------------------------
CallbackData == [currentTxBytes : Nat, packetSizeToReturn : Nat, send : BOOLEAN]

\* Every variable has the type of the member it models.
TypeOK ==
    /\ m_callbackData \in [Conns -> CallbackData]
    /\ m_connectedClients \in Seq(Conns)
    /\ onOff \in BOOLEAN
    /\ conn \in [Conns -> {"none", "open", "closed"}]
    /\ requests \in [Conns -> Nat]
    /\ unread \in [Conns -> Nat]
    /\ flying \in [Conns -> Nat]
    /\ unacked \in [Conns -> Nat]
    /\ owed \in [Conns -> Nat]

\* What the server still has to write for the request it is answering.
Remaining(c) ==
    IF m_callbackData[c].send
    THEN m_callbackData[c].packetSizeToReturn - m_callbackData[c].currentTxBytes
    ELSE 0

\* Every byte a client waits for is in a request not yet read, still to be
\* written, or on its way, and nothing else is: however the writes are cut by
\* the send buffer, and however late an acknowledgement calls HandleSend, the
\* client receives exactly the bytes it asked for.
ResponseExact ==
    \A c \in Conns : owed[c] = unread[c] + Remaining(c) + flying[c]

\* The send buffer never holds more than it can.
BufferRespected == \A c \in Conns : flying[c] + unacked[c] <= TxBuffer

\* m_connectedClients holds the open connections, each once: GetNumberOfClients
\* counts them.
ClientsListed ==
    /\ \A c \in Conns : conn[c] = "open" <=> c \in ToSet(m_connectedClients)
    /\ IsInjective(m_connectedClients)

\* Every request is answered to the last byte, although HandleSend writes only
\* once per call and does nothing when the buffer is full.
RequestsServed == \A c \in Conns : (owed[c] > 0) ~> (owed[c] = 0)
===============================================================================
