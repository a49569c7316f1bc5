# Fog4VR in TLA+

The repository is a fork of the ns-3 network simulator with one model of its
own, `src/Fog4VR` (adaptive video streaming from fog servers, with a controller
that places the sessions), and a UAV/edge simulation, `scratch/simulation.cc`.
This project specifies the state machines of both, model-checks them with TLC
and proves their safety with TLAPS for every value of the constants. Paths below are relative to the repository's root.

## 1. Inventory

| Component | State | Operations | Hard behaviour |
|---|---|---|---|
| Streaming client, `src/Fog4VR/model/tcp-stream-client.{h,cc}` | `state` of the FSM, `m_segmentCounter`, `m_segmentsInBuffer`, `m_currentPlaybackIndex`, `m_bytesReceived`, `m_bDelay`, underrun flag and count, `handover`/`newip`, socket; pending simulator events | `Controller(event)`, `StartApplication`, `ConnectionSucceeded/Failed`, `RequestRepIndex`, `Send`, `HandleRead`, `SegmentReceivedHandle`, `PlaybackHandle`, `HandoverApplication`, `SetHandover`, `StopApplication` | the playback timer, the request delay and the download race; branches that do not look at the event; a change of server in the middle of a session; comparison for equality of byte counts; the last segment |
| Streaming server, `tcp-stream-server.{h,cc}` | `m_callbackData` per address, `m_connectedClients`, `serverData.onOff` | `HandleAccept`, `HandleRead`, `HandleSend`, `HandlePeerClose` | a send buffer smaller than a segment; late acknowledgements; an answer overwritten by the next request |
| Fog controller, `tcp-stream-controller.{h,cc}` and the policies `AHP/AHP.py`, `Guloso-Aleatorio/exemplo.py`, `PLI/*.py` | the global `serverData` (on/off, free memory, contents per server) | `sendRequest`, `choiceServer`, `addContent`, `removeContent`, `finishedRequest` | one table written by clients, controller and servers; an index into a filtered list used as the number of a server; scripts that fail |
| Adaptation algorithms, `festive.cc`, `panda.cc`, `tobasco2.cc` | last representation, fast start, last target time; the histories they read | `GetNextRep` | indices into histories, boundary representations, delays taken from a buffer that playback drains |
| Multi-stream client, `tcp-multi-stream-client.{h,cc}` | as the client, one auxiliary connection per server, byte counts per sender | as the client, `GetIpIndex` | main and auxiliary sockets exchanged, the list of peers not |
| Cells and handovers, `scratch/simulation.cc` | `cellUe`, `rnti_cells`, `path_imsi`, `neighbors`, `handover_pending`, `handover_vector` | callbacks of the LTE traces, `handoverManager`, `schedule_handover` | a request executed 10 ms later; failures no callback reports; RNTIs that several cells give out |
| Edge servers, `scratch/simulation.cc` | `resources`, `edgeUe`, `edgeMigrationChart`, `handoverPredictions` | `NotifyConnectionEstablishedUe`, `NotifyHandoverStartUe`, `manager`, `migrate` | bookkeeping split over callbacks; a migration that fails for lack of room or runs late |
| Placing the drones, `scratch/simulation.cc`, `clustering.py`, `uavs_ag.py` | `centroids.txt`, `unserved.txt`, `drones_in_use`, `hot_spots_served`; the population of the search | `ThroughputMonitor`, `UAVManager`, `just_a_monitor`; `sort_solutions`, `mutate`, `crossover`, `prune` | files of an earlier run or interval; scripts that fail; solutions that alias |
| Helpers, scenarios, plots | none shared | installation, parameters, figures | - |
| ns-3 | third party | scheduler, TCP | used as an environment |

How they interact. Every callback runs to its end inside one simulator event.
A client calls the controller synchronously (`sendRequest` when its first
connection succeeds, `finishedRequest` when it ends); the controller writes
`serverData`, which the servers' `HandleAccept` and `HandlePeerClose` write as
well; clients and servers talk over TCP; the scenario calls `SetHandover` on a
client at any time.

What makes each part correct.

* Client: one playback clock, one request outstanding, every segment accounted
  for, the adaptation algorithm asked with complete histories, stalls counted
  once, sessions and stalls that end; together: it implements a playback
  session (`PlaybackSession`).
* Server: a client receives exactly the bytes it asked for, and all of them;
  the send buffer is respected; the list of clients is the open connections.
* Controller: memory and contents of a server are those of the sessions placed
  on it; no session is placed where there is no room; the limit of contents
  holds; servers are off when nobody uses them any more; a script fails only
  when servers are short of room.
* Multi-stream client: one connection per server under any exchanges, requests
  that go to the server the client believes in, bytes of one segment from one
  server, a session that ends.
* Adaptation: an answer that exists, a delay the buffer can bear, a bounded
  buffer.
* Cells: the tables say of every connected user which cell it is in and with
  which RNTI; a request can still be executed; a pending handover is one, and
  ends.
* Edges: units are conserved, every user has one server, a server's units are
  those of its users, the search for a server ends.
* Drones: no read past the end of the centroids, one drone per hot spot, the
  best solution found is the one written.

The two halves of the UAV simulation run on the same events: a connection and
the start of a handover change the tables of cells and of edges in one callback,
and `manager` reads the cell of a user from the table the radio callbacks keep.
The scripts and the simulation share files only, one interval apart.

## 2. Modules

| Module | What it is |
|---|---|
| `StreamClient` | the client, one action per simulator event |
| `PlaybackSession` | what a client promises, abstractly |
| `StreamServer` | the server, with the TCP connections as environment |
| `FogController` | the composition: controller, placement policies, the life cycles of many clients and servers around `serverData` |
| `MultiStreamClient` | the client with a socket per server; the playback is that of `StreamClient`, by INSTANCE |
| `Adaptation` | the three adaptation algorithms in a client's download loop |
| `CellManager` | cells, measurements and handovers of the UAV simulation |
| `EdgeManager` | the edge servers of the UAV simulation |
| `UavEdge` | their composition, which implements `EdgeManager` |
| `UavPlacement` | the management interval: monitors, scripts, files, drones |
| `GeneticPlacement` | the genetic search of `uavs_ag.py` |
| `StreamClientProofs`, `StreamServerProofs`, `FogControllerProofs`, `MultiStreamClientProofs`, `EdgeManagerProofs` | theorems and proofs about the module named |
| `UavEdgeProofs` | the same of `CellManager`, which `UavEdge` extends, and of the composition |
| `AlgorithmProofs` | the same of `Adaptation`, `GeneticPlacement` and `UavPlacement` |
| `SumTheorems` | induction over the natural numbers, and sums over finite sets |
| `MC...` | values of constants for TLC, one for each module with runs |

Definitions whose comment begins with "Mutant" are deliberately
wrong variants of the definition that follows them. No specification uses
them; they show, substituted for it, that the properties notice such a mistake.

### StreamClient

Variables keep the names of the members. Sequences the client only appends to
are represented by their length: `playbackIndex` (decisions) and
`transmissions` (segments downloaded). Events pending in the simulator are
counts: `startSends`, `playbackTimers`, `irdTimers`. `wire` is what has been
asked for on the current socket and not read from it.

An action is a whole callback. `Controller(event)` is one operator per state
(`ControllerInitial`, `ControllerDownloading`, ...), used by the actions that
call it: `ConnectionSucceeded` (the first time), `HandleRead` (when a segment
is complete), `PlaybackFinished` and `IrdFinished`. The branches for `initial`
and `downloading` do not look at the event, and neither do their operators.
`SetHandover` only notes the server; `HandoverApplication` runs inside
`Controller` when a segment is complete, closes the socket, resets the count of
underruns and connects to the new server.

Abstractions. Times are left out: pending events may run in any order, which
includes the order any bandwidth, segment duration and delay produce. `m_bDelay`
is 0 or 1 (some positive delay). The adaptation algorithm answers any
representation and any delay. Throughput figures and logs are left out. A
connection attempt succeeds or fails, an established connection does not break
(the client handles neither a reset nor a close by the server). A stop of the
application from outside is not an action: no scenario sets a stop time.

### StreamServer

`m_callbackData`, `m_connectedClients` and `onOff` are the server's. `Request`
is the client's; `Deliver`, `Acknowledge` and `NotifySend` are what the socket
under the server does (`src/internet/model/tcp-socket-base.cc`), in order and
exactly once: an acknowledgement that frees buffer calls `HandleSend`, and so does
the socket before it transmits less than the window (`NotifySend`). The call of
`HandleSend` at the accept finds nothing to write. Acknowledgements and
requests travel separately, although TCP may carry both in one segment: the
model has every order TCP has. A client asks for a segment only when it has the
previous one, which `OneRequestOutstanding` shows of `StreamClient`. The server
never closes a socket. Another writer of `onOff`, the controller, is in
`FogController`. Throughput statistics and logs are left out.

### FogController

A client is seen from outside: it starts, is placed, may be moved and ends;
what it does in between is `StreamClient`. A connection has two ends, and a
client's `ConnectionSucceeded` runs before the server's `HandleAccept`;
`HandlePeerClose` comes after both. A connection closed while connecting never
reaches the server.

`sendRequest` is the set of answers a policy may give. The scripts rank the
servers by scores, delays or at random: the rank is a free choice among the
servers they consider. What is kept is how they consider them: servers without
enough free memory are left out of the lists, the answer is an index into
those lists, `freeMemory[i]` is read with the number of the row and not of the
list (an `IndexError` when a row before was left out), an empty list of
contents reads as one content, and the limit on contents applies to AHP and
PLI only. A failed script prints nothing, `std::stoul` throws, nobody catches:
`aborted`. Policy 7 runs AHP.py and then names the home server; the policies
without a script name server 0.

### MultiStreamClient

The program's class is a copy of `TcpStreamClient`. The copy's playback, timers
and decisions are taken from `StreamClient` by an INSTANCE that puts the current
socket for `socket` and the bytes owed on it for `wire`; what differs is here.
A socket is named by the server it was connected to, `conn.socket` is
`m_socket`, and `conn.aux[p]` is the socket at the index of `p` in
`m_auxiliary_peers`. `HandoverApplication` writes `m_peerAddress`, looks the
address up (the assertion ends the program: `aborted`) and exchanges sockets.
`HandleRead` counts by sender, against the size noted for `m_peerAddress`.
`visited` and `revisited` are history variables: with a server chosen a second
time the sockets no longer match the addresses, and the properties that need
the match say so. The calls of `SetHandover` in `Fog4VR-multi.cc` are commented
out; the controller's choice of a server still goes through
`HandoverApplication`, and the method is public.

### Adaptation

A step is a download and the next decision. The level of the buffer is the
client's `bufferLevelNew`: the level before, less the time since, plus a segment.
What an algorithm estimates of the throughput is any of `Estimates`, as it
depends on the network; the thresholds, cases and comparisons are the code's,
with percentages for its decimal factors. Panda's inter-request time and the
share it estimates are floating point: they are any of `Targets` and `Estimates`.
Two facts about `festive.cc` that the model keeps: the loop that should "compute
number of bit rate switches in the last 20 seconds" leaves at its first
iteration, and the random target of the buffer may be negative.

### CellManager

The LTE stack is the environment: `Connect`, `StartHandover`, `FinishHandover`,
`RadioLinkFailure`, `RandomAccessFailure` are its events, and each runs the
program's callback if one is connected to its trace (none is for the two
failures). A random access that fails in a handover leaves the radio in that
handover for ever (`lte-ue-rrc.cc`, a todo says so): its user keeps
`handover_pending`. A handover that could not be prepared is not modelled: every
cell admits handovers, and a shortage of preambles is a fatal error. `Report` is
`ReportUeMeasurementsCallback` with `handoverManager` and `schedule_handover` in
one step, as in the code. Signal levels are three: none, good, and better by more
than the threshold. The throughput that excludes cells under `competing` and the
list of unserved users of `iuavbs` are free. The age of a user's last handover
is kept in seconds, where the code compares times: 3 is the second in which the
two seconds end, and both outcomes are possible.

### EdgeManager and UavEdge

`EdgeManager` sees of the cells only which one serves a user. `manager` is one
event of the simulator; its loop is one step per user (`turn`), between which
nothing else happens. `migrate` moves a unit if the target has one and says
whether it did; `manager` and the greedy branch of `NotifyHandoverStartUe` move
the entry in `edgeUe` either way. The greedy migration is scheduled with the
present time as its delay, and is a queue here. A server's score takes the values
the code's constants give it: 102 on a drone, 71 on the ground, 0 without units,
and the same for all under `qos`. When a handover is predicted is free.

`UavEdge` runs the handlers of both on the same events. `EdgeSpec` says that the
composition implements `EdgeManager` with `get_cell` for the cells: what
`EdgeManager` assumes about cells is what the callbacks keep, link failures
included. Measurements stop there when a cell has given out its RNTIs
(`MeasurementsLeft`), which is a bound.

### UavPlacement and GeneticPlacement

The three callbacks of an interval run in order. A script writes as many rows as
it finds clusters or fails and writes none; `UAVManager` reads the file as it is.
Places are on a line, which keeps what `get_closest_center_index` compares.
`generate_requests` is never scheduled, so that all requests are 0.

In `GeneticPlacement` a solution is its score, all that the search looks at.
`crossover` exchanges numpy rows by a tuple assignment, which copies one over
the other; `mutate` replaces solutions but the first.

## 3. Runs

| Run | Question | Result |
|---|---|---|
| `client` | the client's safety, `ImplementsSession`, `SessionEnds`, `StallsEnd` | holds, 4 236 states |
| `client_last_segment_downloaded` | is the last segment downloaded? | violated, see 6 |
| `server` | the server's safety, `RequestsServed` | holds, 18 212 states |
| `fog` | `MemoryConserved`, `ContentsMatch`, `NoOvercommit`, `AbortsOnlyUnderLoad`, `ServersOffAtTheEnd` | holds, 350 000 states |
| `fog_limit` | `ContentsBounded` | holds, 147 000 states up to symmetry |
| `multi_client` | sockets and byte counts under changes of server, `SessionEnds` | holds, 69 000 states |
| `adaptation` | representations, delays and buffer of the three algorithms | holds, 8 900 states |
| `cell_manager` | the tables of cells, requests and pending handovers, with failures; pending handovers end | holds, 583 000 states |
| `edge_manager` | units conserved, accounts of the servers, the search for a server ends | holds, 2 935 000 states |
| `uav_edge` | does the composition implement `EdgeManager`? | holds, 479 000 states |
| `uav_placement` | reads of the centroids, pairing of drones and hot spots | holds, 111 000 states |
| `genetic_placement` | does the best solution survive, and is it written? | holds, 10 900 states |

Bounds, and why they are enough.

* `client`: four segments, two representations, segments of one or two bytes,
  two servers, two changes of server. The code tells apart the first segment,
  the last but one, the last and any other; four segments have all of these.
  A segment of two bytes arrives in one read or in two; neighbouring segments
  and representations differ in size, so a mix-up of indices changes a byte
  count. Two changes of server allow a second request while one is pending and
  a change after a change.
* `server`: two connections, a send buffer of two bytes, segments of one, two
  and five bytes (smaller than, equal to and more than twice the buffer), two
  requests per connection (the second finds the data of the first).
* `fog`: two clients of different size and equal content, two servers of two
  units; the larger client leaves no room, the smaller leaves room for another
  small one. Policies 3, 4, 5 and 7 are the four kinds of answer (none, AHP and
  PLI with the limit, greedy and random without it, home). One change of server
  by the scenario, besides the one each placement makes.
* `fog_limit`: three clients at a limit of two contents on servers with room
  for three, so that the limit and not the memory decides. Clients are
  interchangeable there; the run has no liveness property, so symmetry is sound.
* `multi_client`: as `client`, with three servers and three changes of server: the
  first exchange, one after an exchange, and a return.
* `adaptation`: three representations, the thresholds of the code scaled by one
  factor, transfers shorter and longer than a segment, estimates on both sides of
  every comparison.
* `cell_manager`: two users and two cells, of which one is a drone; a level that is
  good, and the better one that UAVManager writes; two RNTIs per cell let one cell
  give out the same number as the other and a user come back; one failure of each
  kind; the limit of handovers per second is 0, which lets one through (the code
  compares with `<=`). All three policies.
* `edge_manager`: three servers with one unit each and three users, so that the
  last user to connect finds two full servers and a migration may find none free;
  three runs of `manager`, so that the window passes; two handovers, so that a
  late migration meets another; the algorithms `genetic`, `qos`, `greedy` and
  `nomigration` (`iuavbs` moves users as `genetic` does).
* `uav_edge`: two users, two cells, one unit per server, one handover with its
  edge side, one failure of each kind.
* `uav_placement`: two drones, three users, up to three clusters, three places
  at different distances, a file left with up to two rows, three intervals.
* `genetic_placement`: five solutions (an odd number has a row without a partner),
  three rounds, three scores.

Deadlock is not checked: the programs end (sessions are over, or the simulation
has aborted).

Fairness. The simulator runs every pending event, so the client's timers are
weakly fair; TCP ends a connection attempt (retry limit) one way or the other,
and delivers and acknowledges what was written to an open connection. Nothing
makes the scenario call `SetHandover`, a client ask again, or a session in
`FogController` go on: these have no fairness. `MultiStreamClient` has the
fairness of `StreamClient`. In `CellManager` a request is an event of the
simulator, which executes it, and the stack ends the handovers it starts;
measurements, connections and failures have no fairness.

## 4. Proofs

`StreamClientProofs`, for every video, set of servers and number of changes of
server:

* `TypeCorrect`, `OneClock`, `NoPipelining`, `SegmentsConserved`,
  `UnderrunBound`, `StallsRegistered`: the invariants `TypeOK`, `PlaybackClock`,
  `OneRequestOutstanding`, `SegmentAccounting`, `UnderrunsCountedOnce`,
  `StallIsRegistered`;
* `HistoryComplete`: the action property `AlgorithmSeesHistory`, which includes
  that playback has begun (`festive.cc:159` takes the length of `playbackStart`
  less one in an unsigned number);
* `Refinement`: `Spec => ImplementsSession`, with `SessionPhase`,
  `transmissions`, `m_currentPlaybackIndex` and `m_bufferUnderrun` for the
  variables of `PlaybackSession`.

The inductive invariant `IInv` is the first five invariants and `StateShape`, which
says for each state of the FSM which events can be pending and where the
counters are. It is needed because the safety of a step depends on which timers
may be left over: that a playback timer does not fire in `downloading`, that
state `playing` without a request delay pending has nothing left to ask for.
Assumptions: the sizes of segments are positive, the indices of the last
segment and representation are natural numbers, there is a server.

`StreamServerProofs`, for every set of connections, sizes and send buffer:
`TypeCorrect`, `ResponsesExact`, `BuffersRespected`, `ClientsCounted`. The
inductive invariant adds `Discipline`: the count of bytes written never passes
the size, an entry with `send` off has nothing left over, and a request is
unread only when the one before it has been answered to the last byte (a new
request overwrites the entry). Assumptions: sizes and buffer are positive.

`SumTheorems` has what the accounts below need. The induction rules of the
library take a predicate as a parameter, which the provers cannot instantiate;
`SetInduction` takes the set of the numbers that have the property instead, and
follows from the well-foundedness of the natural numbers. With it the sum of a
function over a finite set (`SumFunctionOnSet` of the community modules, a fold
whose definition is recursive) is shown to exist, to be independent of the order
(`SumFacts`), to change with one term by that term (`SumChange`) and to bound
its terms (`SumBound`); `FirstBest` finds the first of the best elements of a
list.

`FogControllerProofs`, for any finite set of clients, any servers, memory and
limit: `TypeCorrect`, `RoomRespected` (`NoOvercommit`), `LimitRespected`
(`ContentsBounded`), `MemoryAccounts` (`MemoryConserved`), `ContentsAccounts`
(`ContentsMatch`), `AbortsExplained` (`AbortsOnlyUnderLoad`). For the first
three the argument is about one step, the answer of a script. The index of a
server in the filtered list is the number of fitting servers before it, hence at
most its own number (`PositionBelow`); when the script answers, every fitting
server's number is at most its index (`ListsAgree`, the `IndexError`); so the two
are equal (`AnswersRanked`) and the controller uses the server the script chose.
For the accounts every step is shown to place a session on a server, to end one
or to leave both sides alone (`StepKinds`); placing changes one term of one sum,
and one entry of one list, whose entries are put in bijection with those before
(`EntriesAppended`, `EntriesRemoved`). A script fails only with a list that is
not the list of all servers (`AnswerWithoutLoad`). Assumptions: sizes and
memories are natural numbers, the home server and the clients' regions are
servers, the clients are finitely many.

`MultiStreamClientProofs`, for every set of servers, video and number of changes
of server: `SocketsPermuted` (`OneSocketPerServer`) and `RequestsOneAtATime`
(`OneRequestOutstanding`). An exchange permutes the sockets (`ExchangePermutes`)
whoever is chosen. For the second the invariant adds that an auxiliary socket of
a server not chosen yet is in its own place (`Unmoved`), so that a first choice
finds the right socket; `StateShape`, which says which events may be pending in
which state and that the segments played and buffered are those before
`m_segmentCounter` wherever it is raised, so that a segment asked for exists;
and that nothing was read from a connection not established. All of this is
claimed only as long as no server is chosen twice; `revisited` never goes back.
Assumptions: those of `StreamClient` on the video, `Home` is a server.

`EdgeManagerProofs`, for any number of users, servers and units, any window and
length of the simulation: `EdgeTypeCorrect`, `EdgeUnitsConserved`,
`EdgeAccountsExact` and `EdgeOneServer`. The invariant has the units as a sum
(`UnitsTaken`), from which the bound of each server's units follows, and
`OneServer`, which names the server of a user where `OneEdge` only counts:
`manager` and the callbacks move the entry that `getEdge` finds, and the proofs
must know that it is the only one. `EdgeAccounts` has a part for the time when
migrations fail, and it needs more: under `qos` every move goes to the first
server, so only that one can have too many users, and then its units are 0
(`FirstOverloaded`); under the other algorithms the accounts are exact while a
unit is left (`AccountsExact`), and with none left no server shows one.
Assumption, from the assertion of the program: there are at least as many units
as users.

`UavEdgeProofs`, for any number of users, cells, RNTIs and failures, any signal
levels and all policies. Of `CellManager`: `TablesExact`, `AbortsExplained`,
`PendingExplained`, `TwinsExplained`. The invariant says what the tables hold of
a user in each state of its radio (`Rows`: exact while connected, empty in a
handover, at most the cell of the broken connection when idle), that the RNTIs in
use were given out, each to one user of the cell (`RntisGiven`), and that a
request that waits still fits its user unless the link failed
(`RequestsStand`). Of the composition: `EdgeRefinement`, every step of the
simulation is a step of `EdgeManager` or leaves it alone, `get_cell` being the
mapping; a failure changes no table, and a user who connects again is known
(`ConnectedBefore`). `SimulationEdges` follows: `EdgeManagerProofs` is
instantiated under the mapping, its assumptions are shown, and the edge
properties hold of the whole simulation.

`AlgorithmProofs`. Of `Adaptation`, for any bitrates, durations, thresholds in
the order the constructors give them, and estimates: `AdaptationTypeCorrect`,
`TobascoDelay` (`DelayKeepsBuffer`), `BufferBound` (`BufferBounded`). The bound is
not inductive: Tobasco may request at once although the buffer is above
`m_bHigh`. Every time it does, it answers with a higher representation, so that
what a delay leaves of the buffer is at most `m_bHigh` and a segment for each
representation above the lowest (`LeftBounded`); everything that lowers the
representation happens below `m_bLow`. Of `GeneticPlacement`, for any number of
solutions and rounds and any scores: `BestSolutionSurvives` (`BestSurvives`); a
sorted list begins with its largest element (`FirstIsLargest`, by induction), and
no other step touches the first place. Of `UavPlacement`, for any number of
drones, users, clusters and intervals: `CentersRead` (`ReadsInRange`) and
`DronesPaired` (`OneDronePerHotSpot`); the drones assigned in an interval are in
bijection with the hot spots they get (`AssignedPaired`). The proof module extends
all three modules, which share no state: their specifications are named
`SearchSpec` and `ManagementSpec` for that.

Every invariant that a run checks is proved, and so are the action property
`AlgorithmSeesHistory` and the two refinements, `ImplementsSession` and
`EdgeSpec`.

Only model-checked: liveness (`SessionEnds` of both clients, `StallsEnd`,
`RequestsServed`, `ServersOffAtTheEnd`, `PendingClears`), which is out of reach
of the prover.

## 5. What is not modelled, and the plan

Not modelled:

* ns-3 itself. The repository is a fork, and nearly all of its lines are the
  simulator's modules, their generated Python bindings and examples; the LTE
  stack, TCP and the scheduler appear as environments, from their use.
* The topology, parameters and statistics of the scenarios, the helpers that
  install applications, plots and batch scripts.
* The numbers by which a script ranks servers, k-means, the signal formula.
* In `simulation.cc`: energy and mobility traces, the installation of the LTE
  network, logs and statistics, the throughput per cell (`cell_throughput` is
  written with index -1 for a user in a handover), the policy `none`,
  `generate_requests`, which nothing schedules.
* In the adaptation algorithms: the estimates of throughput and Panda's
  inter-request time. `m_smooth.at (1)` of Festive is read in an assertion only.
* A stop of an application from outside; the multi-stream client closes only its
  main socket then.

Next: further facts worth a theorem (what a change of server never does to a
session, that an abort is final, that units are never taken from a server without
any), as action properties proved from the invariants above.

## 6. Disagreements between code and documentation

The models do what the code does. One disagreement has a run of its own:

* `LastSegmentDownloaded`: `tcp-stream-client.h:140` says `playing` is entered when
  the download of the last segment is finished; `tcp-stream-client.cc:140` compares
  after the increment, and without a request delay the last segment is never
  requested. (With a delay pending it is: both paths are in the model.)

The others show in how a property is stated, or in a definition:

* `tcp-stream-client.h:140` says the client stops after playback of all remaining
  segments; `tcp-stream-client.cc:187` compares the number of segments begun with
  the index of the last and may stop with that one in the buffer. `Finish` of
  `PlaybackSession` promises all segments but one.
* `tcp-stream-client.h:139` and `:199` say that an empty buffer registers an
  underrun; `tcp-stream-client.cc:471` leaves out the wait for the last segment,
  and so does `StallIsRegistered`.
* `examples/Fog4VR.cc:836` describes values 0 to 3 of the option;
  `tcp-stream-controller.cc:176` runs scripts for 4 to 8 only, and the values 0 to
  3 place every session on server 0, past its memory. `NoOvercommit` names the
  policies it holds for.
* `simulation.cc:221` describes `path_imsi` as "mapping nodelist ids to actual
  imsis"; line 1108 looks the RNTI a user has in its own cell up in the cell it
  measured, and finds another user. `TakenForRntiTwin` says when.
* `simulation.cc:1799` says the drone with the highest signal; the call at 1805-1811
  is inside the loop, and the first drone that is received wins (`Targets`).
* `simulation.cc:333` asserts that there are units for all users; 2049-2053 move a
  user although `migrate` found no unit, once all are taken. `EdgeAccounts` says what
  stays true: a server with too many users shows no unit.
* `simulation.cc:1892` says `check_coverage` returns a percentage; `continue` at 1904
  counts a user for every server with an entry, and under `greedy` a user may have
  two (`OneEdge` leaves `greedy` out).
* `tcp-multi-stream-client.h:177` says a complete segment is handled;
  `tcp-multi-stream-client.cc:436` needs the counts of one sender to agree as well,
  which they no longer do when a server is chosen again (`revisited`).
* The assertion at `tcp-multi-stream-client.cc:733` fails for a change back to the
  first server, which the scenario takes off the list (`Fog4VR-multi.cc:1334`):
  `aborted` in `MultiStreamClient`.
* `simulation.cc:812` says the closest hot spot; the search at 998-1005 never updates
  the distance, and returns the last one (`get_closest_center_index`). With
  complete centroids one hot spot alone is ever served.
* `simulation.cc:2106` says unserved below 80% of the request; 2137 compares the
  other way round (`just_a_monitor`).

## 7. Running

    tlc -config StreamClient.cfg MCStreamClient
    tlapm StreamClientProofs.tla

and likewise for the other configurations and proof modules.
