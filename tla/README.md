# A formal model of l2discovery-lib

l2discovery-lib finds out which network ports of a Kubernetes cluster share a
layer 2 segment and what is special about them (PTP hardware, GNSS, grandmasters
heard), and solves placement problems over them ("two ports of one NIC and a port
of another node facing the first one"). This directory models it in TLA+, from the
start of a daemon on a node to the drawing of the LANs found, checks the model
with TLC and proves its main invariants with TLAPS.

    tlc -config GraphSolver.cfg MCGraphSolver      # and so on, see "Runs"
    tlapm GraphSolver_proofs.tla                   # and so on, see "Proofs"

## 1. Inventory

| component | source | state | operations |
|---|---|---|---|
| discovery daemon | `cmd/l2discovery/main.go` | `MacsPerIface` under the mutex `mu`; per interface a receiver and a sender goroutine; the log | `RecordAllLocal`, `RecvFrame`, `sendProbeForever`, `PrintLog`, and at start `getIfs` with `initPCIMap`, `getPtpCaps`, `hasPtpPins`, `getGnssDevice` |
| discovery library | `l2lib.go` | `GlobalL2DiscoveryConfig`: list of interfaces, maps into it, reports, LANs, PTP ports, `refresh` | `GetL2DiscoveryConfig`, `DiscoverL2Connectivity`, `reset`, `getL2Disc`, `createMaps`, `createL2InternalGraph` |
| graph solver | `pkg/graphsolver/graphsolver.go` | `GlobalConfig`: problems, solutions, configuration; the slice a run permutes | `InitProblem`, `SetL2Config`, `Run`, the constraint steps and their encoding, printing |
| exchanged data | `exports/exports.go` | none | record types, `String` methods |
| parser | `pkg/parser` | none | scanning the output of lspci and ethtool |
| pods, client | `pkg/pods`, `pkg/l2client` | the API client | `GetLog` |
| node helpers | `pkg/nodes` | the node in the API server; `NodesSelector` | `LabelNode`, `WaitForNodeReachability`, `IsNodeReachable` |
| topology drawing | `cmd/l2dump` | the drawing | `getGraph` |
| example programs | `cmd/graphsolver-*` | none | a discovery, then some problems |

How they interact. The library deploys the daemon as a daemonset (or finds one
that is there), sleeps, lists the pods and reads their logs. Each daemon sends
probes with the experimental ethertype 88b5 on all its ports, records who it hears,
and prints the whole map as `JSON_REPORT` every five seconds. The library takes the
last report of each pod, numbers the interfaces, makes an edge for every probe
heard and computes the connected components, the LANs. The solver is given the
result as an `exports.L2Info` and assigns interfaces to the variables of a problem.

What is hard, and what correctness means:

* *daemon*: one goroutine per interface and a printer share a map; frames are
  recorded in several writes; ports of one node hear each other; a failing socket
  call panics and restarts the container. Correct: a report names all interfaces,
  shows no half recorded frame, lists only ports of other nodes, never loses what an
  earlier one showed; the latest announce of each grandmaster is kept; what is
  received is reported.
* *daemon's start*: some ten commands, each of which may fail, one after the other for every
  link; frames are read through one buffer. Correct: every link wanted is recorded, with
  its own features and not those of the link before; a feature is missing only if it was
  looked for everywhere; a frame is read as it was sent.
* *daemons together*: they start and restart in any order and probe a fixed number of
  times; a socket takes the frames of all ports until it is bound to its own, if it ever is.
  Correct: neighbours that listen have heard of each other when the probing
  is over, whoever came first and whatever was lost; nothing but a socket that is not
  bound attributes a probe to the wrong port.
* *library*: sequential, but every API call can fail, log reading is retried on top
  of what the failed attempt left, reports may be early, interfaces may share MAC
  addresses, and the object is global and lives through several discoveries.
  Correct: list and maps agree, numbers are positions, no interface is lost, the LANs
  are the segments as far as probes were heard, a call returns.
* *solver*: one slice is permuted in place by all depths of a recursion, pruned by
  steps evaluated on prefixes; steps are lists of integers. Correct: a run finds
  every satisfying assignment once and nothing else, and ends; a step is decoded
  as it was encoded; the answer does not depend on which port of a card is asked;
  a solution printed is one of the configuration it is printed with.
* *node helpers*: a label is a read, a change and a write that race with others; a wait
  has a timeout it looks at only between pings.
* *drawing*: LANs of one interface are passed over, colours run out.

`PROJECT.json` lists the components, the hazards line by line with the properties
that cover them, and for every definition the lines it models.

## 2. Modules

| module | models |
|---|---|
| `SolverSteps` | constraint predicates, constructors `Step0`..`Step1V2`, `applyStep` (no state) |
| `SolutionSearch` | abstract: a run appends every satisfying assignment once, in any order, then ends |
| `GraphSolver` | the solver's interface and `PermutationsWithConstraints`; refines `SolutionSearch` |
| `StepEvaluation` | encoding and decoding of one constraint on one configuration |
| `Lans` | the connected components that are the LANs (no state) |
| `L2Discovery` | the library with an environment of failing API calls and arbitrary reports |
| `DaemonPromise` | abstract: a daemon learns facts, reports all it knows and nothing else, and forgets when restarted |
| `L2Daemon` | the daemon of one node with its goroutines, mutex, reports and restarts; refines `DaemonPromise` |
| `Cluster` | several daemons, the network between them and the library reading their reports; every node keeps `DaemonPromise` |
| `Inventory` | the start of a daemon: devices, links, and the questions about every link |
| `FrameParser` | the receive buffer of a receiver and what is parsed from it |
| `DaemonStart` | `main`: the inventory, and when it succeeded a receiver that parses frames |
| `NodeLabels` | `LabelNode` with several callers and others that update the node |
| `Reachability` | `WaitForNodeReachability` and its pings |
| `TopologyDrawing` | `getGraph` of l2dump |
| `MCGraphSolver`, `MCStepEvaluation`, `MCL2Discovery`, `MCL2Daemon`, `MCCluster`, `MCDaemonStart`, `MCReachability`, `MCTopologyDrawing` | the constants of the instances TLC checks |
| `GraphSolver_proofs`, `StepEvaluation_proofs`, `L2Discovery_proofs`, `L2Daemon_proofs`, `Lans_proofs`, `Cluster_proofs`, `DaemonStart_proofs`, `Helpers_proofs` (of `NodeLabels`, `Reachability` and `TopologyDrawing`) | the theorems |

### GraphSolver and SolverSteps

`problems`, `solutions`, `l2Config` are the fields of `configObject`. During a run
`l` is the slice, `s` the depth, `i[d]` the loop variable of the call at depth `d` and
`result` the argument of the call; `pc` says whether the innermost call was just
entered ("call"), is at the head of its loop ("loop") or has returned ("return").
The code's calls and returns become `Prune`, `Record`, `StartLoop`, `Try` (swap,
`applyStep`, recursive call), `EndLoop`, `Backtrack` (return to the caller, swap back,
next iteration) and `Finish`. Calls that panic are `RunPanics`; the panic is final.
`runs` and `base` are history: the configurations of a problem's runs, and how many
solutions there were when the last run began.

Abstractions: a configuration has only what the steps read; LANs are sets; a step is
the set of its tests (they are conjoined). `variableTagToInt` is written and never
read, and left out. Printing looks solutions up in the configuration set at the time:
`PrintSolutions` is its panic when that is too short, and printing that succeeds
changes nothing. The solver keeps the `L2Info` it was given, which is the library's global
object, so a discovery between a run and the printing is a `SetL2Config` here. `ProblemsAssumption` says that step s of a problem reads
variables 0..s only. Every problem in the repository is like that; for others
`applyStep` reads positions of `l` that are not chosen yet, and the solver does not do
what its interface suggests.

### L2Discovery

Variables are the fields of `L2DiscoveryConfig`, plus the locals of the active call
(`attempt`, `index`, `todo`, `node`, `work`) and history (`spoiled`: an attempt failed
after numbering interfaces; `failed`: all did; `built`: `LANs` is of this discovery).
`pc` follows `DiscoverL2Connectivity`: "create", "list", "attempt", "read", then for
each pod "exp", "local", "ptp" (the three calls in `createMaps`), "delete", "graph".
`updateMaps` takes an interface at a time, in the order of the names: `PassOver`
(known or filtered), `Skip`, `Number`. The environment lets creation, listing,
reading and deletion fail at any time, lists any set of pods, and offers any report
the daemon may have printed last. `LANs` are the components of the graph, which a
third-party library computes (`Components`, external).

Abstractions: nodes and names are numbers in the order of the strings. A report
carries, in place of whole interface records, names, which `Ifaces` resolves: the daemon
copies the same record into all its entries. `ClusterMacs` and `ClusterIndexes` are
written with the two other maps and never read, and are left out. `PortsGettingPTP` is a
set: the code appends a port again for every pod read after it, which no
reader of the list notices (`IsPTP` asks for membership). SKIP_INTERFACES
is a constant set, though the code reads it again in every discovery. Hardware
timestamping capabilities and "Virtual" are the three `kind`s the filters distinguish.

`ReportsAssumption` is what the library relies on: reports name all interfaces of
their node, and a probe heard came from the same segment. `ReportsComplete` of `L2Daemon`
is the daemon's side of the first. The second holds of a daemon whose sockets took nothing
before they were bound to their ports (see `Cluster`, which does not assume it).

### L2Daemon

`MacsPerIface` is the map (ethertype, interface, entry), `mu` the goroutine that
holds the mutex. Each receiver's `pc` goes "off", "sleep", "recv", "lock" and through its
critical section "record", "remote", "announce", one write per step, so that what the mutex
is for can go wrong. `PrintLog` and `RecordAllLocal` lock, act once and unlock:
they are single steps enabled when `mu` is free. `main` starts the printer after
it has recorded all interfaces, in any order (Go's map order). A panic in a goroutine
ends the process: `SocketPanics` and `BindToDevicePanics` reset everything, the log too.
`heard` and `others` are history: the last announce seen on each interface, and the
grandmasters announced there by other nodes.

Abstractions: a frame is its source, type and announce, where the code parses bytes
(the code's MAC formats agree: addresses are compared in upper case with colons on
both sides, except with `Local.IfMac`, a comparison that is always unequal and
so has no effect). How bytes become a frame is `FrameParser`. The
sockets take all ethertypes, so an interface's own outgoing frames are received too.
Probes are sent but not delivered within this module: `Frames` says what each receiver may
read, by a bound socket or another, and is any set; `Cluster` delivers the probes and tells the two kinds
of sockets apart. What `getIfs` finds at start is the constant `Ifaces`;
`Inventory` says how it is found.

### Cluster

A port stands for its address. `open` are the ports whose sockets are open, `reading` those
whose receivers are past `IfaceBind`, `bound` those whose sockets it did bind. `probes`
counts what each has sent, `socket` holds the senders of probes not yet read,
`MacsPerIface` and `report` are those of `L2Daemon` with the entries reduced to who was
heard. A receiver's critical section is one step here. `DaemonPromise` is what justifies it:
`L2Daemon`, seen through `FactsOf`, learns a fact at a time and reports what it knows
(`ImplementsPromise`), and so does each node here (`NodesKeepPromise`). `ReadPod`,
`ReadPodFails` and `createL2InternalGraph` are the library's reading of the pods in the
order of their names and its graph; they may happen at any time, so that early reports
and mixtures of early and late ones are in. Once all pods are read the library deletes the
daemons (`Deployed`). `Restart` is the panic of a daemon at any
moment. History: `missed` counts the probes of one port another one lost, `stray` are the ports whose
sockets took a probe of another segment, `calm` says
that the first report was read when all probes had been sent and reported, with no restart since.

`Open` makes a socket for the frames of all interfaces of the node (`main.go:366`), and `IfaceBind` binds it
to the receiver's own a step later (l. 373), or fails, which nobody looks at. What the socket takes
before, or without, being bound comes from any port of the node (`TakesFrom`), stays queued,
and is recorded under the receiver's port. A probe of a
sender the receiver has recorded already changes nothing when it is read, and is not put into `socket`.

The one thing kept of the clock is that a receiver opens its socket two seconds
after its daemon started (`recvTimeout`) while senders probe once a second: at most
`EarlyProbes` of `MaxProbes` are sent before all ports of the node listen.
`ProbesAssumption` says that fewer probes are lost than are sent after that.
Bond slaves send none; the bond itself, whose frames leave through them, is a port
that does, or is left out.

### Inventory, FrameParser and DaemonStart

`Inventory` follows `main` and `getIfs` command by command: `pc` is the command to run
next, `index` the link in the loop, `address` and `ptpCaps` its locals. What a command
prints is modelled as what the code reads from it, for each form it may have (a clock
given by number, by provider, or not at all; pins under the link or under its clock; GNSS devices
under the link or under its PCI address, of which only the first sentence is looked at).
Every command may fail, with the consequence the code draws: the lists and the capabilities
end the program, anything else leaves a gap. History: `faults` are the links for which a
command failed, `rejected` the devices read that showed no fix. `runLocalCommand` never
uses chroot, since `useContainerCmds` and the other mode differ in a prefix that does not
reach the shell's command; so there is one mode.

`FrameParser` has a frame as a sequence of cells, each a field, and a buffer that keeps the
cells a shorter frame does not overwrite. `parse` and `parsePtpAnnounce` read the whole buffer.

`DaemonStart` is the program that does the two after each other: once the inventory has
recorded a link, one receiver (each has a buffer of its own) reads frames for good, and if
the inventory ended the program there is none.

### NodeLabels, Reachability, TopologyDrawing

`NodeLabels`: `node` is the API server's copy with its version, which an update must
match. Calls fail at any time, an update may be made though the call fails, others
update the rest of the node. The history `labelled` is the value of the last call for a
key that returned without error, if none that failed may have come after it.

`Reachability`: `now` is the time since the call. A ping takes any time up to its own
timeout and then counts as unanswered; the node comes and goes.

`TopologyDrawing`: the LANs in their order, the counter `k`, the colours of the LANs
drawn and the edges. Attributes of the drawing other than a LAN's colour are left out,
and so are errors of the graphviz library, which end the program.

## 3. Runs

| cfg (module) | shows |
|---|---|
| `GraphSolver.cfg` (`MCGraphSolver`) | two problems solved in turn on changing configurations: `SolutionsExact` (each satisfying assignment once per run, and other problems left alone), `SearchInv` (why), `SolutionsSound`, `PrintsFit` (printing cannot panic unless a smaller configuration was set since), and `ImplementsSearch`, the refinement of `SolutionSearch` with its fairness, so that every run ends |
| `StepEvaluation.cfg` (`MCStepEvaluation`) | encoding round trip; siblings of a card, pairs and triples on a LAN, single and combined announce tests agree |
| `L2Discovery.cfg` (`MCL2Discovery`) | list and maps agree, numbers fit, panics only after failure, LANs sound and covering, announces own, no interface lost, numbers stable, calls return |
| `L2Daemon.cfg` (`MCL2Daemon`) | reports complete, whole, growing; neighbours foreign; latest announce wins; no deadlock; what is received is reported (`ReceivedIsReported`, from the moment a frame was read, unless the daemon restarts); `KeepsPromise`, the refinement of `DaemonPromise` with its fairness |
| `Cluster.cfg` (`MCCluster`) | neighbours meet (`NeighboursMeet`: of two that listen one has seen the other, or its probes are not all sent), LANs join segments only at a port whose socket took a probe of another one (`LansSound`), whenever reports are read, and are complete when they are read after the probing (`LansComplete`), and the daemons come to rest with everything reported unless they were read before (`Settles`) |
| `DaemonStart.cfg` (`MCDaemonStart`) | every wanted link is recorded, with its own features, and none is missed unless a command failed; a frame is read as it was sent, whatever the buffer held |
| `NodeLabels.cfg` (`NodeLabels`) | no label set by a successful call is lost |
| `Reachability.cfg` (`MCReachability`) | a wait ends, at most a ping and a second after its timeout, and before it only if the node was as expected |
| `TopologyDrawing.cfg` (`MCTopologyDrawing`) | the drawing shows the LANs, each in a colour of its own unless two are extra ones, and nothing panics while there are colours |

Three runs are expected to fail, each on one statement of a comment or a message:

| cfg | the comment or message | the code |
|---|---|---|
| `GraphFits.cfg` (`MCL2Discovery`) | `MaxL2GraphSize` is the "max size of graph" | after failed attempts it is that of another discovery, or too small, and building the graph or printing panics |
| `ShortIsNil.cfg` (`MCDaemonStart`) | `parsePtpAnnounce` "returns nil if the frame [...] is too short" | it is given the whole reused buffer, and completes an announce that is cut off with what lies behind it: the zeros of the new buffer for the first frame (the shortest trace), bytes of earlier frames later |
| `ExtraLans.cfg` (`MCTopologyDrawing`) | "All extra LANs will be the same color skyblue" | `colors[k]` is read before `k` is compared with the number of colours (`main.go:66`): the first LAN too many panics |

Also noticed while modelling, without a run of their own; the models do what the code does:

* `IsWpcNic` (`graphsolver.go:363`) is documented to check the PHC index and pins too; the
  subsystem suffices. The dispatched `IsWPCNicWrapper` does ask for the pins.
* Numbers are not positions after a failed attempt: a retry counts from 0 again
  (`l2lib.go:324`) on top of the old list. `NumbersFit` says when they are.
* After a `GetL2DiscoveryConfig` whose discovery failed, the next one returns the empty
  configuration as the existing one (`l2lib.go:220`).
* `reset` (`l2lib.go:233`) keeps `PortsGettingPTP` and the reports of the earlier discovery.
* Announces an interface sends are kept with those it receives (`main.go:402`).
* A bond slave that listens only after its neighbours have stopped probing is never discovered
  (`main.go:448`), since slaves send no probes: `LansComplete` leaves slaves out.
* LANs can join segments (`main.go:373`): a receiver opens its socket, takes a probe that comes in by another port of
  its node, binds the socket, reads the probe and reports its sender as its own neighbour. When binding fails
  this goes on for good. `LansSound` says that there is no other way; no comment or test
  promises more, so there is no run for it.
* After a timeout `WaitForNodeReachability` logs the node as found reachable or not without having tested it
  last (`nodes.go:73`).

The properties of `L2Discovery.cfg` that retries break are stated with the proviso
`~ spoiled` or `~ failed`, so that the run shows exactly where the damage ends: list and
maps stay consistent, no interface is lost, and nothing panics unless an attempt failed.

### Bounds

* `GraphSolver`: four configurations (four, two and no interfaces), five problems of
  zero to three variables, two problem names and `MaxRuns = 2` runs of them together. Three
  variables over four interfaces make every depth relation between swaps occur;
  configurations smaller than the problem and empty ones are in.
  Two runs show repetition, a change of configuration, and one problem after the other.
* `StepEvaluation`: all 32 x 32 features of two ports of a node, all partitions of three
  ports into LANs and one overlapping division, up to two announces on a port.
* `L2Discovery`: two nodes with three interfaces each, among them two with one MAC
  address, a virtual, a plain and a skipped one; an early and a late report for each;
  two calls, so that the second meets what the first left; three attempts as in the code.
* `L2Daemon`: two interfaces on one segment, one the slave of a bond; five and two frames,
  among them foreign ones of every type, one of the sibling port, two announces of one grandmaster and an own
  announce. `MaxProbes` is 1 rather than 10: the number of probes affects nothing else in
  this module. Receiving and restarting are unbounded.
* `Cluster`: two nodes, one with a port, the other with two, of which one is on the segment of the first
  and probes, and one, a bond slave, is alone on another: what joins segments is a probe it records.
  Three probes of which one is early and one may be lost:
  the fewest with one that counts, one that does not and one to lose. One restart, at any moment.
  `BindFails` holds the slave only: for the others a socket that is not bound takes no other probes
  than one that is. The theorems allow it for all.
* `DaemonStart`, the inventory: five links, one of each sort: loopback, two ports of a NIC with the two
  forms of a clock, a bond, a link without PCI device; two GNSS devices under a link, and one more
  found under its PCI address only, one without a fix and two that may show theirs or not.
* `DaemonStart`, the receiver: two senders, eight kinds of frame, every order; frames from two to six cells.
* `NodeLabels`: two callers, two keys, two values, four versions of the node: two racing
  updates, one by another client and a second call.
* `Reachability`: a ping of at most 3 and timeouts of -1, 0, 1, 3, 4 and 6: below, at and above
  the duration of a ping, and no time at all.
* `TopologyDrawing`: six interfaces in at most four LANs, so up to three can be
  drawn, and two colours in place of eight.

`CHECK_DEADLOCK FALSE` stands where the system really stops: a panic, the
last of the allowed runs or calls.

### Fairness

* A run of the solver, and a call of the library, are synchronous and CPU bound or
  wait for client calls that return: weak fairness of all their steps together. Nothing
  makes a caller call.
* Goroutines that can run do run: weak fairness of each receiver's and sender's steps. Taking
  the mutex is strongly fair, since `sync.Mutex` hands itself to a waiter that has
  waited for a millisecond (starvation mode). Frames need not arrive and nothing need panic.
* `Cluster`: weak fairness of each port's opening, binding, probing and receiving and each node's printing,
  the same goroutines. Restarts are bounded, so they end. Nobody need read the reports.
* `Reachability`: the calling goroutine runs on; the node may come and go for ever.

## 4. Proofs

TLC decides the properties for the instances above; the following hold for all values of
the constants that satisfy the named assumptions. Every invariant of every passing run is a
theorem, and so are both action properties (`NumbersStable`, `ReportsGrow`) and the safety
part of the two refinements.

### The solver

`GraphSolver_proofs`, from `ConfigsAssumption` and `ProblemsAssumption`.

* `TypeCorrect`, `SearchCorrect`, `RunSound`: one inductive invariant (`IInv`). Types
  need `SearchInv` (loop variables in range), `SearchInv` needs types, and a
  recorded solution satisfies the problem because `SearchInv` holds when it is recorded.
  `StepLocal` is the heart: the verdict of a step depends on the variables it reads, so
  swapping later positions cannot change it.
* `PrintsFitCorrect`: every solution is within the interfaces of a run made since
  `InitProblem` (`FoundInv`).
* `SolutionsExactCorrect`: nothing is lost and nothing repeated. The code keeps one slice, and the
  calls further up see it again once the swap after the recursive call is undone. The invariant
  `ExactInv` therefore speaks of the *stack* of slices that these undone swaps give, one per
  depth (`IsStack`), and says that the solutions found are the satisfying assignments *behind* the
  search: those that at some depth make a choice the loop there is done with (`Behind`). Each step
  moves that border: a pruned or recorded candidate passes it (`ExactPrune`, `ExactRecord`), the
  end of a loop turns "all choices made" into "returned" because the slice is a permutation
  (`ExactEndLoop`, with `Onto`), and `Backtrack` finds the slice of its depth unchanged
  (`ExactBacktrack`, with `SwapBack`). At depth 0 everything is behind. `CountInv` adds this up
  over the runs of a problem.
* `SearchImplements`: every step of the solver is a step of `SolutionSearch` or leaves its variables
  alone. Recording appends an assignment that was not found yet, and a run finishes when none is
  missing; both are `ExactInv`.

`StepEvaluation_proofs`, from `ConstraintsAssumption` (a constraint has the number of variables and
values its predicate takes, as the constructors demand) and `ConfigsAssumption` (interfaces
have announces). `Reads` says what a list of integers must have at which place to be a
constraint; every constructor gives that (`EncodedReads`), also without the optional flag
(`UnflaggedReads`), and what has it is decoded to the predicate (`Decoded`), by cases on the number
of parameters and the predicate. `EncodingRoundTripsCorrect` follows. `SiblingsAgreeCorrect`,
`LanStepsAgreeCorrect` and `AnnounceStepsAgreeCorrect` are about the predicates themselves.

### The library

`L2Discovery_proofs`, from `NodesAssumption`, `IfacesAssumption`, `ReportsAssumption` and the lemmas of
`Lans_proofs`.

* `TypeCorrect`, `ListCorrect`, `NumbersCorrect`, `PanicCorrect` and the action property
  `NumbersStableCorrect`. `ListMatchesMaps` is not inductive: that a number stays
  within the list needs `index <= Len(PtpIfList)`, with equality unless an attempt
  was spoiled (`IndexInv`). From the same equality the graph is as large as
  the list, and so building it cannot panic.
* `LansSoundCorrect`: both ends of an edge are on one segment (`EdgeOnSegment`: the
  receiver is looked up by name, the sender by MAC address, and `ListMatchesMaps` makes both
  the interface meant), and a part of a component that no edge leaves is all of it.
* `LansCoverCorrect` needs the course of the discovery (`CourseInv`: the list holds
  interfaces of nodes read and, if only PTP ones are wanted, of that kind), so that a link
  between listed interfaces passes the filter of the edges.
* `AnnouncesOwnCorrect`: an entry has no announces while its node is being worked through, and its
  own afterwards (`AnnouncesInv`); as numbers are positions no other interface writes to it
  (`WrittenAnnounces`).
* `NoInterfaceLostCorrect`: an interface of a node read is handled, or still among the names
  to look at (`HandledInv`); this one holds whichever attempts failed.

`Lans_proofs` (no assumption): components cover the vertices, do not overlap, edges do not leave
them, and a non-empty part that no edge leaves is the whole component.

### The daemon and its network

`L2Daemon_proofs`, from `FramesAssumption`, `FreeAssumption`, `MaxProbesAssumption`.

* `TypeCorrect` with mutual exclusion, `ReportsCompleteCorrect`, `ReportsWholeCorrect`,
  `RemotesForeignCorrect`. The invariant `MapInv` says that entries are well formed, that
  every started interface is recorded, that recording works on foreign frames, and that
  the only entry without a neighbour is the one its receiver, holding the mutex, is filling.
* `ReportsGrowCorrect` keeps the last report below the map. `LatestAnnounceWinsCorrect` compares
  the entry with the history for each interface, and with the frame its receiver has half
  recorded (`Kept`).
* `DaemonImplementsPromise` maps every step to a step of `DaemonPromise` or a stutter: of a critical
  section the first write of a new address learns it. Its hypothesis `NilIsNoMap` says that the
  absent report is not taken for a map of reports.

`Cluster_proofs`, from `PortsAssumption`, `ProbesAssumption`, and `NilAssumption`, that the absent
report is no report: `TypeCorrect`, `NeighboursMeetCorrect`,
`LansSoundCorrect`, `LansCompleteCorrect`, `PromisesKept`. That neighbours meet is a count: a
port has sent at most `EarlyProbes` when it opens, so that when both of two are open first, one
of them has sent no more; from then on every probe of either makes them meet or is lost,
and `missed` counts those. For `LansSoundCorrect` a port whose socket took no stray probe has
queued, recorded and reported only ports of its own segment (`OwnSegment`), so that in a LAN
without a port in `stray` every edge stays on its segment, and with it the LAN. LANs are complete because the
reports read in a calm hold what `NeighboursMeet` says, with one direction being enough.
`PromisesKept` and `DaemonImplementsPromise` together are the link between the two modules.

`DaemonStart_proofs`, from `LinksAssumption` (links have different names), `PciAssumption` and
`AnswersAssumption` (what the commands print for the links wanted is one of the forms the code
reads, with one bus address at most), and `FramesAssumption` (a frame fits the buffer and has its addresses
and ethertype).

* `InventoryCompleteCorrect`, `RecordsOwnCorrect`, `NothingMissedCorrect` are one invariant,
  `InventoryInv`. `CourseInv` says where the program is, `ListInv` that the links recorded are the
  wanted ones before `index`, `AskedInv` what is known of the present link after each
  command, and `RecordsInv` the same of the links recorded. What is known of a link (`Known`) has two
  directions for each feature: what is kept is the link's, and what is not kept is not there,
  or a command failed (`faults`), or the device was read and showed no fix (`rejected`). The
  histories only grow (`Grow`), so what is known stays known. The locals `address` and
  `ptpCaps` outlive an iteration: the invariant says of them only what the
  commands of the present link have assigned, so that a value left over cannot get into a record.
* `ReadAsSentCorrect`: the buffer begins with the frame received last (`BufferInv`), and the parsers read
  no cell behind the end of a frame that is whole (`ParsedFromStart`).

### Helpers and drawing

`Helpers_proofs`; the three share no state.

* `LabelsKeptCorrect`, from `NilAssumption`, that a missing map is no map of labels: a copy of the
  present version is the present node (`CopiesInv`).
* `WaitBoundedCorrect`, from `TimesAssumption`: a ping is begun before the timeout and followed by one
  sleep (`WaitInv`).
* `DrawingTrueCorrect`, from `ColorsAssumption` and `DiscoveredAssumption`, that LANs are finite, not
  empty and disjoint, as components are. With `Position` the number of LANs looked at, the
  interfaces joined are those of the drawable LANs up to there, two of them to one node exactly if they
  are on one LAN, and the counter `k` is the number of those LANs (`DrawInv`). Both halves follow: at the
  end `Position` is all of them, and a LAN found without a colour is one more than `Colors`.

### Only model-checked

Liveness is out of the prover's reach: the fairness in `ImplementsSearch` and `KeepsPromise`,
`CallsReturn`, `ReceivedIsReported`, `Settles` and `WaitReturns`. The three statements expected to fail
have counterexamples, not proofs. `GraphSolver_proofs` needs what `ProblemsAssumption` excludes:
for a step that reads a later variable nothing is proved or checked.

## 5. Plan

Written, in this order, the most important behaviour first: `SolverSteps`, `SolutionSearch`,
`GraphSolver`; `StepEvaluation`; `L2Discovery`; `L2Daemon`; their proofs; `Cluster` with
`Lans` and `DaemonPromise`; printing; `Inventory` and `FrameParser`, composed in `DaemonStart`;
`NodeLabels`, `Reachability` and `TopologyDrawing`; the proofs of `Lans`, `Cluster`, the announces,
growth and promise of `L2Daemon`, the results of `L2Discovery`; of the helpers; the exactness of the
solver and its refinement of `SolutionSearch`; of `StepEvaluation`, `DaemonStart` and the drawing.

Next:

1. What liveness rests on: for a run, a call and a wait a measure that every step of it
   decreases, which leaves only the fairness to TLC.
2. The first half of `ReportsAssumption` of `L2Discovery`, that reports name all interfaces, as a theorem about
   `L2Daemon` in place of the argument in section 2; and what the second half gives away: `L2Discovery` with
   reports that hold stray probes, as `Cluster` shows them.

## 6. Not modelled

YAML and scripts, log wording, attributes of the drawing, the regular expressions of the
parser and the Kubernetes client have no part in the state above. `IsSingleNodeCluster` is one
query, `SetL2Client` one assignment, the `String` methods format. The example programs
are sequences of calls that `GraphSolver` allows. Forward references in problems and concurrent use of
the two global objects are outside: nothing in the repository does either. Pods of an earlier
daemonset that was not deleted are not told apart from those of the present one: `L2Discovery`
lets the log of a pod hold any report of its node.
