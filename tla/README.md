# NetQuest in TLA+

NetQuest lets a learner draw a network in the browser and run `ping`, `dhcp renew`
or a connection test on it. The backend simulates real frames for one command at a
time and keeps nothing; the document in the browser is the only state. This
directory holds TLA+ models of the parts whose behaviour depends on the order in
which things happen, the TLC configurations that check them, and TLAPS proofs.

Paths below are relative to the repository; `sim/` is `backend/app/simulation/`,
`fe/` is `frontend/src/`.

## 1. Inventory

| Component | State it keeps | Operations | Where it is hard | What makes it correct |
|---|---|---|---|---|
| DHCP pool and server (`sim/dhcp/`) | pool configuration, MAC-to-address leases | allocate, release, handle | broadcast queries reach servers they were not meant for, some twice; the pool is edited between commands | one address, one client; a lease ends only by release |
| DHCP client (`sim/devices/app_services.py`) | address, gateway, received offers | renew, release | OFFER, ACK, RELEASE lost, reordered, duplicated; hop budget spent | a used address is backed by a lease; an ACK confirms what was asked |
| Topology store and its callers (`fe/stores/topologyStore.ts`, `fe/hooks/useCommandRunner.ts`, `fe/features/packets/ConnectionTester.tsx`, `sim/runner.py`) | the document, requests in flight, the running flag, a file | command, test, edit, remove, save, load, mission, page reload | answers are computed on a snapshot and written over a document that moved on | learned state reaches the next command; the terminal always opens again |
| Engine, switch, ARP, ping (`sim/core/engine.py`, `sim/devices/switch.py`, `sim/devices/host.py`, `sim/arp/`, `sim/commands/ping.py`) | queues of running loops, hop count, MAC and ARP tables, ICMP inbox | deliver, learn, flood, resolve, answer, ping | `engine.run` is re-entered from a handler; loops storm; tables never expire | replies are real and fresh; what switches learn is true; commands return |
| Router and NAT (`sim/devices/router.py`, `sim/routing/table.py`) | routes, ARP table, NAT bindings | forward, TTL, ICMP error, translate | bindings matched by port alone; routing loops | a reply reaches who asked; errors never answer errors |
| Firewall (`sim/devices/firewall.py`) | rules, hit counters, established flows | evaluate, forward | established flows bypass rules | nothing denied gets through but answers |
| VPN gateway (`sim/devices/app_services.py`) | tunnel configuration | encapsulate, decapsulate | both ends must agree | inner packets never travel in the clear |
| DNS (`sim/dns/`, `sim/devices/host.py`) | zone, resolver cache | resolve, cache | CNAME loops and depth; a cache that is never asked again | an answer was true when given |
| Services and connection verdicts (`sim/transport/`, `sim/connectivity.py`) | open ports | connect, classify | the verdict is derived from a trace | the verdict names the real obstacle |
| Playback (`fe/stores/simulationStore.ts`, `fe/hooks/usePlaybackClock.ts`) | events, cursor, elapsed time, transit | play, pause, step, restart, tick | clock ticks against user clicks and new traces | no event skipped, playback ends |
| Missions (`fe/stores/progressStore.ts`, `fe/hooks/useChallengeCheck.ts`, `backend/app/challenges/`) | active mission, objectives, completed, XP | check, complete, switch, reset | checks in flight across a change of mission | XP once per mission; objectives belong to the mission shown |
| Validation (`sim/validation.py`, `fe/hooks/useTopologyValidation.ts`) | issues | debounce, validate | a late answer | badges describe the document shown |
| Topology editor (`fe/lib/devices.ts`, `connect` in the store) | devices, interfaces, cables | add, connect, grow | id and MAC counters restart | one cable per port, unique MACs |
| Terminal, API, registry, formatting, UI | scrollback, wire formats | - | - | - |

How they interact: the browser sends the document with every command (HTTP); the
loader builds devices and a network from it; the command handler drives
`SimulationEngine.run`, which hands frames to `receive_frame` of devices and
queues what they return; a handler may call `engine.run` itself to resolve a MAC.
The answer carries events for playback and `device_state`, which
`applyDeviceState` writes over the document. Everything inside one command is
synchronous; everything between commands is not.

## 2. Plan

Order of modules. All of it is done.

1. **DhcpPool, LeaseContract, DhcpExchange, DhcpProofs** - allocation; what servers
   promise; the exchange over a bad wire, shown to implement the promise.
2. **TopologySync, TopologyProofs** - the document between commands. It reuses
   DhcpPool, because leases are the learned state whose loss does harm. A
   command, which DhcpExchange takes apart, is one atomic step here.
3. **EthernetLan, LanTruth** - the engine, switches, ARP and ping; LanTruth adds
   the graph of cables and the properties stated over it.
4. **Missions, MissionProofs** - progress and validation: the questions about the
   document that are answered late.
5. **Routing, RoutedPath, PathTruth, PathProofs** - routers, NAT, firewalls, and
   what ping, traceroute and connect report over them.
6. **Names, NamesProofs** - the CNAME walk against a definition that does not walk,
   and the resolver cache against zone edits and late answers.
7. **TopologyEditor, Playback, PlaybackProofs** - ports, cables and the counter that
   numbers them; the animation on top of it, against clicks, ticks and new traces.
8. **LanProofs, LanTruthProofs** - nesting and honest replies, for any LAN; what
   tables and pings tell of the cables, for any LAN while its live cables make no loop.

What a next step could be: the VPN gateway, with packets inside packets (8).

## 3. Modules and code

**DhcpPool** is `DhcpPool` of `sim/dhcp/pool.py`: a pool is a record (`enabled`
stands for `is_usable`), a lease table a function from clients (normalised MACs)
to numbers or `None`; addresses are numbers because `ip_to_int` keeps their order.
`Allocate` yields the table after `allocate`, a set of one: the existing lease
whatever the range is by now, else the first free address, else no change.

**DhcpExchange** has one action per handler and per leg of a command: `Renew`,
`SendRequest`, `GiveUp`, `ApplyLease` are `run_dhcp_client` cut at its two
`engine.run` calls; `ReleaseLease` and `DropAddress` are `release_dhcp_lease`;
`ServeDhcp` is `serve_dhcp` with `dhcp/server.handle`; `ReceiveDhcpReply` keeps a
reply in `dhcp_offers`. The network in between is left open: `wire` is a set of
frames, each on its way to one receiver, and a frame may be lost, overtaken, or
delivered again (switches cabled in a loop). Each arrival costs a hop;
`StopAtHopLimit` is the end of `engine.run` at the limit, which the two runs of one
command share. `EditPool` is the pool editor between commands.

**LeaseContract** is the abstract specification: a server sets an address aside for
nobody else, a client uses an address set aside for it, and only what a client has
given up is forgotten. `ImplementsContract` maps `reserved` to the lease tables and
`bound` to the addresses in use; a client that is releasing no longer uses its
address, since the document is rewritten when the command is over.

**TopologySync** has the document `doc` (which devices exist, every client's address,
the server's lease table), the requests in flight `pending`, each already holding the
answer computed on the document it carried, the flag `running` and the saved `file`,
and the `habit` of the user: what is done besides terminal commands, chosen once out
of `Habits`. `Apply` is `applyDeviceState`: tables replaced as a whole, the address
only where the command assigned one, devices that are gone passed over. `Answered` and
`Failed` are the two ways a fetch settles, with the `finally` of the hook.
`OneAtATime` is a user who runs no connection test and opens no file; the properties
that need one say so.

**EthernetLan** models the running `engine.run` loops as a stack, innermost first;
each has its queue and the packet its caller holds back until the loop returns
(`resolve_arp` called by `send_ipv4`). `Deliver` is one turn of the innermost loop
with the whole handler of the receiving switch or host (`Targets` is where a switch
sends a frame: the learned port, or all others that are up, in `Ascending` order);
`DropFrame` the dead cable; `Return` the end of a loop and what its caller then does.
`StartPing`, `SendEcho` and `Finish` are `run_ping`. `ClearArp`, `ClearMac`,
`ChangeCable` and `ChangeAddress` are what users do between commands, enabled by
`Edits`. A host has one interface; all hosts share a subnet; gateways are left to
RoutedPath.

**LanTruth** describes connectivity by closed sets of devices: `Connected`,
`Behind` (the hosts a switch reaches by one of its ports), `Between` (the switches any
way from a device to a host leads through) and `Looped` (some cables touch every device
they touch twice, or one leads from a device back to itself). All of them are taken of
the cables that are `live` at the moment, so a host may be cabled to another port or
switch between two commands, as `connect` and `removeLink` let it. A switch never
forgets by itself (`switch.py:75`), and the editor leaves its table alone: what it
learned of a host that has moved is wrong. `Open` says of a way that no switch on it
holds such an entry for the host; `LearnsTruth` is about what switches write, and
`PingTellsTruth` about what the wrong entries cost.

**Missions** has the progress store (`active`, `completed`, `xp`, `objectives`,
`checking`, `award`), the check in flight with the answer it will bring, and the
validation effect (`timer`, `asking`, `badges`). A document is reduced to whether it
has devices and which objectives it meets: the handlers of `validator.py` are
predicates of the document, all false on an empty canvas, and the engine runs of a
check leave no trace. `DocumentChanged` is the clean-up and
re-run of the validation effect, part of every action that writes the store.
`seen` records which objectives a check of their mission found met.
`resetProgress` and `clearLearnedTables` exist in the stores, but nothing calls them.

**Routing** is the pure part of forwarding: the table the loader builds (connected
subnets, then usable static routes, the default route last), longest-prefix lookup
with ties going to the first inserted, the host's choice between its own subnet and
its gateway, and which interface answers the ARP question for the next hop. A
network is a set of addresses with a prefix length. `Walk` and `GoesInCircles`
describe where a configuration leads, and are used by the properties alone.

**RoutedPath** is one command over these. `Begin` to `Finish` is `run_command` on a
network built for it: bindings, established flows and the hop count start empty and
end with it, so the configuration `world` is a choice of the initial state. `Try`
sends the next probe (`run_ping`, `cmd_traceroute`, `attempt_connection`),
`Deliver` is one turn of `engine.run` with the whole handler of the device it
reaches (`Cross` a firewall, `HostReceives`, `RouterReceives` with `Forward`,
translation and ICMP errors), `StopAtHopLimit` its limit, `Conclude` what the
command makes of its inbox. Every device answers a packet with at most one, so the
queue is a set of at most one frame. `ruled` and `fates` are history: what the rules
let through, and what became of the probe and its answers.

**PathTruth** states what a report must have to do with that, in parts that are
theorems for more or fewer networks: `Untranslated` is a network without translation,
`PublicTarget` a target that hands probes on.

**Names** is one lookup at a time over zones, resolvers and caches. `SendQuery` to
`ReceiveAnswer` or `LoseAnswer` is `resolve_name` with the network in between one
choice; in the middle each turn of the loop in `DnsZone.resolve` is an action
(`FindLoop`, `FindRecord`, `FollowAlias`, `FindNothing`, `TooDeep`). The command works
on a copy of the document, so its answer, with every cache in it, waits in `pending`
until `Applied` writes it over what the document has become, or `Failed` drops it.
`served` is history: which address a server gave for which name.

**TopologyEditor** has the list of `devices`, the `links`, the page's counter
`sequence` and a saved `file`. `AddDevice`, `RemoveDevice`, `Connect` (with
`FreeInterfaceOrGrow`), `RemoveLink`, `Save`, `LoadFile`, `LoadMission`, `Reset` are
the operations of the store; `LoadPage` starts the counter from the clock under the
document that `localStorage` kept. Removing leaves gaps between positions, which
keeps the order of the list, the one thing `devices.find` looks at. `ahead`, `foreign`
and `made` are history: whether the counter met only smaller numbers, whether a
mission brought ids of its own, how much was made.

**Playback** extends it with the loaded trace: `events`, `cursor`, `elapsed`,
`playing`, the crossing that is drawn (`transit`) and the frame in the inspector
(`selected`). `Tick` is one frame of `usePlaybackClock`; `Clockwork` is a tick that is
due, `Drive` the buttons and the event log, `Answer` a command that brings its trace,
`ReloadPage` a new page, whose trace is empty.

## 4. Runs

| Run | Bounds | What it shows |
|---|---|---|
| dhcp_one_server | 3 clients, pools of 1-2 addresses among 5 (moved, shrunk, reversed, off), hop limit 5, range cap 2 | the table stays injective, leases end only by release, renewing keeps the address, commands end |
| dhcp_two_servers | 2 clients, 2 servers with disjoint pools, hop limit 7 | an ACK confirms what was asked, used addresses are backed and unique, the contract is implemented |
| sync_document | 2 clients, a pool of 1 address and a typed one, 2 requests in flight; a user who types, removes and starts missions, and one who also tests and opens files | addresses stay apart and what a command learned reaches the next one, while tests and files are left alone; late answers touch nothing but their device; the terminal is shut for one command and opens again |
| sync_overlap | 2 clients, a test beside a command | **violation**: see 7 |
| lan_tree | 2 switches, 3 hosts, 6 cables that come and go: one host on either switch, one or two cables between the switches; any two hosts have addresses; tables cleared at any time, 2 requests per ping, hop limit 500 | storms need a loop of live cables; without one switches learn what is true, and a ping is answered exactly when its target is connected and no switch between has it on a port it left; ARP tables are true, requests and replies do not mix |
| lan_loop | 2 switches cabled twice, 2 hosts, any addresses, hop limit 12 | under a storm the nesting stays at two, no reply is invented, the command returns |
| missions_done | 3 missions (the third builds on both others, the second brings its own network), 4 objectives | XP is earned once, prerequisites come first, completed missions were met, awards announce what they unlock, badges never go back |
| missions_switched | the same | **violation**: see 7 |
| path_verdicts | 3 hosts, 2 routers, a firewall; 5 route tables, 3 rule lists, NAT or none, a gateway or none, 2 sets of services; all four tools from three hosts and a router; the code's own TTL 64, hop limit 500, 10 pings, 12 traceroute hops | reports are what the packets met; private addresses stay inside; bindings hand packets to whoever began; firewalls remember only what they allowed; only loops exhaust the hop budget |
| path_filtered | the same | **violation**: see 7 |
| names | 3 names, walks of depth 2, zones with at most one A record, 1 host, 1 server, 1 answer in flight | the walk tells ends, loops and long chains apart; caches hold only what a server said of that name; a report is what was cached |
| browser | palette of one-port devices, one device or cable made, canvas empty or two cabled devices, clock 0 or 5, one mission, traces of 2 events lasting 2 and 1 ticks | ports hold one cable, numbers are given once, the animation shows the event last revealed on the cable it crossed, playback ends |

Why the bounds are enough. *DHCP*: three clients and two addresses are the least where
a pool runs dry while somebody holds a lease; five hops allow a complete exchange with
one server (four arrivals) and a duplicate, and cut others off in every phase; with
two servers seven hops leave room for both to answer both legs but not always.
`RangeLimit` is 4096 in the code; the value 2 makes the cap bite in one run.
*Documents*: two requests are the least that overlap, and two clients with one address
the least that compete for it. *LAN*: two switches give the three positions
that matter, same switch, other switch and disconnected, and the host that can be cabled
to either passes from each to each while both switches remember it; a second cable
between them closes and breaks a loop, whose floods leave both with entries that point
the wrong way. The hop limit of 500 in `lan_tree` is the code's own and is reached in
the loop only, so that any other storm would be real; 12 in `lan_loop` is reached in
every phase of a ping. `ArpTableTruthful` is about hosts that keep their addresses:
nothing in `lan_tree` edits one, since nothing forgets an ARP entry either
(`arp/table.py`) and the code promises nothing of an address that moves. What still
holds when addresses are edited is in `lan_loop`. *Missions*: two objectives tell
"all" from "some", a mission with two prerequisites tells "unlocked" from "one step
closer", and one check is all the disabled button lets through. *Paths*: two routers
are the least that loop, that route asymmetrically and that put a hop beyond the one
that translates; the second PC makes a second inside address. `StormMeansRoutingLoop`
counts the frames that carry packets; the few ARP frames of a command cost hops too,
which EthernetLan counts. *Names*: three names are the fewest with a chain longer than
a depth of 2, and two turns the fewest in which a loop is met; two A records would
only shorten chains. The proofs are for any names, hosts, servers, depth and answers
in flight. *Browser*: Connect grows a port on both ends of a cabled pair, so one step
of making already meets growth, deletion and reuse; the clock restarts below, or just
at, the numbers of the pair, which gives both values of `ahead`; two events have every
kind of successor. The proofs are for any number of devices and any trace. `Count` is
2: a reply can be left over from one request to the next only if there is a next one.
Symmetry is used only in runs without liveness properties.

Deadlock is checked everywhere: users may always do something. Type invariants are
proved (6), so no run repeats them.

## 5. Fairness

A command is a synchronous call in the backend: once started, the engine takes steps
until it returns. `DhcpExchange` and `EthernetLan` therefore assume weak fairness of
the engine's and the command's steps and of nothing a user does; which frame arrives
and which is lost stays free. `TopologySync` assumes that every fetch settles, with an
answer or with an error, which is what `fetch` promises and what the `finally` of the
hooks relies on; the order of answers is free. `Playback` is fair to `Clockwork`: the
effect in `usePlaybackClock` asks for the next animation frame as long as `playing`
holds. `PlaybackEnds` speaks of traces that are left alone from some time on; who
presses restart for ever sees no end. `RoutedPath`, `Missions` and `Names` state
safety only and assume no fairness.

## 6. Proofs

`DhcpProofs` proves, for any clients, servers, pools and hop limit, from the
module's assumptions on its constants:

- `TypeCorrect`, `NoDoubleLease`, `UsedAddressesBacked`, `AckIsFresh`: from one
  inductive invariant `IInv`. AddressBacked is not inductive by itself: applying a
  lease needs to know that an ACK received confirms a lease its server still
  keeps, hence `MessagesMatchPhase` (what may be in transit or received in which
  phase, and that servers still keep what they offered), `QuietWhenIdle`
  (nothing is left over between commands) and `LeaseFromPool` (leases come
  from the addresses a server was ever given).
- `LeasesAreStable`: an action property, from `IInv` and a case per action.
- `NoDuplicateAddress`: assumes that the pools of two servers have no address in
  common (`PoolsDisjoint`). Nothing in the program enforces that.
- `RenewKeepsAddress`: assumes there is one server. With two, a client may well be
  moved from one to the other.
- `ExchangeKeepsContract`: the refinement; initial states map to initial states,
  every step to a step of the contract or a stutter.

`TopologyProofs` proves `TypeCorrect`, `NoDoubleLease`, `LateAnswersStayLocal` and
`GateIsExact` for every use of the program, and `TerminalIsSafe` and
`LearnedStatePersists`, whose properties carry the premise `OneAtATime` (no
connection tests, no files), which is exactly what the divergences of 7 leave out.
The argument (`SyncInv`): one command at most is in flight (`OneInFlight`), the
document is consistent (`DocumentInv`), and an answer in flight still fits the
document, whatever was typed or removed since (`Fits`). `GateIsExact` has an
invariant of its own (`GateInv`): the slot the running command is in.

`MissionProofs` proves, for any missions, every property of `missions_done`. A check is
answered when its mission may no longer be active, so the invariant speaks of the
mission checked: it was open when the button was pressed and stays so because
`completed` only grows (`CheckIsHonest`), and a validation is cancelled exactly
when the document has changed (`CancelledWhenOvertaken`). XpEarnedOnce compares
`xp` with a fold over a set, whose value for one mission more (`WorthAdds`) is
proved by a smallest set for which it fails (`SmallestSet`): the strict subsets of a
finite set are well-founded, which the prover can use where it cannot use induction.

`PathProofs` has four groups of theorems, for any network, configuration and command.

- `TypeCorrect`, `PrivateAddressesStayInside`, `OnlyAllowedConversations`: the
  invariant (`Carried`) is that every frame in flight is `Sound`, sent by an interface
  of its device under an address a translating router may show. It is needed because
  a frame leaves a router in four places (forwarded, an echo reply, an ICMP error, a
  probe of its own), and only the first passes the translation. A firewall, lastly,
  moves a frame to another wire without renewing it.
- `SilenceIsLoss`, `TargetsAnswer`, `VerdictsAreHonest`: a verdict is concluded from
  an inbox long after the probe met what it reports, so the invariant (`Orderly`) is a
  story that goes on while the command waits: every packet in flight and every message
  heard has its cause among the fates, and one of them is there unless something was
  lost. The first two hold with translation; `TargetsAnswer` leaves out targets that
  are a translating router's public address, where a host behind it answers, and the
  errors that routers on the way send. `VerdictsAreHonest` is about networks without
  translation, because an error about an answer on its way back may, translated,
  reach whoever probes and be taken for one about the probe.
- `TraceNamesRouters`, `TraceNamesTheTarget`, `StormsMeanCircles`, without
  translation: packets follow the routes. `Course` says that probe n has gone n less
  its TTL hops of its `Walk`. A reply tells only that the probe reached the target,
  not after how many hops: that it did on no earlier line than it should follows from
  the lines before (`Written`). Each says that time was exceeded, at a device that is
  not the target, or is silent. So `TraceNamesTheTarget` assumes that every device has
  one way to the target (`OneWay`; where the model has several, the code takes the
  first) and that no silent line stands where the route reaches it (`TargetMissed`);
  lines silent before that are allowed. `Budget` counts: a probe, its answer and an
  error about that are three legs, each of at most twice as many hops as there are hosts and routers if nothing goes in
  circles. The assumption `Roomy` says that the hop limit has room for that: at 500
  hops, for a ping of 10 probes with up to 8 hosts and routers, for a traceroute of 12
  with up to 6. The 5 of path_verdicts need 360. `Walk` is a recursive function; it is
  unfolded by the least number for which its equation would fail (`WalkExists`).
- `AnswersReachTheStarter`, with translation: NatHandsToStarter. The packets of a probe
  use two ports (`Numbered`), errors always port 1, and a binding is found by its
  port. The invariant (`Bindery`) says that while a packet flies that can ask for a
  binding - the probe, or an answer to a public address - the bindings of its ports
  have the starter's address. What another host is bound to is bound when its answer
  leaves for an address that is not public, or by an error, and after either no such
  packet is left of that probe. The theorem assumes that one router translates: behind
  two, the outer one hands packets to the inner one, not to the starter. The requests
  of a ping share port 1, so after the first the theorem needs the starter's binding
  to come first in the table (`StarterFirst`), as it does when the first request was
  translated.

`NamesProofs` proves `TypeCorrect`, `WalkIsRight`, `CachesAreTold` and
`ReportsAreCached`. `WalkIsRight` needs `WalkInv`: the names
seen are as many as the turns taken, they and the current name are in every set closed
under following aliases, and none of them is an end: each leads to one of them or to
the current name. So when the walk stops, they are the least such set. `WalkAgrees` is
stated over that set and not over walks, which is what brings it within the prover's
reach. The caches need that a name that is asked for was not cached by the asking host
(`AskedUncached`), and `CacheInv`, for answers in flight.

`PlaybackProofs` proves `TypeCorrect`, `PortsHoldOneCable`, `NumbersGivenOnce`,
`AnimationKeepsStep` and `CrossingsKeepTheirCable`. The invariant has three parts:
`EditorInv` (types; ports and cables fit; and as long as the counter is ahead, every
number in use is at most the counter and given once; all of it of the canvas and of
the file, because a file brings back what was deleted since), `TraceInv` (what is
drawn belongs to the trace), and `CablesTold` (a cable id met again in a trace, the
canvas or the file is that same cable).

`LanProofs` proves `TypeCorrect`, `NestingIsBounded`, `RepliesAreReal` and
`PingsDoNotMix` on any LAN with any addresses and hop limit. The invariant says of the
stack of loops (`Nested`) that there are at most two, and of two only the inner one has
a caller that holds a packet back; and that every loop is `Sane`: a loop whose caller
holds a packet carries ARP only, frames and packets belong to the request sent last,
and a reply among them was given (`Told`, `Sound`, `Kept`). No third loop starts
because only an echo makes a host send a packet of its own, and no echo travels in
a loop that resolves an address.

`LanTruthProofs` builds on it, and on where frames are. What the edges of a graph that
changes under learned tables have to do with each other is in four invariants.

- `Wire`: a frame on its way out of a port has come there over live cables from the
  host it names as its source, and what it and the ARP tables say of that host is true.
  This alone gives `AnswersAreFromConnected`, on every LAN, and, while nobody edits
  addresses, `ArpTablesAreTrue`.
- `Ways`: while no live cables make a loop, a frame on its way out of a switch has come
  from behind another of its ports (`Placed`), and every switch it has come through is
  right about its source (`Trail`). It comes into the next switch by a cable that is the
  only way back; were there another, the smallest set of cables that connects both
  ends would be a loop. Nothing is asked of the entries that led it there. The first
  half gives `SwitchesLearnTheTruth`; the second, for the replies in the inbox (`Heard`),
  that whatever was answered had an open way to its target.
- `Addresses` and `Quest`, for `PingsTellTheTruth`: while its target is connected, a
  request under way is either making `Progress` or `Lost`. Progress is a frame on a port
  that leads on to the host it is for, with an open way ahead or flooded, or a packet
  held back for a resolution of which the same is true. A port that leads somewhere
  still does after the switch behind it has looked up a table, because the way is open,
  and after it has flooded, because it never sends back. A request is lost if it was
  sent by a cached MAC to a target whose way is not open; then nothing else is under
  way, so no switch learns better. A question for an address is flooded and needs no
  table to be right; the answer and the reply go where the host that asked was just
  learned, by `Trail`.

`LearnsTruth` needs no hypothesis: frames that go round a loop do teach switches the
wrong port, which is why it speaks of the steps taken while no live cables make one,
and of them all, whatever the loops before have left in the tables. `PingsTellTheTruth`
asks for hosts that keep addresses of their own, and needs both: a host that changed its
address, or one of two with the same address that is cut off, is still asked for under
its old MAC by those who resolved it before. It exempts a ping that ran into the hop
limit.

- `Calm`, with `Manners`, for `StormsMeanLoops`, closes that exemption. Without a loop
  of live cables, a frame that a switch sends on has strictly less ahead of it (`Ahead`),
  and two ports of one switch have nothing ahead in common; so, of frames that serve the
  same purpose (`Label`: a question for an address, a host's answer, the request, the
  reply), none crosses a cable twice. `Calm` keeps the books: there is a set of triples
  of request, label and cable that no two crossings share (`Ledger`), as large as `hops`,
  and nothing still on its way has one of them ahead. That needs, in turn, that no label
  is sent twice for a request (`Firsts`): a host answers a question only when it crosses
  the one cable of that host, which it does once; a reply follows the one delivery of the
  request; a packet held back has not been sent. The loops are `Tidy`: emissions of one
  label in one queue have different cables ahead, and an outer loop carries no ARP.

`StormsMeanLoops` asks for two things. `ListedOnce`: a switch lists each interface once.
`Roomy`: the hop limit exceeds requests times labels times cables, where the labels are
four and one for every host with one of the two addresses asked for. With addresses used
once that is 24 hops a cable for the default of four requests, 60 for the ten that
`-n` allows: a limit of 500 has room for 20 and for 8 cables, counting all that are ever
plugged in; the 6 of `lan_tree` need 72, its pings being two requests long.
Something of the kind is needed, and without it the property fails (see 7). Cables may
come and go, tables be stale and addresses shared. `PingsTellTheWholeTruth` puts the two
together: where the limit has room and addresses are used once, while no live cables
make a loop, every request is answered exactly when its target is connected by an open
way. A target is *not* answered merely because it is connected (see 7).

The last two rest on `BroadcastAssumption`: no host's MAC is the broadcast address
(`sim/core/mac.py` mints unicast ones).

The proofs use the modules TLC checks, unchanged. Only model-checked are:

- liveness: `CommandEnds`, `TerminalReopens`, `PlaybackEnds`;
- `NatHandsToStarter` from the second request of a ping on, if the starter's binding
  is not the first;
- the line of a traceroute's reply (`ReplyNamesPath`) if an earlier probe reached the
  target and was lost there or on its way back;
- `VerdictHonest`, `TraceNamesPath` and `StormMeansRoutingLoop` where a router
  translates, and verdicts on a public target.

## 7. Where code and documents disagree

- **sync_overlap.** `docs/ARCHITECTURE.md` says of learned state that "the frontend
  writes them into the document, so the next command sees them". A connection test
  started (Enter looks at nothing, `ConnectionTester.tsx:150`) before a
  `dhcp renew` and answered after it carries the old lease table, and
  `applyDeviceState` writes that back. The next client is leased the same address.
- **missions_switched.** "Objectives are verified by running the real simulation"
  (`ChallengeBriefing.tsx`, and `validator.py` at its top). A check's answer is
  stored without comparing its mission with the active one: start another
  mission while it is in flight, and that mission's objectives are ticked, by
  position, although no check of it ever ran. The XP is not affected.
- **path_filtered.** `connectivity.py` promises that *filtered* means "something in the
  middle swallowed it", and its verdict says "dropped in transit". A host that listens
  on a UDP port takes the probe and answers nothing (`host.py:754`): an open UDP port
  is reported as filtered on a path that loses nothing.

Remarks that no run is about:

- `engine.run` blames the hop limit on "a switching loop" (`sim/core/engine.py:141`).
  On a LAN larger than `Roomy` allows there need not be one: with `ping -n 10` between
  two hosts at the ends of a line of 25 switches, EthernetLan reaches 500 hops in the
  ninth request, each request and reply crossing 26 cables, and reports a storm.
- A host that is cabled to another port can be out of reach although it is connected and
  nothing loops. Switches forward to the port they learned, cable or not (`switch.py:75`),
  nothing ages their entries, and `connect` and `removeLink` (`topologyStore.ts:163`)
  leave them in place. Whoever has resolved the host still sends to its old port, and
  every ping is lost, until a frame of the host itself passes that switch or
  `clear mac-address-table` is run. The same holds of entries learned in a loop after
  it is broken. The repository's README lists that ARP and DNS entries never expire and
  says nothing of MAC tables. `PingTellsTruth` states that this is the one exception.
- "The document *is* the save file" (`docs/ARCHITECTURE.md`), but `toExportDocument`
  drops the lease tables and keeps leased addresses. After a load, the server may lease
  an address that is in use: `OneAtATime` excludes files for this reason.
- `MAX_CNAME_DEPTH` (`sim/dns/records.py:16`) counts names, not aliases: a record behind
  exactly eight CNAMEs is refused as too deep, and so is a loop of exactly eight names
  that a ninth turn would have told. A lookup that fails never evicts what was cached.
- `fe/lib/devices.ts` says that the counter keeps ids and MACs unique. A page loaded when
  the clock is below an old counter starts under the numbers in use, and missions bring
  ids and MACs of their own (`lnk-0`, `dev-1`, `02:00:5E:00:03:01`): two missions share
  `lnk-0`, so a trace that still plays when the second is started is drawn on a cable it
  never crossed. `NothingTwice` and `DrawnWhereItCrossed` state what holds otherwise.
- Play after a pause in the middle of the last event starts the trace over
  (`fe/stores/simulationStore.ts:135`), since the cursor alone decides what the end is.
- The event log selects the device of an event without looking whether it still exists.

## 8. Not modelled

The VPN gateway: its tunnel carries packets within packets, and it keeps no state
between two frames that an order of events could spoil. The bounded scrollback of the
terminal, whose one shared variable, `running`, is in TopologySync. RoutedPath leaves
out broadcast destinations, duplicate addresses, equally long routes over duplicate
subnets, interfaces and cables that are down, stale ARP entries, probes to the ports
of DNS, DHCP and VPN, and the hit counters of a firewall. Left out for good: the
routes and wire formats of the API (no logic), parsing and wording of commands, the
text of validation messages, and rendering. Abstracted within the models: the netmask,
gateway and DNS server of a lease; transaction ids, which the code copies and never
compares; the event and packet traces, which no handler reads.
