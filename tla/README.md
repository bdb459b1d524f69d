# nuords-proxy in TLA+

nuords-proxy is a TCP load balancer: it accepts connections on its listeners,
chooses a server for the source of each one, connects to it and relays bytes in
both directions. This directory models the proxy in TLA+, checks the models
with TLC and proves their main properties with TLAPS. Source lines are those of
`src/src/nrdpx_server.cpp` unless another file is named.

## 1. Inventory

### Threads

| Thread | Code | What it does |
|---|---|---|
| main | `nrdpx_main_proc` 654-887 | select loop: accepts, connect errors and failover, relaying. Owns channels, routes, cache, counters. |
| control | `nrdnb_client_t::control_t::main` (nrdnb_client.cpp 46-73) | every 250 ms: `check_svrs` on every second turn, the timer event once a second; runs `nrdpx_info_callback`, which checks servers |
| tracker | `nrdnb_client_t::main` (nrdnb_client.cpp 88-198) | receives the servers' UDP info datagrams, runs the same callback |
| signals | `nrdpx_signal_handler` 2198-2226 | termination, and SIGALRM to abort a status check or a shutdown that takes too long |

Callbacks run one at a time, under the callback lock of `raise_event`. The
server objects (`active`, `num_faults`, `max_slots`, `port`, `num_slots`) are
shared by the main thread and the callbacks without any lock.

### Components

| Component | State | Operations | What makes it correct | Module |
|---|---|---|---|---|
| Routing and failover (72-228, 342-435, 721-763, 947-1020, 1377-1555) | channels, heap of routes, cache, slot and fault counters | accept, connect error, connected, close; cache find, add, remove; channel create and delete | no dangling pointer, one owner per route, exact counters, sessions of a host kept together, limits, failover moves on and settles | `Routing` |
| Status and info callback (1621-1828) | check mode, `first_check`, next check and info times, server info | timer event, info, here and lost events | a lost server comes back, checks are periodic, limits follow the server | `Monitor`, composed with the main thread in `Proxy` |
| Event loop (437-490, 654-887) | descriptor sets, descriptor table, errno, connect time, index of the pass | select, accept, one pass over the channels | descriptors exact, each channel handled once a pass, no blocking read that select did not announce, connects settle | `EventLoop` |
| Data relay (255-296 of nrdpx_server.h, 765-872) | two buffers per channel | read and write on either side | each direction is a byte stream: in order, once, without gaps | `Relay`, which implements `Stream` |
| Server checker (1557-1619) | check socket, process alarm | check, abort | a check ends, its end does not depend on the termination | `Tracker` (calls, socket, alarm), `Monitor` (its result) |
| Info tracker (nrdnb_client.cpp) | list of servers with state, UDP socket | receive, restart, check the list, request info | the tracker listens again, the list forgets lost servers | `Tracker` |
| Shutdown and signals (2115-2226; xtl_thread.h 568-740) | terminated flag, alarm, threads | terminate, exit, wait for threads | nothing is used after it is freed, shutdown ends | `Tracker` |
| Locks and threads (xtl_thread.h; nrdnb_client.cpp 200-260, 376-388) | callback lock, list lock, section of the tracker | lock, unlock, create, terminate, wait | no deadlock | `Threads`, `Tracker` |
| Server selection (898-945, 947-1020, 1416-1463) | vector of candidates, best so far | find a client group, collect candidates, compare scores | what is chosen could be chosen, order of balancers and of redundant servers, scores | `Selection`; as one step in `Routing` |
| Address matching (xtl_inet.h 396-471) | - | parse a CIDR, match an address | agrees with the prefix definition | `Cidr` |
| Socket buffers (nrdpx_socket.cpp 218-360, 230-351) | sizes of the sockets and of the channel's buffers | adjust | buffers never shrink, fit the sockets, settle | `Buffers` |
| Configuration (1022-1375; nrdpx_config.cpp) | sections and items, then the objects | parse, load | what the file means, within the ranges the rest relies on | `Config` |
| Containers (xtl_vector.h, ...) | - | vector, hash map, string | - | sets, functions and sequences of the other modules |
| Daemon, pid file, log, command line | - | - | pure I/O | not modelled |
| `xtl_route.h` | - | - | commented out | not modelled |

Interactions: the event loop calls routing when a listener is ready or a
connect failed; routing reads the status the callback thread writes, and
writes it itself when faults switch a server off; the timer event reads
routing's slot counts; the callback sends info requests through the tracker,
whose answers come back as events; the signal handler interrupts all of them.

Hard behaviours: route objects with two kinds of owner and five places that
delete them; a failover in which two channels of one source coexist; counters
kept redundantly; unlocked sharing between main and callback threads; errno and
descriptor sets that are stale when used; alarms and signals; two locks taken
in both orders. `PROJECT.json` lists them line by line under `hazards`.

## 2. Modules

| Module | Extends | Models | Proofs |
|---|---|---|---|
| `Routing` | - | channels, routes, cache, counters, failover | `RoutingProofs` |
| `Monitor` | - | the callback: timers, checks, events | `MonitorProofs` |
| `Proxy` | `Routing`, an instance of `Monitor` | main thread and callback on the servers they share | `ProxyProofs` |
| `Selection` | an instance of `Routing` | the loops that choose a client group and a server, and the score | `SelectionProofs` |
| `Stream` | - | abstract: what a byte stream through the proxy promises | - |
| `Relay` | an instance of `Stream` per direction | the bytes and buffers of the channels | `RelayProofs` |
| `EventLoop` | `Relay` | the main thread, one system call at a time | `EventLoopProofs` |
| `Threads` | - | mutexes and thread objects of the library | - |
| `Tracker` | `Threads` | the three threads from start to exit: tracker, control, main, signals | `TrackerProofs` |
| `Cidr` | - | ranges of addresses | - |
| `Config` | `Cidr` | the file's parser and `nrdpx_load_config` | - |
| `Buffers` | - | sizes of sockets and buffers | - |
| `Setup` | `Config`, `Buffers` | from the file to the first connection | `SetupProofs` |

`MCRouting`, `MCMonitor`, `MCProxy`, `MCSelection`, `MCEventLoop`, `MCTracker` and
`MCSetup` give the constants for TLC. Abstract specifications are `Stream` for
`Relay` and so for `EventLoop`, `Routing` and `Monitor` for `Proxy`, and the
choice of `Routing` for `Selection`.

`Setup` establishes what the others take for granted: that timeouts, fault
limits and buffer sizes are in their ranges (`TypeOK`), and which client groups
an address belongs to.

What remains of the plan, in this order: what a selection under interference allows as a
step of `Routing`; the listeners that the termination closes.

## 3. Routing

### How the state corresponds to the code

| Variable | Code |
|---|---|
| `active[s]`, `max_slots[s]`, `num_slots[s]`, `num_faults[s]` | `NRDNBS_ACTIVE` in `info.svc.stat` and the members of `nrdpx_server_t` |
| `client_slots[k]` | `num_slots` of `nrdpx_client_t` |
| `route` | the `nrdpx_route_t` objects on the heap: `DOMAIN route` is what has been allocated and not deleted |
| `cache[h]` | `nrdpx_cache_t::routes` |
| `chan` | the `nrdpx_channel_t` objects; a channel's `connected` flag |
| `sweep` | how far the clock is from `chktime`; `Never` when the uninitialised member holds a time far in the future |
| `main` | the program counter of the main thread: in the loop, in `nrdpx_channel_create` before or after the route is known, or about to delete the channel that failed |

`route[r].idle` is the age of `act_time`. It and `sweep` saturate one past the
value they are compared with, which keeps every comparison of the code and
makes time finite. A route's age is only read when no channel is on it, so it
does not grow otherwise.

### How the actions correspond to the code

| Action | Code |
|---|---|
| `Accept` | a listener accepted a connection (698-714) |
| `ConnectError` | timeout or error of a connecting channel: fault count, deactivation, failover (721-758) |
| `SetConnected` | `set_connected` (342-351) |
| `Close` | a fatal read or write error, or end of file (765-872), with `~nrdpx_channel_t` (208-228) |
| `RouteCached`, `RouteFresh`, `RouteNone`, `PeerGone` | `nrdpx_channel_create` up to the choice of a route (1397-1483), with `cache.find`, `cache.remove` and `nrdpx_select_server` |
| `ConnectStarted`, `ConnectRefused` | the rest of it (1485-1555): connecting, the channel's constructor, `cache.add`, and the error path |
| `DropFailed` | the failed channel is deleted (760-762) |
| `StatusChange` | everything the callback thread may do to a server that routing reads |
| `Tick` | one second |

`nrdpx_channel_create` is split in two where the callback thread can change a
server between its selection and the connection. `RouteFresh` and `RouteNone`
take a parameter `busy`: the servers whose user count, which other programs
drive, is at its limit at this moment. Among several preferred servers any may
be chosen: the score of `nrdpx_select_server` is in `Selection` (below).

The reset of `num_faults` by a deactivation in the callback thread races with
the increment in the main thread; `Deactivate` keeps or resets it.

### What is checked

| Run | Configuration | Properties |
|---|---|---|
| `routing` | 2 hosts, 2 client groups (both match `h1`), 2 balancers, 2 servers (one redundant, limits 1 and 2), 3 channels, 4 routes, `max_faults` 2, cache on | `TypeOK`, `NoDangling`, `SlotsExact`, `OneOwner`, `RouteOfHost`, `Pinned`, `JoinsOpenSession`, `FailoverMovesOn`, `OnlyCachedExceeds` |
| `failover` | 1 host, 1 group, 2 servers, 3 channels, 3 routes | `FailoverSettles` |
| `faulty` | as `failover`, no callback thread (`QuietSpec`) | `FaultyDisabled`, violated |

* `NoDangling`, `OneOwner`, `RouteOfHost` are about the ownership of routes: the
  cache owns cached routes, a channel or a running `nrdpx_channel_create` any
  other.
* `SlotsExact` says that the counters are the numbers of channels. `xtl::max(0, ...)`
  in the destructor would hide a counter that drifts; none does.
* `Pinned`, `JoinsOpenSession`: sessions of a host stay together. A second
  channel opened before the first one is cached gets an uncached route of its
  own (`cache.add` refuses duplicates); the properties hold for those on the
  cached one.
* `FailoverMovesOn`, `FailoverSettles`: a failover goes to another server and the
  chain of failovers ends.
* `OnlyCachedExceeds`: the limits bind every route that was not in the cache, even
  though the failed channel is still counted while its replacement is created
  and the callback thread runs between the test and the connection.
  With the cache off the limits hold outright (theorem `LimitsWithoutCache`,
  section 9).

Two statements of `src/doc/CONFIG.md` do not hold of the code, both because a cached
route is followed without a look at its server (1409-1416):

* "The maximum number of connections" of a server (line 148): two connections of
  one host put two channels on a server with `max_slots` 1. That is the exception
  in `OnlyCachedExceeds`.
* Run `faulty`: "A faulty server will be disabled till the next check" (line 71). A
  server switched off by its faults still gets the connections of the hosts
  whose cached route leads to it: the lookup does not test `active`, and the
  failover's `cache.remove` does nothing while the failed channel is on the
  route. A failover in which no other server is found ends with the entry in
  the cache.

### Bounds

`Chans` and `Routes` bound the heap; one channel is kept for a failover (`Room`).
Three channels are the fewest with two open channels of one host and a
failover; with four routes a new route is never refused for want of an address
while three channels and the cache hold the others. Two servers give
failover, redundancy and a full server; overlapping groups give overflow from
one group to the next. `max_faults` 2 separates the first fault from the one that
switches a server off. A cache timeout and a sweep period of one tick suffice,
as only their order with the idle times matters. Channels and routes are
symmetric in the safety runs; the liveness run uses no symmetry.

### Fairness

`WF_vars(Proceed)`: the main thread, once in `nrdpx_channel_create`, goes on; it
takes no lock there and its sockets do not block. Nothing is assumed of
arrivals, connection results, checks or the clock.

### The selection in detail

`Selection` has the loops of `nrdpx_channel_create` (1416-1463) and
`nrdpx_select_server` (947-1020), one step for each read of a server's status, since
there is no lock: the tests of 1452-1454 and of 966-973 read `active`, the limit of
slots, the user count and `cmax` one after another, and `nrdpx_server_user_limit`
(939) may read `cmax` twice. `pick` is the position of the main thread: the balancer,
its client group, the vector of candidates, `redt` (`round`), the index, the best
server and its score; `look` is what it has read of the server it looks at. `Write`
is the callback thread: it changes one field of a server at a time, so that a
record half copied (line 1725) and a deactivation half done (913-914) are covered as
well. Counts of channels are the main
thread's own and do not change. A score is an exact fraction; the
doubles of the code order fractions of these sizes alike. Every filling of
servers and client groups, and every failed server, is an initial state.

| Action | Code |
|---|---|
| `FindClient` | the loop over the client groups of a balancer (1425-1447) |
| `TestActive`, `TestSlots`, `ReadUsers`, `ReadCmax`, `ReadAgain` (with `Collect`), `Collected` | the loop over its servers (1449-1457) |
| `ReadSlots`, `ReadUsers`, `ReadCmax`, `ReadAgain` (with `Recheck`), `ReadMem`, `Compare`, `Compared` | the loops of `nrdpx_select_server` (956-1020) |
| `GiveUp` | no balancer is left |

* `WasEligible` and `InOrder` say what is left of the choice when the
  callback interferes. A server that is chosen need not have been eligible at any
  time: with as many users as it may have, it is read as active, then switched off,
  which sets its user count to 0 (913-914), then read as having room; and the second
  test repeats the limits, not that the server is active. What holds is that it passed
  each test at some time of this selection (`MayPass`), that it is not the failed one and
  has room under its configured limit, and that no balancer or non-redundant server was
  passed over unless a test of it failed at some time (`MayFail`): one the callback
  does not touch is not missed. `seen` is the history of the values of each field.
  The user count and its limit may be of two times, and a limit that is taken
  back between the two reads of line 939 is read as 0.
* `ChoosesBest`: if no server was written since the start (`quiet`), the loops act as
  `RouteFresh` and `RouteNone` of `Routing` (an instance of it whose history is one
  call), and of the servers that step may take the score finds one that no other
  beats in a figure without losing in another (`NotDominated`, which does not
  mention the score). So `Routing` is exact for calls that no write of the
  callback falls into; for the others, its properties about what is selected
  (`OnlyCachedExceeds`, `FailoverMovesOn`) rest on what `WasEligible` says of limits
  and of the failed server.
* Run `stale`, violated: "The listed servers will receive connections from the
  listed client groups" (CONFIG.md 202). The vector of candidates is declared
  outside of the loop over the balancers and never cleared. When the last candidate
  of a balancer reaches its user limit between the two tests, and has a free slot
  again a moment later, it is chosen for the next balancer.

Another remark of the code does not hold either: "It should block listed subnets"
(nrdpx_server.cpp 1194, of a client group without slots). `Admitting` skips the group
like a full one, and the next group with the source admits it.

Run `selection` (two balancers, three servers, two client groups) starts from three
families of states. In `Limits` and `Switches` the callback writes (`Written`): all that
limits one server while another one is switched on and off, or two servers being
switched and filled. No server has figures there, user counts and their limits
are at most 2 (`MaxUsers`), and one channel for each server and group is enough for
every order of tests and writes; a selection sees two fields written (`FewWritten`), each
as often as may be: the two of a deactivation are such a pair. In
`Measured` nothing is written, and two servers have all combinations of limits and
channels up to 2 and of free memory and CPU of 0, 100 or none, with either
balancer and its method. Run `stale` has two balancers with a server of their own each.
Both set `CHECK_DEADLOCK FALSE`: a selection ends.

## 4. Monitor

`nrdpx_info_callback` (1621-1828) runs on the control thread for the timer event
and on the tracker thread for the servers' datagrams, one at a time under the
callback lock of `raise_event`. It goes through the list of servers; a turn of
`Monitor` is what it does for one of them. A status check blocks it for up to
`conn_timeout` while the main thread goes on changing the servers, so a turn that
checks is cut at the check.

### State and actions

| Variable | Code |
|---|---|
| `active`, `max_slots`, `num_faults`, `num_slots` | as in `Routing`: the members the two threads share |
| `check_mode[s]`, `first_check[s]` | the members of `nrdpx_server_t` |
| `stat_due[s]`, `info_due[s]` | `now > stat_time`, `now > info_time`: has the time come |
| `up[s]` | does the service of `s` accept a connection within `conn_timeout` |
| `callback` | idle, or what the running callback is doing: the servers still to visit (`todo`), the one whose turn it is (`svr`), the info it brings (`item`) |

| Action | Code |
|---|---|
| `TimerEvent`, `InfoEvent` | `raise_event` gets the lock and calls back; the info of a machine is for every server on it (`is_same_host`, 1682). An item of another type runs the timer branch (1672) |
| `BeginCheck`, `EndCheck` | a check is due and needed (1775-1785); its outcome (1791-1800) |
| `SkipCheck` | no check is due, or one that is not needed and waits another period |
| `Ask` | the end of a turn: `first_check`, and the info request (1812-1821) |
| `Apply` | a turn of an info event: ignored (1684), degraded (1690-1693), taken over (1698-1754), lost (1755-1758) |
| `StatDue`, `InfoDue` | the clock passes `stat_time` or `info_time` |
| `UpOrDown` | the server's service starts or stops answering |
| `Fault`, `Connected`, `Slots` | what the main thread does to a server meanwhile |

The servers are visited in any order, which includes that of the list. The time
stamps are only compared with the clock, so that being due is all of them that
matters. The synchronized port and the memory and CPU figures are left out: only
the score of a server reads them.

### What is checked

Run `monitor`: two servers on one machine, one with check mode 1 (connect only),
one with mode 3 (all), limits 1 and 2, `max_faults` 2, info that is here or
lost, active or not, with or without a limit, of either protocol version.

* `ComesBack`: a server that is checked and keeps accepting connections is active
  again and again, whatever was reported of it and however its connections
  failed. It needs that an inactive server is always checked (1785), that a check
  that was not needed is made up for, and that the degraded mode still checks.
* `StaysOff`: a server that keeps refusing connections and has no channels is
  switched off for good. The one exception (`SaidActive`) is info that is taken over
  for this server and says active: it may be of any service on its machine, as info is
  matched by host only (1682). Info that is ignored, of another protocol version or
  machine, or that says inactive or lost does not keep a dead server on. An
  active server with channels is not checked; without the condition on channels
  the property would not hold.
* `InfoRenewed`: a server that stays active and in an info mode never waits for
  ever for a request, whoever's info came in between.

### Bounds and fairness

Two servers on one machine are the fewest with news of one that reaches the
other. `SlotBound` 1 separates free from busy. Time is unbounded but abstract.

`WF_vars(Callback)`: a callback that runs ends, as a check is cut off by its
alarm, or at the latest by the system's own limit on connecting. This leaves out the
deadlock that `Tracker` finds (section 7): a callback that sends a request while the
tracker reports a failed socket (nrdnb_client.cpp 214) never ends, and after it no
server is checked any more. `SF_vars(TimerEvent)`, strong because the timer event competes for the
callback lock with any number of info events, which the lock serves sooner or
later. `WF` of `StatDue` and `InfoDue`: time passes. Nothing is assumed of info
events, of the main thread or of the servers.

## 5. Proxy

`Proxy` extends `Routing`, instantiates `Monitor` on the same `active`,
`max_slots`, `num_faults` and `num_slots`, and lets both run: a step is one of the
main thread (`MainStep`), of the callback and what it waits for (`CallbackStep`)
or of the clock of the cache (`ClockStep`). Each module describes the other as an
environment; the composition shows that the environments are right:

* `ImplementsRouting`: the proxy implements `Routing`. A callback step is a
  `StatusChange` of the server whose turn it is, or a stutter. In particular
  the limit a server reports stays between 1 and the limit it lowers.
* `ImplementsMonitor`: the proxy implements `Monitor`, with its fairness.
  `ConnectError` is its `Fault`, `SetConnected` its `Connected`; `Close`,
  `DropFailed` and `ConnectStarted` are its `Slots`, any other step of the main
  thread a stutter. The counters stay within `SlotBound` only because they are
  exact (`SlotsExact`).

Run `proxy` checks both, fairness included, with one server in check mode 3, two
channels and two routes: each kind of step of one thread occurs in each state of
the other one.

## 6. Event loop and relay

`Relay` is the data of the channels: for each connection and each side, what the
side has said, what of it is still on the wire, in the channel's buffer, and
what the other side has been given. `EventLoop` extends it with the main
thread's loop. A step of the main thread is one system call with the
assignments that depend on it, so that a peer may speak, close, reset, or a
connect may end, between any two.

### State and actions

| Variable | Code |
|---|---|
| `buf[k][s]` | `inputs.source`, `inputs.target` of the channel of connection `k` |
| `connected[k]` | the member of `nrdpx_channel_t` |
| `chans`, `i`, `step` | `__proxy->channels`, the index of the loop at 717, and the part of the turn (766, 790, 814, 842) that comes next |
| `owner` | the process's descriptor table: accept and socket take the lowest free number |
| `rset`, `wset`, `rc` | the two `fd_set`s after select, and whether it returned sockets, a timeout or EINTR |
| `errno` | is the error left by the last failed call one that `is_error_fatal` takes for fatal |
| `late[k]` | `conn_time + conn_timeout < now` |
| `up`, `gone`, `room`, `backlog`, `wire` | the network: established targets, sides that closed or reset, how much the system would take or holds |

| Action | Code |
|---|---|
| `SelectReady`, `SelectIdle`, `SelectInterrupted` | `fill_fds` and select (668-692) |
| `Accept`, `AcceptNone` | 698-713, with `nrdpx_channel_create` as far as it uses descriptors (`Admit`, `Refuse`) |
| `Failover`, `FailoverRefused`, `Serve` | the look at an unfinished connect (721-764) |
| `ReadSome`, `ReadEof`, `ReadError`, `ReadNothing` | a recv and what follows from its result (766-812) |
| `WriteSome`, `WriteError`, `WriteNothing` | a send (814-870) |
| `WriteRest`, `RestLeft` | the rest of a send to a source, which goes on as its client reads until all is taken, or returns what was when the client resets (`RestReset`) or a signal comes (`RestInterrupted`) |
| `EndTurn`, `EndPass` | 717, 874-884 |

Sockets are those of Linux: `nrdpx_socket_accept` leaves the source blocking,
listeners and targets do not block. A recv or send that would block is a
disabled step. The step of a send to a source that found a reset after a part was
taken returns that part, and the error only shows in the next call. errno is two-valued, as only `is_error_fatal` reads it: EINTR,
EAGAIN and EWOULDBLOCK are "soft". A successful call leaves it alone, which is
why the code's test of errno after a recv that returned 0 depends on the
past (`ReadEof`). Which server a new target belongs to is `Routing`'s business.

### What is checked

| Run | Configuration | Properties |
|---|---|---|
| `eventloop` | two connections, five descriptors, two targets for one of them, one byte said | `TypeOK`, `DescriptorsExact`, `InTurn`, `WaitsOnlyInterrupted` |
| `streams` | one connection, one byte from the client and two from the server, two targets, buffers of one and two bytes, a window of one | `Streams`, `Responsive`, `ConnectSettles`, `Delivered`, `EofCloses` |
| `interrupted` | as `streams` | `ConnectedEstablished`, violated |

* `DescriptorsExact`, `InTurn`: a failover holds two targets for a moment, deletes
  the current channel and appends another while the loop runs, and a number
  closed in the pass is reused in it. No descriptor is leaked or closed twice,
  and every channel has exactly one turn.
* `WaitsOnlyInterrupted`: stale bits of a reused descriptor never make the main
  thread wait in a recv for a client. A select that was interrupted does: all
  bits are set, the source blocks, and the proxy stands still until this client
  speaks or closes (the handler is installed by `signal`, so that recv is
  restarted after another one).
* `Streams`: the loop implements `Stream` in both directions of each connection.
  Bytes arrive in order, once, without gaps; a stream may be cut at its end when
  a channel is deleted (with bytes in its buffer), and it may lose its beginning
  in a failover, before anything was delivered (`Skip`): the bytes of a client that
  speaks first, read while the first server was still connecting.
* `Responsive`: the loop comes back to select, unless it ends up for good in a recv
  of a source after an interrupted select (`WaitsInRecv`), or in a send to a source
  whose client does not read (`WaitsInSend`): the code sends to a blocking socket
  (819), and one client that stops reading keeps all channels waiting until it
  reads again, resets, or a signal ends the send. No fairness of peers hides this.
* `ConnectSettles`, `Delivered`, `EofCloses` hold as long as the loop does not end up
  in one of the two (`Unblocked`): each connection gets a connected channel or
  ends; what was read is written or its connection ends, if the peer that is to get
  it keeps reading (`Reads`); a client that closes is closed, if the server
  keeps reading and errno is not left soft.

One statement of `src/doc/CONFIG.md` does not hold: `interrupted`, "The connection
timeout is a time within which the connection to the server must be
established" (line 63). After an interrupted select the target of a connecting
channel is read, `set_connected` is called before recv is (790-792), and from
then on neither conn_timeout nor the failover applies to it.

### Bounds and fairness

Two connections are the fewest with one that is deleted or appended next to
another; five descriptors are enough for both, so that the failover finds
one only after the other connection has ended, or never (`FailoverRefused`).
`MaxSaid` and `MaxTries` bound the peers and the failovers; with a `Window` of
one and buffers of one and two bytes every partial read and write occurs with
one or two bytes. `CHECK_DEADLOCK FALSE`: bounded peers may leave the main
thread in a recv for ever.

`WF_vars(MainNext)`: the main thread runs whenever its call does not wait. Connects
end (`WF` of `Establish`), and conn_timeout passes (`SF` of `Tick`, which is only
looked at after a select). Nothing is assumed of peers that speak, read or leave, nor of
signals; that a peer reads is a premise of the two properties that need it (`Reads`).

## 7. Threads, tracker, checker and shutdown

`Threads` has the recursive mutexes and thread objects of `xtl_thread.h`. A
critical section in which nothing waits is one step, enabled when the mutex is
free for its thread; three mutexes are held over a wait and are modelled: the
callback lock (`raise_event`), the lock of the list of servers, and the section
of the tracker's thread object.

`Tracker` runs the three threads from the start of main to the end of the
process. `pc[t]` names the place of each thread; the other variables are the
tracker's socket and list, the checker's socket, the process's one alarm, the
signal that is being handled, `__terminated`, and whether `__proxy` exists. The
info thread follows `nrdnb_client_t::main` with `create_sock`; the control thread
`control_t::main` with `check_svrs`, `raise_event` and, for each of the servers,
what `nrdpx_info_callback` calls: a check with its alarm, resolver and connect,
and the info request. The tracker may run the same (`InfoTimer`): a listed message of
an item type other than NRDNBT_INFO clears `item` (1672), and the timer branch (1770-1824)
runs on its thread, so that the actions of the callback have the thread as a parameter. main starts both, runs, and stops them after a signal
(`nrdpx_exit_proc`). What the callback does to the servers is in `Monitor`.

Time is in units of 15 seconds and passes when no thread can go on. `wait_for`
counts an unsigned number down by 25: 60000 is four units, the 60 of
`stop_info_tracker` wraps below zero and never ends (`WaitTicks`).

Run `tracker` (two servers to check, one to hear of, `conn_timeout` two or five units:
30 seconds, the default, or 75):

* `Ends`: after SIGTERM the process ends, gracefully or by the alarm, although a
  status check replaces the alarm of the termination by its own, the
  wait for the tracker has no end, and a deadlock is possible. `SIGALRM` is handled by
  main whatever it waits for, and a callback begins no check, and so sets no
  other alarm, once `__terminated` is set.
* `OnlyControlOutlives`: main gives up on the control thread after a minute
  (`StopTime`) and deletes `__proxy` (2119). The tracker never runs the callback then,
  as the wait for it has no end. The control thread may, on servers that are deleted,
  but only if `conn_timeout` is not below that minute (`InTime`), and it begins no check
  then. With `conn_timeout` below it the alarm of the check, which replaced the 15
  seconds of the termination (2166), has ended the process before. The code allows
  10 to 900 seconds (CONFIG.md 60), and with 75 the run reaches the case: a use of a
  deleted object, listed in `PROJECT.json` under findings. What the thread
  does on the deleted servers is undefined; the model has it go on.
* `OnlyReportDeadlocks`: the two orders of the section and the callback lock
  collide only when the tracker reports, with its section held, that it could not
  create its socket, while the callback sends an info request. That deadlock
  occurs in the model; the condition of the properties on `Stuck` names it.
* `HearsAgain`: a bad datagram is taken for a failure of the socket, but the
  tracker listens again after its reconnect time. `ForgetsLost`: a lost server
  leaves the list or comes back. IAMLOST of a server that is not listed appends
  it as here (nrdnb_client.cpp 175), which `Heard` keeps; this is no lost entry, and what
  the event does to the server is `Monitor`'s (`ComesBack`).

Fairness is strong for each thread: other threads take and free the mutexes
again and again, and time passes between their turns. The resolver and the peer
of a check answer at last (`Network`), by an error if nothing else; sockets can be
created at last. No datagram needs to come. `CHECK_DEADLOCK FALSE`: the process
ends, and may deadlock.

Abstractions: `refresh_svrs` never runs, as main sets the refresh time to 0; the
host of the tracker is the constant any-address, so that resolving it cannot
fail; the sections of `_check_mutex` are single steps; the alarm may come while the
checker resolves, before there is a socket to close, and the connect is then
ended by the system alone; the pauses of a thread (250 ms, reconnect) count as
time that may pass, while main's wait and the alarm are counted; an alarm that is due
together with the end of main's wait comes first, on which `InTime` does not rely. Signals are handled on main, to which Linux delivers
those of the process unless it blocks them.

## 8. Configuration, addresses, buffers

`Config` reads a file as `nrdpx_config_t` does, once for each class of sections:
`ReadLine` is a line of `load_from_file`, `AddSect` merges a section that comes
again, `Lines` drops an item on a last line that has no end. Then one action for
each section: `LoadClient`, `LoadServer`, `LoadBalancer`, in the order of
`nrdpx_load_config`, and main's `Listen`. A line is a header, an item or
something else (`Line`); the text of a value is given by the words and the number that
the code reads out of it (`Value`), names are equal when `stricmp` says so. Words
are never empty, and a value without words is empty; `GetStrings` returns one empty word
for it, as the code does. An empty word has no address (`ConfigAssumption`), and the
section without a name is never found by name (nrdpx_config.cpp 169), which
`Listed` says. `Over` is a set of items written over another one, `Among` a list
without what is not in a set: the two loops that the rest is built from.

`Cidr` has `ParseCidr` and `InCidr`, which shifts words as `is_addr_in_cidr` does; a shift
by n bits is a division by `Pow2[n]`.
`Buffers` has the sizes of the sockets of a channel, which the kernel doubles and
cuts (`Store`), and of the channel's own buffers: on accept, on each failover,
and when it becomes connected. `Setup` composes them.

Run `setup`: some nine hundred files, with every kind of section in every
combination, first, last, split and repeated; each option at, inside and beyond
its bounds; and the three modes of buffers.

* `ReadAsWritten`: sections are those of the file, each once, with the last value of
  each key, wherever it stands.
* `LoadedAsMeant`: balancers have exactly the usable clients and servers they
  name; an ignored and deleted object stays in none of them; the file is refused
  exactly when no balancer is left.
* `MatchesSources`: an address is in a range exactly when its first bits are, for
  every length, from none to all and beyond.
* `BuffersFit`, `AlignSettles`: buffers never shrink under their data and hold what the
  sockets do; a source that fails over many times keeps its sizes.
* `TypeOK`: the ranges that the other modules assume, as the code enforces them. That of
  `cache_timeout` is not the one of CONFIG.md 52, "0|10+": the code takes 5 to 9
  as they are and raises 1 to 4, and what is below 0, to 5 (1095).

Bounds: words of two bits instead of 32, which keeps four words of an IPv6
address with lengths before, at and after their borders; the sizes of sockets
take three values around the kernel's limits. `Visited` names the files with
which a client connects, those of the modes: the other options do not touch
buffers. getsockopt is assumed to succeed.

Worth knowing of the code: an empty `clients=` or `servers=` is one empty word, so
that the balancer is dropped instead of getting all; with the buffer modes
align and system the buffers may exceed `max_buffer`. An address is split after the
last "]:" or else at its last colon (xtl_inet.h 203-214), so that one in brackets
without a port is split inside of them: "[::]" is host "[:" with port 0, and
"[fec0::1]", an example of ADDRESS.md (29), host "[fec0:" with port 1. ADDRESS.md 8
says that "a default port will be used". A server with "[::]" is ignored, which the run
has (`AddrText`, `ServerParts`); the listeners of a file that names none are not parsed
(1051-1052, `DefaultListeners`).

## 9. Proofs

`RoutingProofs` proves for all constants that satisfy `RoutingAssumption` and
`BalancersAssumption` (finitely many channel addresses, None being no object,
the ranges that `nrdpx_load_config` enforces):

    Spec => []TypeOK       Spec => []NoDangling     Spec => []SlotsExact
    Spec => []OneOwner     Spec => []RouteOfHost    Spec => Pinned
    Spec => JoinsOpenSession                        Spec => FailoverMovesOn
    Spec => OnlyCachedExceeds
    CacheTimeout = 0:  Spec => [](ServerLimit /\ ClientLimit)

The inductive invariant is

    IInv == TypeOK /\ NoDangling /\ SlotsExact /\ OneOwner /\ RouteOfHost /\ PhaseOK

None of its parts is inductive alone. Deleting an unused cached route leaves no
dangling channel only because a route's counter is exact (`SlotsExact`); the
counter of a deleted route is forgotten only because nobody else owns it
(`OneOwner`); the cache entry that an eviction removes is the only one of its
route (`OneOwner`), and the entry of a host is the route of its channels
(`RouteOfHost`), so that a failed connect, which removes the entry of its host,
removes the right route; `PhaseOK` ties the main thread's pointers to its
program counter.

The proof has one lemma per action. Three carry the weight: `EvictUnused` (a
step that deletes unused routes from cache and heap, and may allocate one;
the lookup steps and `ConnectRefused` are instances of it), `ReleaseKeeps` (the
channel destructor; used by `Close` and `DropFailed`) and `ConnectStartedKeeps`. The action
properties follow from the invariant and from `LookupKeeps`, which says that
the lookup deletes only unused routes and never the one it returns. For the limits
the invariant `ConnectFits` is added: a new route that is being connected has a
free slot of its server and of its client group, since only the main thread takes
slots and `max_slots` never exceeds the configured limit. Without the cache no
route is a cached one, and the limits themselves are inductive.

`MonitorProofs` proves `Spec => []TypeOK` from `MonitorAssumption`; the type
invariant, which says that limits stay between 1 and the configured one and that
the server being checked is in the callback's list, is inductive.

`ProxyProofs` proves, from the assumptions of `Routing` and `ProxyAssumption`,

    ProxySpec => ImplementsRouting          ProxySpec => ImplementsMonitor
    ProxySpec => [](NoDangling /\ SlotsExact /\ OneOwner)

Its invariant is `ProxyInv == IInv /\ CallbackOK`: `CallbackOK` puts the server of
a turn among the configured ones, so that its change is a `StatusChange`, and
`IInv` gives that its limit is at least 1 and, for the other refinement, that
slot counts are numbers of channels and so bounded. `RoutingStep` and
`MonitorStep` map each step; the invariant is kept because the mapped step keeps
`IInv` (`NextIInv` of `RoutingProofs`). The fairness conditions of the two
abstract specifications are conjuncts of `ProxySpec`. The last theorem is then the
one of `RoutingProofs`, carried over.

`RelayProofs` proves, for any connections, bytes and sizes with
`RelayAssumption`,

    RelaySpec => []RelayOK                  RelaySpec => Streams

The invariant (its `IInv`) says where every byte is: what a side has said is the
bytes that are lost, then those the other side got, then the buffer, then the
wire (`Where`), and nothing was lost if something was got. Bounds of buffers or
the mapping to `Stream` alone are not inductive: `Deliver` needs that what is in
the buffer continues what was got. Each step of the relay then maps to `Put`,
`Deliver`, `Skip` or a stutter of each of the streams.

`EventLoopProofs` proves, with `EventLoopAssumption` and `RelayAssumption`,

    Spec => []TypeOK        Spec => []InTurn        Spec => Streams
    Spec => []DescriptorsExact                      Spec => []WaitsOnlyInterrupted

and that each step of the loop is one of the relay or leaves it alone
(`EventLoopRelays`), so that `RelayProofs` carries over. The invariant `LInv` is
that of the relay, the types, the position of the main thread (in the middle of
a turn its index is a channel's) and `InTurn`, which is shown by what `RemoveAt`
and `Append` do to the channels before and after the index. The other two need more,
`DInv == LInv /\ Exact /\ Announced`. `Exact` says that no two channels are of one
connection, that the descriptor table holds the two descriptors of each channel and
nothing else (`Table`, of the set of `Triples` of the channels), and that a connection
in the backlog is not accepted yet: a descriptor that is closed and given to the
next connection has then one owner at any time. `Announced` says that what select has
announced is still there when its turn comes: a descriptor that is in the set of a
pass, and whose channel's source was not looked at yet in this pass (`Unread`), still
has bytes or the end of the stream, since only that channel takes them, and no free
descriptor is in the set when a connection is accepted, so that a new channel
does not find itself announced. So a read waits only after a select that a signal
has interrupted, whose sets are those of before.

`TrackerProofs` proves, with `TrackerAssumption`,

    Spec => []TypeOK                  Spec => []OnlyReportDeadlocks
    TimesOK: Spec => []OnlyControlOutlives

The first two follow from `TInv`, which says for each mutex who may be seen
holding it: the section of the tracker only the tracker that reports, the other
two only the control thread. A circle of waiting threads then contains the
tracker in its report. The third is for any `conn_timeout`. `TimesOK` is what the code
gives of the waits: that for the control thread is not zero, that for the tracker has no
end. The inductive invariant `ExitInv` adds that an alarm is set from the termination to
the end of the process and is at most the larger of `conn_timeout` and the 15 seconds of
a graceful exit (`AlarmSet`); that, `InTime`, less of it is left than of main's wait
(`AlarmFirst`: a check that is about to set the alarm does so before time passes); and
that what main has stopped has ended, the control thread only if `InTime`, and is in
no case about to set an alarm (`Stopped`). So with `conn_timeout` below the minute
main's wait never runs out.

`SelectionProofs` proves, with `SelectionAssumption` and `MappingAssumption`,

    Spec => []TypeOK        Spec => []WasEligible        Spec => []InOrder
    Spec => ChoosesBest

The invariant `SInv` adds what the loops know: present values are part of the
history (`Recorded`); what was read of the server being looked at is part of it too, and
has passed the tests made so far (`LookOK`); candidates passed each test
(`CandidatesOK`); a server of the balancer that was looked at is a candidate or missed,
that is, failed a test at some time (`CollectedOK`); and so is a candidate that was compared while
no server was found, in the round it belongs to (`ComparedOK`). `InOrder` then
follows when a balancer is left or a redundant server chosen.

`ChoosesBest` holds of the same loops while no server is written. `Undisturbed` adds to
`SInv` that the history is then the present; that the candidates are all of the balancer
being tried, since a candidate of an earlier one would have been chosen; that the
client group is its first admitting one; and that no candidate compared so far in this
round has a higher score than the best (`BestYet`). So what is chosen at the end is
what `RouteFresh` of `Routing` may choose, or no balancer is usable and the step is
`RouteNone`; `busy` are the servers with all the users they may have. That no other server dominates the
chosen one needs the arithmetic of scores: a fraction's denominator is positive, being no
less is transitive (`Transitive`), and an average is greater when one of its two parts
is and the other is not less (`AverageKeepsOrder`), whatever the denominators: that is why
averaging a weight, two percentages and a count, which are on different scales, still never
ranks a dominated server first (`DominatingScores`).

`SetupProofs` proves, for every file, every width of a word, every table of names and every
limit of the kernel that satisfy `CidrAssumption`, `ConfigAssumption`, `BuffersAssumption`
and `SetupAssumption`,

    Spec => []TypeOK            Spec => []ReadAsWritten     Spec => []LoadedAsMeant
    Spec => []MatchesSources    Spec => BuffersFit          Spec => AlignSettles

of which the first is what the other components assume of their configuration. The
invariant is `Inv == CInv /\ BInv`. `CInv` says that the sections are what the file
says (`Written`); that the objects of a class are those of the usable sections looked at so
far (`Took`), and `data` the names of the same; that balancers have the objects that
are `Meant`; and that a file is refused only for lack of balancers or of a section. `LoadedAsMeant`
alone is not inductive: what a balancer lists depends on `data`, which was written two
phases before. `BInv` says that a channel's buffers have their least size until it is
connected, and that the sockets of an adjusted source have `Settled` sizes, those the
adjustment makes of some size; to adjust such a size again leaves it, but for the cut
that `AlignSettles` names.

Two theorems on operators stand for themselves. `LoadedIs`: what the parser makes of
the lines is `Written`. The parser is a fold over the lines; the proof turns the
fold into a function of the number of lines read, whose value at n + 1 follows from that at n
(`ReadFun`), and takes the first line after which what was read is not what is written:
there is none. This is induction by the least counterexample (`LeastMember`), which
needs no theorem with an operator parameter; `Among` and `Pow2` are treated alike.
`PrefixIsSame`: comparing shifted words is comparing the first bits, since a word
shifted by k is the number of its remaining bits, for every length of a prefix and every
number of words of the family.

Only model-checked: the liveness properties (`FailoverSettles`, `ComesBack`,
`StaysOff`, `InfoRenewed`, `Responsive`, `ConnectSettles`, `Delivered`, `EofCloses`, `Ends`,
`HearsAgain`, `ForgetsLost`), which are beyond the prover. Every other property of a passing
run is a theorem.

## 10. Not modelled

* Routing: the invalid port of a server (an early return like `ConnectRefused`),
  and the log. `Routing` itself takes the selection of a server as one step; what
  the callback can do within it is in `Selection`. Both take the client groups of a
  host as a constant; `Cidr` says which they are.
* Callback: the synchronized port, the memory and CPU figures.
* Event loop: descriptors beyond `FD_SETSIZE`, several listeners, the adaptive
  sleep at the end of a pass (only that a signal may interrupt it), a fatal error
  of select. It is not composed with `Routing`; both describe the same calls of
  `nrdpx_channel_create`.
* Shutdown: the listeners that the handler closes while the main thread fills
  its sets, `nrdpx_fail_proc`, which waits for the termination like `run`, and the pid file.
* Library: the reader-writer lock, semaphore and event, which the program does
  not use; containers; `xtl_route.h`, which is commented out.
* Resolving names (`host_to_addr`), formatting, logging, daemon and command line.
