# Verification of goip-remote-control

TLA+ models of the programs in this repository, the TLC runs that check them on
small instances, and TLAPS proofs for every value of the constants.

The repository holds two programs.  A device (a GoIP gateway behind a NAT) runs
`radmcli`, which keeps connections open to a public server running `radmsrvd`.
When a customer connects to the port the server has opened for the device, the
server joins the customer to a connection that waits there, and the client, on
the first byte, joins it to the local web or telnet server.  Both programs are
single threads that live on `utils/app.c` (a poll loop with a registry of
callbacks) and `utils/timer.c`; `radmsrvd` has a web page on top of `libhttpd`.

## 1. Inventory

Every component is listed, with its files and status, in `PROJECT.json`.

| Component | State it keeps | Operations | Talks to |
|---|---|---|---|
| Main loop and registry (`utils/app.c`) | `pfd_list`, `pfd_call_backs`, `pfd_count`, `pfd_defrag`, `quit_flag` | `register_sock`, `unregister_sock`, `unregister_object`, `pfd_defragment`, `dispatch_sock_events`, `app_run`, `app_quit` | calls back into every other part; `timer_check_timeout` |
| Timers (`utils/timer.c`) | `timer_list`, `pending_list`, `in_check_timeout_lock`, free entries | create, start, stop, destroy, `set_timeout`, `timer_check_timeout` | called by the loop, calls back |
| Server: registration (`radmsrv/radm.c`) | `srv->clients`, `radmconn`, `radmcli`, descriptors, keystreams, timers | accept a device, read its name, take over or create the entry, accept a customer, delete, expire | loop, timers, white list, session, control |
| Server: white list (`radmsrv/ip_list.c`) | `white_list_ip`, `ip_list` with a timer per address | add, check, expire | control, registration |
| Server: session (`radmsrv/fwd.c`) | two buffers, two keystreams, two descriptors | four callbacks, release | loop |
| Server: page and control (`radmsrv/main.c`) | the `radmsrv_ctl` socket pair; a forked child per request | list, delete, set the white list, log an address | registration, white list, libhttpd |
| Server: supervisor (`radmsrv/srvd.c`) | the worker's pid, the options | start, restart, stop | worker |
| Client: registration (`radmcli/radmc.c`) | `radmc` (socket, keystream, timer) per service | connect and register, keep alive, hand over, reconnect, exit | loop, timers, session |
| Client: session (`radmcli/fwd.c`) | as on the server, with sends that block | four callbacks, release | loop, registration's timer |
| Scheduler, event loop (`scheduler.c`, `event.c`, `fdsel.c`) | task lists, priorities, select sets | add, cancel, dispatch | timers |
| HTTP library (`libhttpd/`) | request, response, content tree, access list | accept, read a request, find content, answer | the page |
| Containers, objects, observers (`datalist.c`, `dataset.c`, `dataqueue.c`, `stringlist.c`, `cobject.c`, `observer.c`, `typeinfo.c`) | lists, free lists, slots | insert, remove, copy, emit | the white list's addresses are a `datalist`; the rest is used by no program here |
| Network helpers (`net.c`, `sockaddr.c`, `socks.c`, `stun.c`, `stunlib.c`) | descriptors, a STUN handler | connect, listen, handshakes, message parsing | no program here, except `net.c` |
| Settings, digests, RC4, strings, debugging | - | - | RC4 by both programs |

What is hard in it:

* **Callbacks that edit what is being walked over.**  The registry array is
  edited by callbacks while the dispatch pass walks it, the timer lists while
  the pass over them runs.
* **Ownership that moves.**  A descriptor and its keystream pass from
  `radmconn` to `radmcli` to `fwd`; a device may reconnect, a page may delete
  the entry, a timer may free it, between any two callbacks.
* **Partial sends and back pressure** in both directions of a session.
* **Limits**: descriptors run out (the worker exits by design), a name line
  fills its buffer, an `int` holds the difference of two times.
* **Restarts**: the supervisor starts a worker that ends, and the state of the
  worker is gone.
* **Old pages**: a web request is served by a child with a copy of the state
  and acts through datagrams that arrive later.

What makes each component correct, in one sentence each:

* registry: it is a set of registrations; a reported event is called in its
  pass or its socket was unregistered; the loop always gets back to `poll`;
* timers: a timer goes off at the instant it was last armed for, at most once
  per pass, and never after it was stopped; the loop does not oversleep;
* server: every open descriptor has one owner, every registered callback a live
  object, a device's link goes to one customer whose address is granted;
* session: each direction is a stream, nothing lost, doubled or reordered, and
  what is sent arrives unless the session ends;
* client: whichever way a connection is lost, replaced or handed over, it waits on
  a new one or exits; a handed-over connection belongs to its session alone; a
  send that waits does not hold it up for good;
* client and server together: the connection the server offers for a service is
  the one the client waits on, and once faults cease the device is offered again;
* web server: a connection that was taken is answered or closed, the worker comes
  back, what a page saved is what the worker obeys, and what is saved is what the
  browser sent;
* libraries: a request is read as it was sent, however it is cut into pieces; a
  conversion keeps what it converts; tasks, ready events and slots are run once
  each whatever their callbacks change; a container holds what was put in; a socket
  is given or closed.

The hazards behind these, each at its line, are in `PROJECT.json`.

## 2. Modules

| Module | Models | Built on |
|---|---|---|
| `SockSet` | abstract: a set of registrations and a loop that calls them | |
| `PollLoop` | `utils/app.c` registry and `app_run` | refines `SockSet` |
| `PollLoopProofs`, `TimersProofs`, `RadmServerProofs`, `ForwardProofs`, `RadmClientProofs`, `RemoteAdminProofs`, `WebServerProofs` | theorems about the module each is named after, `ForwardProofs` about `ClientForward` too, `WebServerProofs` about `HttpRequest` | `RemoteAdminProofs` uses those of `RadmServer` and `RadmClient` |
| `LibraryProofs` | theorems about `Scheduler`, `EventLoop`, `Observers`, `Containers`, `Socks`, `Sockets`, `Ports` and `HttpContent` | |
| `Alarms` | abstract: armed timers and a clock | |
| `Timers` | `utils/timer.c` | refines `Alarms` |
| `Broker` | abstract: offers, sessions, grants | |
| `RadmServer` | `radmsrv/radm.c`, `ip_list.c`, control part of `main.c`, restart of `srvd.c` | refines `Broker` |
| `Pipe` | abstract: two streams that end for a reason | |
| `Forward` | `radmsrv/fwd.c` | refines `Pipe` |
| `ClientForward` | `radmcli/fwd.c` | extends `Forward`; refines `Pipe` |
| `Device` | abstract: one link on offer per service, sessions on links that were offered | |
| `RadmClient` | `radmcli/radmc.c` and `main` | refines `Device` |
| `RemoteAdmin` | a device, the server and the network between them | composes `RadmServer` and `RadmClient` |
| `WebServer` | `radmsrv/main.c` page and forks, `srvd.c` supervisor, `libhttpd` accept | |
| `HttpRequest` | `libhttpd` `httpdReadRequest`, its readers and variables | |
| `HttpText` | paths, escapes, base 64, templates, access lists of `libhttpd` | operators |
| `HttpContent` | `libhttpd` content tree, `httpdProcessRequest` and its answers | |
| `Ports` | `radmsrv_alloc_addr` of `radmsrv/radm.c`, option `-r` | |
| `Lists` | the loops of `utils` that take members out of a list | operator of the next two and `Observers` |
| `Scheduler` | `utils/scheduler.c` | |
| `EventLoop` | `utils/event.c`, `fdsel.c` | |
| `Containers` | `utils/datalist.c`, `dataqueue.c`, `dataset.c` | |
| `Observers` | `utils/cobject.c`, `observer.c` | |
| `Sockets` | `utils/net.c` | |
| `Socks` | `utils/socks.c` | extends `Sockets` |
| `Stun` | `utils/stun.c`, `stunlib.c` | operators |
| `MC...` | model checking instances | |

An operator named `Bad...` (or `Eager...`, `Stale...`, `Shared...`, `Open...`,
`Dangling...`, `Lazy...`, `Stuck...`) is a mutant: the action it stands in front of, with a plausible
mistake.  No specification uses it; `PROJECT.json` pairs each property with one
that breaks it.

**PollLoop.**  `mem` is the pair of arrays, `count` is `pfd_count`, `defrag`
whether `pfd_defrag` is set.  `register_sock`, `unregister_sock` and
`unregister_object` are one step each and may run wherever program code runs:
before the loop, in a socket callback (`pc = "call"`) and in a timer callback
(`pc = "timers"`).  The loops of `pfd_defragment` and `dispatch_sock_events` take
one step per slot.  `poll` returns any events a slot may get.  `register_sock`
does not set `revents`; a slot keeps those of its last user, and memory never
used holds any.

**Timers.**  Entries carry their timer, their timeout and their remaining count.
Times are pairs of seconds and microseconds in a smaller scale, so that the
rounding of `tvcmp`, the carry of `add_timer` and the borrow of `tvsub` happen as
in the code, in C arithmetic.  The clock is the time of day and may be set.  A pass
takes one step per callback (`Fire`, `Return`), then one per entry that was pended
meanwhile (`Merge`), as the two loops of `timer_check_timeout` do.  What is armed is
read off the two lists; `on`, which no code keeps, is the history of the calls: the
timers that were started and neither stopped nor destroyed nor run out since.  Without
it a `stop_timer` that left its entry would be a step nobody sees.

**RadmServer.**  One callback is one step, and any registered callback may be
next; that is what `SockSet` promises and `PollLoop` delivers.  Descriptors are
the lowest free number, so that a closed one is used again at once.  The fixed
descriptors (`srv->sock`, the HTTP socket, the control pair) and their
registrations never change and are left out.  The children that serve the page
appear as the datagrams they write, in which an old page may ask for anything.
`Heard` is what the worker makes of a white list it is sent: the datagram is not
terminated, and `strlen` (`main.c:550`) reads on into an array that is never cleared and
still holds the end of what was read before.  The byte cut off may then not be the
newline, which stays on the last address, so that it matches no customer; and if the
list has no bar of its own, an address of an earlier list that stood behind one is let
in, or what is left of it when its last digits were cut off (`stale`, `Leftover`,
`Begins`).  Of a list of three or more the first address alone is used.

`Broker` has the requests of the page as a queue (`asked`), obeyed in order: each grants
the address it came from (`logins`), and one more may delete a service or replace the
white list (`list`).  What a list may become is said by `NewList`: a part of it, or one
address of an earlier list (`past`); nobody else is ever let in.

**Forward.**  A byte is its position in its sender's stream, `Noise` if it met
the wrong position of the keystream.  Both directions run the same code with the
names exchanged, so one action stands for two callbacks.  The kernel's buffer
towards each side has `Room` bytes.  A connection that is reset after its side
closed answers the next send with `SIGPIPE`, which neither program handles; it
ends the process (`SendKills`, and `FwdKills` and `Killed` in the modules above
the session).

**ClientForward.**  The same state, sides and properties; three of the four sends
wait.  Such a callback is split where it waits: it starts (`TsockRead`,
`WriteStarts`), the kernel takes bytes as room appears (`SendGoesOn`), and the
send returns, with everything or with what it took before the connection broke
(`SendReturns`), or fails (`SendFails`).  No other callback runs meanwhile, the
peers do.

**RadmClient.**  One callback is one step: reset, local connect, hand-over and
reconnect are all in `radmc_callback`.  `radmc_reconnect` succeeds or ends the
process (it sleeps and exits); whoever starts the process again is outside the
repository and is the action `Start`.  The session is reduced to its two
descriptors and its end.

**RemoteAdmin.**  Extends `RadmServer` with an instance `C` of `RadmClient`.  A step
is one of the two modules' actions, under the condition the network sets for it:
the server reads a name (`named`) that was sent on that link, the client finds a
first byte (`fed`) or the end of a link the other side no longer holds, and a link
that is `cut` brings nothing to either side.  A process that ends closes its links.
Customers, cuts, kills, local services that are down, and keep-alives that go off
before the server has read the name sent with the last connection, thirty seconds
earlier, are upsets, which `UpsetMax` bounds in number.

**WebServer.**  The supervisor, the worker and the children it forks are processes
that interleave step by step.  A child has copies of every descriptor the worker had,
so that a port stays taken and a session's connections stay open until the children
forked meanwhile have exited.  Every pass of the worker's loop forks while a
connection waits; one child wins it and the others block in `accept`.  A white list
is named after the request that saved it, and `synced` remembers whether the last
save was whole and alone.

**HttpRequest, HttpText, HttpContent.**  `HttpRequest` reads a request of tokens
through a buffer of `ReadMax` and a line of `LineMax` of them; the network cuts it
anywhere, is late or breaks, and every reader then does what the code does: gives up
and serves what it has.  `HttpContent` keeps the tree, to which `Adds` adds an entry;
what is found and what is written are operators on the tree as it is then.  `HttpText`
is operators, each beside the promise it is checked against: the place a path stands
for, the usual encoding of base 64, replacement piece by piece, ranges of addresses.

**Scheduler, EventLoop, Observers.**  A loop that takes members out of a list is `Only`.
Each module has callbacks which may do anything the
program may do, at the point where the code calls them.  What a callback can spoil is
modelled as what happens, and the model stops there: an event loop over an expired
timeout does not end (`fdsel.c:298` never takes the event off the list), and an
emission whose own slot is disconnected stands on a link to itself or on freed memory.

**Containers.**  A chain of iterators with its first and last pointers, its count
and the iterators kept for use again, against the sequence its calls describe.  Calls
that break the chain or lose memory set `odd` and end the behaviour: inserting in the
middle or behind the end of an empty list, removing the only element by index,
copying into a list that holds something, appending to a queue after it was emptied,
and giving a name of a set, with data of a type or without, data of the other kind.

**Socks, Sockets.**  What a call leaves open, step by step, with a peer that may
answer anything and close at any byte, and system calls that may fail.  Two leaks are
stated in the properties: the socket of a request the proxy refused, and the one
`tcp_listen` got from `tcp_bind`.  The cache of `echo_gateway_addr` never holds:
`last` is never stored.

**Stun.**  Messages as bytes.  The two attributes that claim two bytes more than
they write (`encodeAtrError`, `encodeAtrUnknown`) are outside the round trip the
property states.  `recv_shsresp` copies the name and password without their lengths,
so that no request carries them: the property says so of the name.

**Ports.**  Numbers of `Bits` bits wrap as `unsigned short` does; of a range that
ends with the last number `PortsInTurn` says nothing, since the next is then 0.

## 3. Runs

| Run | Shows | Bounds, and why they are enough |
|---|---|---|
| `poll` | `UniqueRegistration`, `ImplementsSockSet`, `NoEventLost`, `LoopProgresses` | three sockets with one callback over an array of three slots: holes at every place, an array all holes, and a registration that finds the array at its end; the theorems hold without the bounds |
| `poll_stale` | finding: `OnlyReturnedEvents` fails | an array that starts zeroed, so that what is stale was left by the loop itself |
| `timers` | `ArmedAreOn`, `NoneOverdue`, `WakesInTime`, `ImplementsAlarms`, `PassEnds` | two parts that share the module: two timers under every operation, interval zero and one that carries into the next second, a second of 2 ms of 2 ticks each; and three timers armed in any order at instants over a longer clock, enough for `tvcmp` not to be transitive (this part is about `Insert`: it runs no pass, of which the first part and the theorems speak) |
| `radm` | `TypeOK`, `FdOwnership`, `RegistryExact`, `KeystreamInSync`, `ClientsSorted`, `ImplementsBroker` | two parts of an instance that is beyond TLC as a whole: devices with two names, reconnects and a customer, with five descriptors (a session and a waiting device of another name fit, one more does not); and the page, its datagrams, expiry, deletion and restart, with one descriptor less and two links, two addresses of which one is the beginning of the other, and lists of one and of both |
| `radm_delete` | finding: `DeleteEndsNoSession` fails | as above, one service |
| `forward` | `ImplementsPipe`, `Delivered`, `SendEnds` | a session of either program: buffers of two bytes, room for one, three bytes from each side, so that a buffer is filled, half sent and used again, and a send of two waits with none or one taken |
| `forward_pipe` | finding: `OnlySessionEnds` fails | as `forward` |
| `client` | `AlwaysWaits`, `SocketsOwned` (with `OneOwner` and `KeystreamInSync`), `RegistryExact`, `ImplementsDevice` | both services, six descriptors: two waiting and two sessions fill them, and the next connect fails |
| `remote` | `OfferIsWaiting`, `SessionsMeet`, `AlwaysReachableAgain` | one service, four links, two upsets (customers, cuts, kills, local failures, late names) at any points: the second one strikes the recovery from the first, or the session the first one opened |
| `web` | `SavedIsObeyed`, `Answered`, `UpAgain`, `DeafUntilLogin`, `SessionCloses` | two connections and two children: a child more than there are connections, two that save at the same time, and one that outlives its worker |
| `web_restart` | finding: `ListensForDevices` fails | as `web` |
| `library` | ten properties, one for each unit (`ConversionsKept` for all conversions, `SocketsKept` for `Socks` and `Sockets`) | below |

Deadlock is checked in all of them but `library`, whose samples have no steps and
whose units may have none left.

`library` holds units that share nothing; its initial state chooses one.

* `SeesWhatWasSent`, `SavedIsWhole`: requests with a form, with headers one token
  shorter, as long as and longer than the line, reads of up to three tokens.
* `ConversionsKept`: paths of up to eight characters (two `/../` fit), escapes of up
  to three bytes with digits on both sides of a percent sign, five bytes of base 64
  with room for four, templates of up to three pieces, access lists of up to two
  entries over addresses of three bits, STUN messages with up to two attributes, cut
  off at every byte.
* `LatestServed`: up to three entries of every type in two directories, every request.
* `TasksRun`: four tasks, three priorities.  `ReadyRuns`: three events, two priorities.
* `ContentsKept`: three iterators, so that each can be first, middle and last.
* `SlotsCalled`: two objects, one the owner of the other or not, three slots.
* `SocketsKept`: a server that refuses twice, two sockets and two lost ones, tables of
  up to three routes.
* `PortsInTurn`: every range of numbers of three bits, two tries.

Symmetry (of links, memory blocks, descriptors' other ends) is used only in runs
without liveness properties.

### Fairness

* `PollLoop!FairSpec`: the loop takes its next step.  It is a thread that waits
  in `poll` only, and its callbacks are assumed to return.  Nothing is assumed of
  the callbacks' registrations or of the events `poll` returns.
* `Timers!FairSpec`: a pass that has begun goes on.  Nothing is assumed about
  when it is begun or about the clock.
* `Forward!FairSpec`: a callback whose event stays is called (`LoopProgresses`
  and `NoEventLost` of `PollLoop` are the reason), and each side goes on reading
  what it was sent.  The second is an assumption on the customer and the device
  (their TCP windows open); a side that stops reading stops its direction.
* `ClientForward!ClientFairSpec`: as above, with strong fairness of the callbacks:
  a send that waits disables all others, and the loop calls each of the reported
  ones in turn before it polls again, so a callback that is due over and over is
  called.  A side that stops reading stops the client, which is why `SendEnds` needs
  the sides to read.
* `RemoteAdmin!RemoteFairSpec`: callbacks as above, the keep-alive timer goes off,
  the supervisor restarts the worker and the device restarts the client.  Nothing
  is assumed of customers, cuts, kills, or of sessions neither end of which closes:
  a customer that stays silent in a session keeps the client waiting on the same
  connection, until the keep-alive replaces it.

* `WebServer!FairSpec`: the supervisor, the worker and each child take their next
  step when they can; a child that waits in `accept` cannot before a browser comes.
  Nothing is assumed of browsers, of the worker's end, or of sessions.
* `library` states no liveness and needs no fairness.

### Findings

1. `poll_stale`: a new registration may be called for an event of the socket
   that had its slot before (`utils/app.c:160`).  It takes a pass in which a
   callback unregisters a socket that was reported too, so that the count of
   events is not used up; the callback then blocks in `accept` or `recv`.
2. `radm_delete`: deleting from an empty list ends the worker with all its
   sessions (`radmsrv/radm.c:313`).
3. `forward_pipe`: `SIGPIPE` ends the process when a session sends to a connection
   that was reset after its side closed; the handler meant for it is compiled out
   (`utils/app.c:484`).
4. `web_restart`: a worker started again while a child of the old one still listens
   on the device port goes on without that port (`radmsrv/main.c:573`), until the next
   login ends it.

One more disagreement has no run of its own, because `Broker!NewList` names it as the
exception to what the white list lets in.  `radmsrv/ip_list.c:1` says that an address that
is not on the list may not get in; but when the new list has no bar of its own and
the bytes behind its datagram still hold one with an address after it
(`radmsrv/main.c:550`), that address is let in, though the page has removed it: after
`1.1.1.1|10.0.0.200|192.168.10.25` and then `10.0.0.200` alone, `192.168.10.25` still
gets in.

Other things met while modelling, about which the repository promises nothing: the
wrap of a range of ports that ends at 65535 (`radmsrv/radm.c:94`), the calls that
break containers and emissions (above), the expired timeout of `fdsel.c`, and that
behind the first task of the scheduler larger numbers go first.

## 4. Proofs

`PollLoopProofs` proves, for every set of sockets, contexts, callbacks and events
and every array size, of `PollLoop!Spec`:

| Theorem | Statement |
|---|---|
| `TypeCorrect` | `Spec => []TypeOK` |
| `RegistrationsUnique` | `Spec => []UniqueRegistration` |
| `DefragOnlyWithHoles` | `Spec => []DefragFlag` |
| `Refinement` | `Spec => ImplementsSockSet` |
| `NoneLost` | `Spec => NoEventLost` |

Assumptions: `Nil` is no socket, context or callback (`NilAssumption`), and the
array has a size (`PfdMaxAssumption`).

The invariants are not inductive alone.  `IInv` adds what the loops know:
`SlotOK` (a slot with a socket has a context and a callback), `FindOK` (the first
loop of `pfd_defragment` has passed live slots only, and a hole is still ahead),
`CopyOK` (the second loop writes strictly behind the slot it reads, and has
written live slots), `CallOK` (the slot of the running callback is inside the
array and counted, so the count stays above zero).  `FindOK` needs `DefragFlag`,
which is why a compaction never empties the array; uniqueness in the middle of a
compaction is over the slots that count (`Held`), not over all, since a slot that
has been moved is still behind.  `Invariance` has one lemma per action.
`Refinement` shows for each action that the set of registrations, seen through
`Held`, takes a step of `SockSet` or stays: in particular that copying a slot down
leaves the set alone.  `NoneLost` has an invariant of its own, `PassOK`: of the slots
`poll` reported, those the pass has not reached still say so, those it went by were
unregistered before it came, and the count of events left is at least the number still
ahead.  A slot that a callback fills may still say what was reported of the socket that
had it before, and uses up the count when it is called; it lies behind every slot of the
report, so that none of them is left when it does.

`RadmClientProofs` proves, for every set of descriptors, links and services among
the program's two, of `RadmClient!Spec`:

| Theorem | Statement |
|---|---|
| `TypeCorrect` | `Spec => []TypeOK` |
| `WaitsAlways` | `Spec => []AlwaysWaits` |
| `DescriptorsOwned` | `Spec => []SocketsOwned` |
| `RegistryIsExact` | `Spec => []RegistryExact` |
| `Refinement` | `Spec => ImplementsDevice` |

Assumptions: descriptors are natural numbers (`FdsAssumption`: `socket` returns the
lowest), the services are among `RLOGIN` and `RADMIN` (`ServicesAssumption`), and the
other end of a descriptor is a link, the local service or nothing (`NilAssumption`).

Again one inductive invariant carries them all.  `Owned(sk, C, fw)` says that the open
sockets `sk` are those of the services `C` and of the sessions `fw`, one owner each,
that each keystream is that of its connection, and that no link is open twice;
`RegOf(C, fw)` is the registry that goes with them; `AllCreated` is what the timer
needs, whose callback resets without looking.  `IInv` says this of all sockets and
all services.  In the middle of a callback it does not hold: `radmc_reset` and
`do_forward` have taken the connection of `s` away, and `struct radmc` still holds
it.  What holds there is `Owned` without `s`, and `ReconnectInv` shows that
`radmc_reconnect` restores `IInv` from exactly that, whichever callback left it;
`ResetOwned` and `HandOverOwned` show that each of them leaves it.  `Lowest` is the
least-number principle, without which the descriptor `socket` returns would not be
known to exist.  `Refinement` reads the links on offer off the keystreams
(`KeyView`), and needs that no link is open twice for the step that hands one over.

`TimersProofs` proves, for every set of timers and intervals and every scale of time
(ticks in a millisecond, milliseconds in a second, width of `int`), of `Timers!Spec`:

| Theorem | Statement |
|---|---|
| `Invariance` | `Spec => []IInv` |
| `StoppedHaveNoEntry` | `Spec => []ArmedAreOn` |
| `LeavesNoneOverdue` | `Spec => NoneOverdue` |
| `MainLoopWakes` | `Spec => WakesInTime` |
| `Refinement` | `Spec => ImplementsAlarms` |

Assumptions: the scales are positive, intervals are natural numbers, counts positive or
`Forever`, and no two times that are compared are 2^31 milliseconds apart
(`WidthAssumption`), which is what the `int` of `tvcmp` needs.  `tvcmp` truncates, so
that it is not transitive and the list is not sorted in the usual sense.  `IInv` says
what it is: `Ordered`, an entry may come after one that is later by less than a
millisecond, whatever was inserted in which order (`InsertIs`); and `Single`, no timer
has two entries, on one list or on both, without which `remove_timer`, which stops at
the first, would leave one behind; and `OnHeld`, the timers that are on by the history of
the calls are those of the entries, which makes `StoppedHaveNoEntry` of it, and of
`Refinement` that a timer stopped or destroyed does not go off.  `Compares` and `Waits` are the two facts about C
arithmetic that everything rests on: less means earlier, not less means earlier by less
than a millisecond at most, the wait is rounded down.  `Refinement` looks at the lists as
the set of their entries (`Held`), which `Removed`, `Armed`, `Fired` and `Merged` follow
through every operation.

`RadmServerProofs` proves, for every set of descriptors, connections, names, addresses
and services, of `RadmServer!Spec`:

| Theorem | Statement |
|---|---|
| `TypeCorrect` | `Spec => []TypeOK` |
| `DescriptorsOwned` | `Spec => []FdOwnership` |
| `RegistryIsExact` | `Spec => []RegistryExact` |
| `KeystreamsInSync` | `Spec => []KeystreamInSync` |
| `ListSorted` | `Spec => []ClientsSorted` |
| `Refinement` | `Spec => ImplementsBroker` |

Assumptions: descriptors and names are natural numbers, kinds of service are 1 to 3 as
in `radm.h`, the white list of the command line holds addresses, what an address begins
with is addresses too (`WhiteAssumption`), a link is no address, and a listening socket is neither (`EndsAssumption`), `Nil` is none of the rest.
`IInv` says that the list of entries is the list of those allocated, each once, in the
order of names and no two for one service (`Sorted`); that each open descriptor has one
owner among `radmconn`, `radmcli` and `fwd` and leads where its owner believes, its
keystream with it (`Owned`); that the registry is the one that goes with these owners
(`RegOf`); and that a link is not opened again while it is open (`NotOpen`).  None of
the five properties is inductive alone: a descriptor is closed because its owner is
found, the owner is found because the list is sorted and holds it, and it may be called
because the registry is exact.  A device's name is the longest callback: it reads the
name, drops the entry's old connection or makes an entry, and takes the new one over;
its lemmas follow the code's branches.  `Refinement` has a lemma for each kind of
datagram: `CtlWhiteRefines` is where the bytes left in the buffer meet `Broker!NewList`.

`ForwardProofs` proves, for every size of the session's
buffers and of the kernel's, of `Forward!Spec` and `ClientForward!ClientSpec`:

| Theorem | Statement |
|---|---|
| `ListensToEach` | `Spec => []OneEach`: of each direction the reader or the writer is registered |
| `Refinement` | `Spec => ImplementsPipe` |
| `ClientRefinement` | `ClientSpec => ImplementsPipe` |

Assumptions: the sizes are positive, `Noise` is no position of a stream.  The invariant
is that of a direction (`Flow`): what was passed on is a prefix of the stream, and what
the buffer holds from its position on is the part that follows, with the keystream at
its end.  For the client it is stated with the place a waiting send has reached
(`Passed`) instead of the position the callback will store when the send returns, since
between the two the kernel has bytes that the structure still counts as its own.

`WebServerProofs` proves, for every set of browsers and children and every length of
the socket pair's queue, `FairSpec => []SavedIsObeyed` (`Obeyed`; fairness is not used).
Assumptions: the marks of what is not a request are no requests.  `IInv` follows a child
that saves whole and alone: from the datagram it sends to the file it writes, no other
saves, and the last white list in the queue, or the one obeyed if there is none, is its.

The same module proves, of the requests a child reads and for buffers of any size for a
line and for a read:

| Theorem | Statement |
|---|---|
| `RequestInvariant` | `RequestSpec => []RequestInv` |
| `WhatWasSentIsSeen` | `RequestSpec => []SeesWhatWasSent` |
| `FormIsSavedWhole` | `RequestSpec => []SavedIsWhole` |

Assumption: the first line of the requests modelled, of six tokens, fits the buffer
(`RequestAssumption`; the code's has 10240 characters).  The lemmas on induction
and recursion are those of `LibraryProofs` below, which cannot be extended here, since
names of its modules are names of `WebServer` too; `FoldExists` adds that the function by
which the community modules define a fold exists.

`RequestInv` follows the reader of a request.  The text of every request falls into
lines (`Plan`; `PlanExists` finds them): those it was written as, but that one as long
as the buffer is taken without its end, which is then an empty line and ends the
headers, and a longer one is taken in two.  The plan depends on the text and `LineMax`,
never on how the network cut the text, and a state is one place in it (`Begun`): what is
left in the buffer and on the wire is the rest of the text (`Rest`), the line so far is
a beginning of the line planned (`InLine`), what was understood is what the lines before
it say (`GotAt`, `VarsAt`).  A failed read leads ahead of that, to the body or to the
end; then `late` is set, and a body can begin only where the headers of a form had been
understood, in the last line before the empty one or behind it (`BodyAt`).  What
`StoreData` makes of a body and a query is worked out token by token (`PostedIs`,
`FormIsStored`, `EarlyIs`).  On time that is what `Expected` says (`DoneIs`,
`RequestIsSeen`).  A body that is read from one or two tokens too early on is no longer
than the form: its first field has another name, and it loses as much of its end
(`OfForm`).  If it still has its button, the other fields are those sent, and `W` has
the cookie's value, which is older than the form's, or none, and then nothing is saved
(`SavedOnlyWhole`).

`RemoteAdminProofs` proves, of `RemoteAdmin!RemoteSpec`, for every set of links,
descriptors, services, upsets and so on:

| Theorem | Statement |
|---|---|
| `Parts` | `RemoteSpec => Spec /\ C!Spec` |
| `WholeIsBroker`, `WholeIsDevice` | `RemoteSpec => ImplementsBroker`, `RemoteSpec => C!ImplementsDevice` |
| `OffersWait` | `RemoteSpec => []OfferIsWaiting` |
| `SessionsAreMet` | `RemoteSpec => []SessionsMeet` |

Assumptions: those of the two modules (`ClientAssumption` for the client's), and that the
client's services are among those the server knows (`ServedAssumption`).  `Parts` is what
makes the composition worth having: it takes no step of a part that the part does not
take alone, so that the invariants above hold in it, and `RInv` adds what only the whole
can say.  `Names`: a name on its way is on a link the server has not read and, if the
client still holds the link, waits on it for that service.  `OffersFit`: so is the service
a link is offered for.  `Bytes` and `Met`: a link with a first byte, or in a session of
the client, is in a session of the server if the server still holds it.  They exclude
each other through `Owned` of the server, one owner per link; that a step of one process
disturbs none of them is shown once for each process (`Keeps`, `ClientMoves`) and then
for each action of it.

`LibraryProofs` proves, of the units of `utils` with state of their own, of `Ports` and of
the pages of the web server:

| Theorem | Statement |
|---|---|
| `TasksAreRun` | `SchedulerSpec => []TasksRun` |
| `ReadyAreRun` | `EventSpec => []ReadyRuns` |
| `SlotsAreCalled` | `ObserverSpec => []SlotsCalled` |
| `ContentsAreKept` | `ContainerSpec => []ContentsKept` |
| `SocketsAreKept` | `SocksSpec /\ SocketsSpec => []SocketsKept` |
| `PortsAreInTurn` | `PortsSpec => []PortsInTurn` |
| `LatestIsServed` | `ContentSpec => []LatestServed` |

for every set of tasks, events, objects, slots, items and names, memory blocks of any
size, tables of routes of any length, numbers of any width, any number of tries, and all
entries, requests and handlers of errors.
Assumptions: the numbers of events are natural (`PriorityAssumption`), `NoObject` is no
object, iterators are finitely many and none is NULL (`IteratorsAssumption`), routes are
well formed (`RoutesAssumption`), there is a try (`PortsAssumption`), an entry has a
directory and one of five types (`PagesAssumption`).  `Lowest`, from the library's
well-founded sets, gives `Induction` over the natural numbers, and that `Recursion`: a
loop over a list, written as a function of its index, exists.  So what the loops compute
can be proved: `OnlyIs` for the members that stay in a list, in their order, `WalkIs`
for the way along a chain, which a ring would make too long (`ShortIs`), `DispatchIs`
for the events a pass schedules, `FindSAddrIs` for the table of routes, `TurnKept` for
the ports asked for while `bind` fails.  The invariants: `SchedulerInv`, each
task is in the list once (its order, which the code does not keep, is left open);
`EventInv`, the table and the places the events have of
themselves agree (`Indexed`), and what waits is sorted and is what is owed;
`ObserverInv`, an emission splits the list of its signal where it stands (`Emission`),
and no slot of a list is free; `ContainerInv`, there are two lists of iterators without
one in common, one linked from the first pointer and holding the items, the other linked
from the list of those to use again (`Keeps`); `SocksInv`, what the server said so far,
or that it closed; `PortsInv`, the ports of the range between any port and the next have
been asked for since it was (`Within`), which steps round the end of the range keep. 
`ContentInv`, wherever and for whatever name the tree is searched, the entry found is
the last of those added that fits (`Finds`), which putting an entry in front of one list
keeps (`FindsOn`).

Checked by TLC only:

* liveness under fairness (`LoopProgresses`, `PassEnds`, `Delivered`, `SendEnds`,
  `AlwaysReachableAgain`, `Answered`, `UpAgain`, `DeafUntilLogin`, `SessionCloses`), which
  the prover cannot reach, `ENABLED` included;
* what the loops of `HttpText` and `Stun` compute over texts of any length
  (`ConversionsKept`): each statement compares two such loops, one of which undoes what
  the other did.

## 5. Plan

Modelled: the two programs, with the abstract specifications they implement, and the
libraries they are built with.  Proved: every safety property of the two programs, and
those of the libraries but for conversions of texts.  What is left to prove, with
`Recursion` as above: `HttpText!AclObeyed` for every width of an address, and the other
conversions of `ConversionsKept` as far as an induction over the text carries them.

## 6. Not modelled

Digests, RC4's key schedule, debugging aids (`debug.c`, `trace.c`, `btrace.c`,
`addr2name.c`, `simtbl.c`), the settings client and the makefiles: fixed
computations, compiler- and processor-bound code, or plain I/O.  The strings and block
allocation of `utils.c` and `utf8.c`.  What starts the client again.  Failing `malloc`
and `realloc`; clocks set by more than 24 days (`WidthAssumption` of `Timers`); the
alternative loop `app_loop_type` 1 and the SIGALRM timer, which no program selects;
HTML, logging and option parsing.  Of the libraries: reference counts and types of
containers, interface listing, descriptor passing and gateway tracing of `net.c`, the
probing of `stun_get_metrix`, and the bytes of addresses.
