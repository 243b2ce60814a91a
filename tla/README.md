# A verification of the RIP node

The program is a user-level IP node: it runs links over UDP sockets, the RIP
routing protocol over the links, and forwards packets along the routes.  This
directory models its concurrent and distributed parts in TLA+, checks the models
with TLC and proves theorems about them with TLAPS.  Paths are relative to the
repository's root; line numbers are those of the modelled commit.

## Inventory

| part | code | state | operations | how it is reached |
|---|---|---|---|---|
| RIP layer | `RipLayer.cc` | `_rtable`: address to (cost, next_hop, ts); `_rlock` | constructor, request, response, update and refresh timer, `add_ifc_entry`, `remove_ifc_entry`, `get_next_address`, `print_route_table` | the network layer's out-queue thread, the RIP thread and main; a look-up also on whichever thread sends a packet |
| link layer | `LinkLayer.cc/.hh` | `s_local`, `_isup`, `_sbuffer`, `_sbufferReady`, a mutex and a condition | `send_frame`, `send_and_receive` (`recv_data`, `send_data`), `up`, `down` | one thread of its own per interface, the network layer's in-queue thread, main |
| network layer | `NetworkLayer.cc` | two `MessageQueue`s | `transfer_link_to_ip`, `transfer_data`, `transfer_rip_to_ip`, `transfer_application_to_ip`, `transfer_transit_data`, the two queue threads | calls from all other layers |
| message queue | `MessageQueue.hh` | a queue, a mutex, a condition | `push`, `pop` | `push` also from a signal handler |
| node | `NodeImpl.cc`, `Node.hh`, `node.cc` | the interfaces and layers, two POSIX timers | start-up, the commands, the timers' handler | main thread |
| link files | `parselinks.c` | none | `parse_links` | once, at start-up |

A datagram comes in on a link thread (`recv_data`), is queued in `_outgoingqueue`
(sic), and the thread behind that queue either hands it to the RIP layer or
delivers or forwards it.  What is to go out, RIP messages included, is queued in
`_incomingqueue`; the one thread behind it puts each packet in the slot of its
interface, and waits there while the slot is full.  The timers' signal handler
queues two kinds of events for the RIP thread.  The commands run on main and
reach into the link and RIP layers directly.

What is hard here: datagrams are lost and reordered, so nodes act on stale
routes; nodes quit and restart; `up` and `down` change fields that the link thread
reads several times in one turn of its loop; `_rlock` covers single insertions
and erasures, not the searches and walks they belong to; `send_data` signals
without the mutex.  `PROJECT.json` lists these hazards at their lines.

What makes each part correct: for the RIP layer, own addresses, between commands, of exactly
the interfaces that are up, costs never below the distance, stale routes that die, live ones
that come back; for the link layer, a frame slot that loses and repeats nothing, and a loop
that neither aborts nor wedges; for the table under threads, that what slips through the
unlocked gaps, such as a route through an interface that is down, is repaired.

## Modules

- `RipNetwork`: the protocol between nodes.  A handler is one action: `Start` (the
  constructors and `prepare_msg(1)`), `Quit`, `Update` and `Refresh` (the timers),
  `ReceiveRequest`, `ReceiveResponse`, `DropOnDownIfc`.  A command is several, since the other
  threads' handlers come in between: `Down` (`_isup`), `RemoveEntries` (the erasures) and
  `AnnounceRest` (the `prepare_msg` that ends `remove_ifc_entry`); `Up` and `AddEntry`; `main`
  says how far the main thread is.  And a message that passed `is_up` before a `Down` may be
  in the out-queue's thread still: `Down` moves it to `late`, and `ReceiveLate` handles it at
  any time after that, so routes through an interface that is down do appear.  (That this
  thread may wait between its accesses without a `Down` changes nothing another thread sees
  but the table, whose finer steps, and the walk of `remove_ifc_entry`, are `RipThreads`'.)
  `rtable[n]` is node n's `_rtable` for the destinations `Dest` that are followed: entries of different
  addresses do not influence one another.  `messages` holds what is between
  `prepare_msg_ifc` and `transfer_ip_to_rip`: queues, slot, sockets and network, any
  of which may delay, reorder (by merging them) or lose it.  It is a set: two equal
  messages under way are one, which is no loss, since a message may be late anyway
  and a second equal one changes nothing that the first one did not.  Timestamps
  count update ticks: 12 s against a period of 5 s means that a route surely
  outlives the second tick and surely not the fourth (`MayExpire`, `MustExpire`).
  What comes in over the second of two links to one node is taken for the first's
  (`TakenFor`), since the interface is looked up by the sender's port; `Index` is an
  interface's place in `_interfaces`.
- `RipTree`: the same in a network without loops, and what holds there.
- `Forwarding`: data packets on top of `RipNetwork`, whose steps go on between theirs.
  `SendPacket` is `send` down to the queue; `Transmit` and `DropOnClosed` are the in-queue's
  thread, `send_frame` and `sendto`; `Arrive` is `recv_data`; `Deliver`, `Forward` and `Swallow` are
  the branches of `transfer_data`.  A packet carries the interface it leaves by or came
  in on, so the next hop it was given may be stale when it leaves.  `Decremented` is the
  16-bit arithmetic on the TTL and `Passed` the two bytes it writes back.
- `RipThreads`: one node's `_rtable` under the three threads that change it or walk it.
  Keys are numbers in `std::map`'s order, walks keep iterators, and erasing a node
  makes other threads' iterators to it dangle.  Using such an iterator is undefined;
  the model ends there and its properties say nothing of what follows.
- `LinkLayer`: one `LinkLayer` object, three threads, an action for the code between two
  accesses to shared fields.  The build has no `-O` and `CFLAGS` no sanitiser, so
  fields are read and written where the source says so.  `_bufferlck` is taken by one
  thread only and so has no variable; the condition variable is "the sender waits".
  The sets and `fdmax` are filled from `s_local` one by one, so a `down` may come between any
  two.  It begins where the constructor has started the object's thread.  Until the node has
  a network layer (`main` is "starting") a datagram follows a pointer that was never set
  (`RecvBeforeStarted`); from then until it has a RIP layer ("requesting") the RIP layer's
  constructor sends the first request, and a datagram that is passed up does the same
  (`TransferBeforeStarted`).  Both end the model as an abort does.  `recv_data` asks for more
  (`RecvMore`) as long as what it has is shorter than the packet says: after a recvfrom that
  failed, or when the packet is longer than `MAXBUFF`, which a payload of more than 1004 bytes
  makes it; `mishaps` notes which, and whether what is passed up is the whole datagram, a
  byte short of one, or several in one (`passed`).  The network takes what an open socket is
  given: that sendto fails on one is not modelled.
- `FrameSlot`: the abstract slot for one frame that `LinkLayer` implements.
- `HandOver`: how `send_frame` and `send_data` pass that slot to one another, with the flag,
  the signal that may be lost and the test that follows every wakeup.  `LinkLayer` and
  `UpdatePipeline`, which has these two functions in fewer steps and for several
  interfaces, both implement it (`HandedOver`, `SlotsHandedOver`), the end of the process
  included, so what the second leaves out of the first does not change how slots pass.
- `MessageQueue`: `push` and `pop` for any number of callers, an action for each call of
  the thread library and for each access to the `std::queue`, whose `push` is two steps
  since nothing but the mutex makes it atomic.  There are finitely many callers, as there
  are finitely many threads.
- `Fifo`: what a `MessageQueue` promises.  `MessageQueue` is shown to implement it.
- `UpdatePipeline`: how an update leaves a node.  A timer expires (`Fire`), its signal is
  handled on some thread of the process (`Deliver`, `Handle`), which does not move until
  the handler returns (`Runs`); the handler pushes to `_timerQueue`.  The RIP thread pops
  (`RipPops`, `RipReturns`) and pushes a message per interface to `_incomingqueue`
  (`Announce`); so do main, after `down`, and the out-queue's thread, for a request; and
  packets are pushed one by one (`Push`).  The in-queue's thread takes them and goes
  through `send_frame` for one interface after another (`PopMessage` to `Fill`).  Each
  interface's thread finds its slot full (`Write`), empties it (`Send`) and signals (`Signal`),
  or ends the process when the socket was closed in between (`SendFailure`).  Whether it comes
  to `Write` at all is left open: `LinkLayer` shows how it may wait in select or recvfrom for
  good.  `missed` notes that the signal has come between the test and the wait of
  `send_frame`, until something else ends the wait.  `_timerQueue` is a `MessageQueue` in full, because a handler may interrupt `pop` on the RIP thread;
  `_incomingqueue`, which no handler touches, is a `Fifo`: the abstract module takes
  the place of the detailed one.
- `LeastElement`: a set of naturals has a least element, which two proofs need.
- `RipNetworkProofs`, `RipTreeProofs`, `ForwardingProofs`, `LinkLayerProofs`,
  `MessageQueueProofs`, `UpdatePipelineProofs`, `RipThreadsProofs`: the theorems.
- `MCRipTree`, `MCRipParallel`, `MCForwarding`: topologies for TLC.
  `LinkLayer`, `RipThreads` and `UpdatePipeline` are checked as they are.

`RipNetwork` and `Forwarding` take a link layer that may delay or lose a frame but does
not stop its node, and timers that go on; `LinkLayer`'s violated runs and `timers_stop` show
where the code's do stop.

The definitions called "Mutant" in a comment are plausible bugs; each breaks one
property, which shows that the property depends on the code it is about.

## Runs

| run | states | what it asks |
|---|---|---|
| `rip_tree` | 46 000 | A line of three nodes with the code's cost 16, loss and reordering; the outer nodes' neighbour and the far end quit and restart, and the interface between them goes down and up: types, `TreeRoutesExact`.  Do routes come back when all stays up (`RoutesComeBack`)?  Does every learnt route expire (`LearntRoutesExpire`)?  Yes to both: nothing renews a timestamp, so routes flap. |
| `rip_parallel` | 113 000 | Two links between two nodes, and a third node behind them that quits, restarts and takes its interface down and up.  Poisoned reverse fails on the second link, so a node hears of its own addresses (`LocalEntries`) and the two count upwards: `NeverTooShort`, `ReplacedByCheaperOnly` and `DeadRoutesDie` hold all the same.  `DeadCostsOnlyRise` is why the last does: meanwhile no step lowers the lowest cost in any table or message, or renews a route at that cost. |
| `rip_threads` | 67 000 | Own entries follow the commands (`OwnEntriesKept`); foreign ones are learnt routes, or zeros old enough to be erased (`ForeignEntries`); an iterator leaves the table only by another thread's erasure (`IteratorsLive`); while an interface is down only the message let in before adds a route through it (`DownStaysDown`); phantom entries and routes via a down interface go (`PhantomsGo`, `RoutesViaDownVanish`). |
| `update_pipeline` | 165 000 | Two timers, two threads that handlers interrupt, two interfaces, a command, a request or a packet: `_timerQueue` is a `Fifo` (`OldestFirst`) that loses no wakeup (`NoLostWakeup`); every timer event is handled unless a handler is stuck behind the thread it interrupted or the process ends (`TimerEventsHandled`); slots pass as in `HandOver` (`SlotsHandedOver`) and `send_frame` waits only for a reason (`WakeupOwed`); and what is in `_incomingqueue` leaves it unless its thread waits for a slot that stays full, has missed a slot's signal, or is interrupted by a stuck handler, or the process ends (`MessagesLeave`). |
| `timers_stop` | violation | `TimersHandled`: the timers' events are handled. |
| `forwarding` | 179 000 | One packet to the far end of the line, with restarts, up and down: `PacketTypeOK`, and no more hops than the distance asks for (`FewestHops`). |
| `protocol_lost` | violation | `ProtocolKept`: `send` sends the payload with the protocol it was given. |
| `link_layer` | 960 000 | Slot exclusion, the refinements of `FrameSlot` and of `HandOver`; what an interface that no command touches may and may not do (`SoundWhileUntouched`), and that its full slot is sent (`SlotIsSent`) unless `recv_data` waits for ever for what is to follow a datagram. |
| `lost_wakeup` | violation | `FrameIsLoaded`: the network layer's thread gets through `send_frame`. |
| `down_aborts` | violation | `DownIsSurvived`: `down` does not end the process. |
| `up_wedges` | violation | `UpInterfaceSends`: an interface brought up again sends. |
| `phantom_route` | violation | `EveryRouteLeadsSomewhere`: the table has no entry of zeros. |

`MessagesLeave` and `TimerEventsHandled` name the ways in which the model does stop: each is
a behaviour of it (without any one of these disjuncts TLC finds them violated), and
the run shows that it has no other.  Which slots stay full is `LinkLayer`'s subject: one that
no command touches is sent (`SlotIsSent`), if no packet is longer than `MAXBUFF`; one that is
down stays full until it is up again, or for good (`up_wedges`).

Bounds.  One destination suffices, since entries are independent.  In the line
the far end is followed, so there is a node with a route of two hops and one in the
middle that can poison.  `MaxQueued` 2 lets an old and a new message to one
interface overtake each other; elsewhere it is 1.  `MaxCost` 16 is the code's;
4 leaves room for the longest route (2) and for turns between
the parallel links.  In `rip_tree` a route may expire after the first tick and must after
the second, elsewhere both are 1: what counts is that a tick may come before or after
an update, not how many do.  The commands of each run are in its MC module: those of the
nodes that the followed destination's routes depend on.
`rip_parallel` starts where the protocol has settled (`Settled`), a state `RipNetwork` reaches.
Three commands suffice for the link layer:
down, up, down exercises a reused descriptor and a stale one; two descriptors
allow the leak of an up on an interface that is up; three frames, that one is sent,
one is in the slot and one waits; one datagram at a time in a socket, since each that is
taken makes room for the next.  The run of `RipThreads` has one interface and one learnt
address: enough for an erasure to overtake a search, a walk and another erasure.  Several
interfaces, where routes through one outlive commands on another, are for the theorems.

One packet suffices for `Forwarding`, since packets do not influence one another; its
TTL is the code's 16, and the protocols are an ordinary one and RIP's own, which a user
may name too and which the receiver then takes for a RIP message.  Ticks of 1 let
routes expire while a packet is on its way.

For `UpdatePipeline` each timer expires once (a second expiry before the first is
delivered is an overrun and changes nothing), so two events meet in the queue and two
handlers on two threads: the RIP thread, where one may wait for the mutex of the thread it
runs on, and the in-queue's, which a handler that waits stops.  (A handler that waits on main
may stop it while it holds `_incomingqueue`'s mutex; that is another way to the same end, a
stuck handler, and not in the model, whose pushes to that queue are atomic.)  It starts with
the interface that commands touch up or down and with or without a packet in
`_incomingqueue`.  One more command, request or packet is then enough for a slot to be
full when its interface goes down, with messages for it and for the other interface behind
it, for a message to be dropped on a closed socket, and for a down in the middle of a send.

The runs of `LinkLayer`, `RipThreads` and `UpdatePipeline` do not check for deadlock (`CHECK_DEADLOCK FALSE`),
since these models may stop: their frames, commands and expiries are bounded, an abort, a
crash or a dangling iterator ends them, and a stuck handler or a missed signal may, too.

## Fairness

`RipNetwork`: the timers recur for as long as the process runs and the RIP thread
takes their events in order (`SF` for `Update`, which a full `MaxQueued` may disable for a
moment, `WF` for `Refresh`); a datagram under way arrives or is lost (`Drain`); and
of those repeated every 5 s not all are lost (`Heard`, used by `rip_tree` only).
Commands have none, but what they have begun goes on (`MainGoesOn`), and so does a message
that was let in (`OutGoesOn`).  This is a condition, not a promise of the code: a handler
that is stuck (`HandlerStuck` of `UpdatePipeline`, the run `timers_stop`) ends the timers, and
the violated runs of `LinkLayer` end the links.  What the runs of `RipNetwork` show is that
the protocol does its work as long as neither happens.  `LinkLayer`: each thread runs (`WF` of
`Sender` and `Loop`), and `recv_data`, given datagram after datagram, at some time has enough
(`SF`): `totalbytes` grows and `frame_length` has 16 bits.  No spurious wakeup is promised, no
signal that interrupts this thread, and not that a recvfrom returns when another thread
closes its socket.  `BusySpec` adds a neighbour that keeps sending, which
RIP's updates do: the violations hold even then.  `RipThreads`: each thread goes on with
what it has begun, gets `_rlock` in the end (it is held for one insertion or erasure
and never while waiting), reaches the end of a message, and both timer events are
handled, since they are queued.  `UpdatePipeline`: a pending signal is delivered to some
thread, and the RIP thread and the in-queue's run (`WF`); an interface's thread that has
begun `send_data` gets through it (`WF` of `SendData`), but none need begin it; main and the
out-queue's thread, which the properties do not need, have no fairness.  While handlers
wait for the mutex of `_timerQueue` and it is free again and again, one of them gets it
(`SF`): the RIP thread takes it whenever its wait ends without a signal, which may be for
ever, and pthread mutexes do not keep a waiting thread out for ever in that way.  No such
fairness is assumed against the handlers, which come and go with the bounded expiries.

## Proofs

All theorems hold for every topology and every value of the constants that the
named assumptions allow; none depends on TLC's bounds.

- `RipNetworkProofs`: `TypeCorrect`; `LocalEntriesCorrect` with `MainInv`, which adds that
  a node at a command runs and that `_isup` stays what the command has made it until its
  last step; `NeverTooShortCorrect`
  from `CostInv`, which adds that no message under way is too short either (a table learns
  from messages, so the invariant on tables alone is not inductive); and
  `ReplacedByCheaperOnlyCorrect`, an action property, from the types.
  The distances enter through `DistAssumption`: zero at the owner, at most one more
  across a link, which graph distance satisfies.
  `DeadCostsOnlyRiseCorrect`, an action property, from the types: while the interface of an
  address is down, a route to it after a step was there before, no younger, or costs one more
  than a message offered (`RouteOrigin`), and a new message lists it at a cost some table has
  (`MessageOrigin`), since constructors and `add_ifc_entry` enter addresses that are up only.
- `RipTreeProofs`: `TreeRoutesExactCorrect` from `TreeInv`.  Poisoned reverse makes every
  message that travels away from the destination exact and every one that travels
  towards it say "unreachable"; the invariant states both for the messages under way.
- `ForwardingProofs`: `TtlNeverExpires`, that the test for an expired TTL fails for every byte;
  and `PacketTypeCorrect` and `FewestHopsCorrect` from `PacketInv` on top of `TreeInv`.  `PacketInv`
  is an equation for every packet under way: the hops behind it, the distance before
  it and the link it is on add up to the distance it started with.  That the next hop
  may be stale does no harm, since it was exact when it was looked up and the distances
  are the topology's.
- `LinkLayerProofs`: `SlotExclusiveCorrect` relates the places of the two threads to
  `_sbufferReady`; `Refinement` maps the slot to full from `_sbufferReady` until the
  datagram is with the network, so that the steps that free it are stutters;
  `SoundWhileUntouchedCorrect` shows that as long as there was no command the socket in
  use is the one the constructor opened, which is therefore what the sets and `fdmax` are
  filled with, that recvfrom is called without a datagram to take only once one was not
  enough, and that before the node is complete no more than its first request has been
  sent.  `HandedOverCorrect` needs of `SlotInv` that the flag is false while `send_frame`
  fills the slot and true when `send_data` clears it.  `TypeCorrect` too.
- `MessageQueueProofs`: `QueueRefinement`, a `MessageQueue` implements `Fifo` for any number
  of callers and items.  `QueueInv` says that who is between lock and unlock holds the
  mutex, that `seen` is the queue as it still is when `Store` appends, and that `item` is
  its head until `Remove`; without it two pushes could overwrite one another.
  `NoLostWakeupCorrect`: `push` signals one waiting `pop` and before it unlocks, so with
  several consumers it is not clear that an item in the queue has somebody who will take it.
  That there is one for some item is not inductive; that the callers who have yet to signal,
  to test or to remove (`Active`) are at least as many as the items is, as long as somebody
  waits.  The steps that add to or take from `Active` are counted with the cardinality
  lemmas, which is why the callers must be finitely many.
- `UpdatePipelineProofs`: every step of the pipeline is a step of `MessageQueue` or leaves
  the queue alone (`NextIsQueueStep`), so `OldestFirstCorrect` and `PipelineNoLostWakeup` follow
  from the theorems about `MessageQueue`; since handlers only push, `EventHeardCorrect` turns
  the count into a fact about the RIP thread: while it waits over an event, a handler is about to
  signal.  `WakeupOwedCorrect` and `SlotsHandedOverCorrect` from
  `SenderInv`: the sender has one frame and one slot at a time, a slot it fills was found
  free, an interface's thread that goes on to send finds the slot full still, and `missed` is
  set only while the sender waits.  And `PipelineTypeCorrect`.
- `RipThreadsProofs`: `TypeCorrect`, and `OwnEntriesKeptCorrect` from `OwnInv`.  The walk of
  `remove_ifc_entry` comes past the interface's own entry only to erase it, so as long as
  that entry is there it is at or after main's iterator, although other threads insert and
  erase in between; an iterator that was not left dangling is at a key of the table; and
  neither loop ever holds another own entry to erase: the refresh skips them, and none
  leads out of a foreign interface.  `IteratorsLiveCorrect` from `LiveInv`, which adds that in
  front of an erasure the second iterator is past the first, so the erasure spares it.
  `ForeignEntriesCorrect` from `ForeignInv` and what `out` holds in its hand between its accesses:
  zeros are as old as an entry can be, so no walk however long finds them young.
  `DownStaysDownCorrect`, an action property, from the types and `OwnInv`: no own entry
  comes back while the interface is down, and only `Holding` lets a message write.

Only model-checked: all liveness (`RoutesComeBack`, `LearntRoutesExpire`, `DeadRoutesDie`,
`SlotIsSent`, `PhantomsGo`, `RoutesViaDownVanish`, `TimerEventsHandled`, `MessagesLeave`), since
TLAPS cannot do fairness, and the violations.  What some of these rest on is safety and
proved: `DeadCostsOnlyRise` for `DeadRoutesDie`, `ForeignEntries` for `PhantomsGo`, `DownStaysDown`
for `RoutesViaDownVanish`, `NoLostWakeup` and `EventHeard` for `TimerEventsHandled`, `WakeupOwed` for
`MessagesLeave`.  What is left to the model checker is that fair threads and timers then get
to the end.  `Fifo`, `FrameSlot` and `HandOver` are abstract specifications and have no theorems
of their own.

## Not modelled

`parse_links`, the checksum, the printing commands and the debug code: sequential,
and no state depends on them.  Memory errors (a table of more than 64 entries, an
index of -1, a datagram with a wrong number of entries): there is no state to follow
after them.  Start-up is atomic in `RipNetwork` and `RipThreads`: before it is over a message
ends the node, as `LinkLayer` has it, and what the table would be is then moot.  That a
message lists what a walk over a changing table saw is not in `RipNetwork`, where
`prepare_msg_ifc` reads the table at once.  What the handler's allocation inside a signal may
do is undefined and left out.  `tools/`, `rip_dissector/`, `htable.c` and `list.h` are not part
of the program.

Packets in a network with a loop were left out: none ever expires, the TTL goes
through all 256 values while a packet circles, and with the counting of the routes under
it the instance is too large for TLC.  `Forwarding` therefore lives on `RipTree`.  Nor is it
shown that `RipThreads` implements the table of `RipNetwork`: with an entry of zeros or a route
through an interface that is down it does not, until the refresh that follows.
