# Verification of trithemius-p2p

TLA+ models of the trithemius terminal chat client, model-checked with TLC and
proved about with TLAPS. Paths below are those of the repository; `ui.rs` and
`main.rs` are in `src/bin/trithemius-term/`.

To repeat the checks: `tlc -config MCChat.cfg MCChat` (and likewise for each
run below), and `tlapm ChatProofs.tla` (and likewise for every module whose name
ends in `Proofs`).

## The system

One process, one asynchronous task. `Engine::run` waits with `tokio::select!`
for a key or a swarm event, handles it to the end, drains the engine's own event
queue, redraws, and starts over. Handling a key may include waiting for Tor,
without a timeout; nothing else is done meanwhile. libp2p (gossipsub, Kademlia,
TCP), Tor and the operating system are outside and move at any time.

| Component | State | Operations | Hard parts |
|---|---|---|---|
| Chat core (`ui.rs`, `subscriptions.rs`, `main.rs`) | map of histories, row of tabs, selected index; gossipsub's mesh | subscribe, unsubscribe, Ctrl-Left/Right, Enter, received message, redraw | three copies of one set; `swap_remove` under an index; arithmetic on a `usize`; messages in flight across leave and join |
| Input line (`ui.rs`) | characters, cursor | editing keys, Enter, `split_each`, `ui_input_cursor` | cursor within bounds; two renderings that must agree on wide and combining characters; a panel of one row |
| Engine loop (`engine.rs`) | event queue, `query_map` | the two arms, the drain, `find_peer`, start-up | answers and notices take different ways; bootstraps complete several times; errors leave the loop; an arm that waits for Tor |
| Tor control connection (`tor/control_connection.rs`, `tor/auth.rs`) | the stream, the reply being read | `send_command`, the reply parser | replies told apart by position only; asynchronous events; replies left half read; end of stream in mid reply; panics on short lines; no timeout |
| Onion services (`engine.rs`, `transports/tor.rs`) | cached control connection, one-slot channel, services known to the transport, listeners | create, listen, poll | failure after each step; sender and receiver in one task; stale services; events dropped |
| Dialling (`transports/*.rs`, `util.rs`) | configuration, the address handed on | `do_dial` of Tor and SOCKS transport, DNS/TCP | each transport may hand on another address than it was given |
| Connections (`ui.rs`, `main.rs`) | `connect_list` | connect, established, closed | entries known by address only: overlapping dials, failed dials, other people's connections to the same address |
| Start-up and rendezvous (`cli.rs`, `engine.rs`, `main.rs`, `ui.rs`) | command line, the behaviours it asks for, what has been done | `--register` parser, check in `main`, `Engine::new`, `startup`, `/register`, `/discover` | partial effects; failures that end the program and failures that log; a check that misses a case |
| Network addresses (`network_addr.rs`) | none | `from_str`, `as_network_string` | round trip; `unwrap` on an onion name |
| Rendering, logging, event conversions | | | output only |

How they interact: the UI calls the engine (`subscribe`, `dial`, `listen`,
`find_peer`, `create_transient_onion_service`) and hands it messages to publish
as the return value of its input handler; the engine calls the UI back with
`EngineEvent`s; the engine and the Tor transport share a channel of capacity
one; the engine and Kademlia share query ids.

What makes each component right: the copies of the subscriptions agree and the
selection names a tab; the line is what the user typed and the cursor is where
it will be edited; each lookup is answered once and in time; each command gets
its own reply; a service that is reported as created is reachable; an address
is dialled the way it says; the user hears of the connections asked for; the
loop is reached with everything done that was asked on the command line.

## The modules

| Module | Models | Checked by |
|---|---|---|
| `Chat` | chat core | `MCChat` (runs `chat`, `chat_release`), proofs in `ChatProofs` |
| `LineEditor` | abstract: text left and right of a cursor | refined by `InputLine` |
| `InputLine` | input line, wrapping and cursor position | `MCInputLine` (`input_line`), proofs in `InputLineProofs` |
| `PeerLookup` | abstract: lookups asked, answered once, closed | refined by `EngineLoop` |
| `EngineLoop` | `Engine::run` and `find_peer` | `MCEngineLoop` (`engine_loop`), proofs in `EngineLoopProofs` |
| `TorControl` | control connection | `MCTorControl` (`tor_control`), proofs in `TorSessionProofs` |
| `OnionCreation` | abstract: creations that go on only with what Tor granted to them | refined by `TorSession` |
| `TorSession` | the engine's commands on the control connection: composes `TorControl` with authentication and service creation | `MCTorSession` (`tor_session`), proofs in `TorSessionProofs` |
| `OnionService` | creation, channel, Tor transport listening | `MCOnionService` (`onion_service`, `onion_incoming`), proofs in `OnionServiceProofs` |
| `DialRouting` | dialling | `MCDialRouting` (`dial_routing`, `dial_documented`), proofs in `DialRoutingProofs` |
| `NetworkAddr` | parsing and writing addresses, as operators | used by the two below |
| `Connections` | `connect_list` and connection events | `MCConnections` (`connections`), proofs in `ConnectionsProofs` |
| `Startup` | command line to event loop, rendezvous commands | `MCStartup` (`startup`), proofs in `StartupProofs` |

Actions correspond to handlers: one action is one handler run to its end, since
the client is a single task that is not preempted. Only where the code waits
for someone else is a handler several actions: the steps of
`create_transient_onion_service` (each await), and reading a reply line by
line. External parties have actions of their own between them. Definitions
marked *Faulty variant* in the modules are not part of the models: each is a
plausible mistake in the definition that follows it, and shows that some
property notices it.

**Chat.** `list` and `currentIndex` are the fields of `SubscriptionList`
(`NoTab` is `None`), `subscriptions` the map of circular queues, `mesh` the
topics gossipsub has joined, `inbox` the gossipsub events not handled yet,
`outbox` what gossipsub accepted. `panic` records a panic, after which nothing
happens. `overflowChecks` is the build profile, chosen in `Init`, since
`current - 1` panics in one and wraps in the other. `journal` and `mark` are
history variables.

**InputLine.** `input`, `cursor` and the panel's inner width. `SplitEach` and
`UiInputCursor` are the two functions of the code as folds over the line.
Characters matter by identity for editing and by width (0, 1, 2) for drawing.
The panel is drawn one row high and is not scrolled (`PanelRows`): rows after
the first are computed but never seen.

**EngineLoop.** `phase` is the place in the loop. A creation of an onion service
is a phase of its own, at start-up (`startTor`) and in the input arm
(`inputTor`), in which the task waits for Tor while the network goes on.
`queryMap` and `eventQueue` are the engine's fields, `running` the completions
Kademlia still owes, `ready` the swarm's events, `shown` the answers and notices
the user has seen. Query ids are numbers in the order they are given out.

**TorControl.** `said` holds all the lines that arrive, `read` how many have been
read, `begun` how many came before the reply being read. A line is a record: the
command it answers (0 for an event), the kind of code, what follows the code
(`form`), and whether it is the last of what Tor was saying; the expressions and
the texts are abstracted away. `ReplyShapes` has the replies the code takes
whole and those it does not: data with the 250 line of Tor's protocol after
their dot, and a 250- reply with a line inside that cannot be parsed or
announces data, which ends the command with the rest unread. `EventShapes` has
events of one line and of several. A 6xx line without a second word matches the
expression of synchronous replies and the conversion then panics. When Tor goes
away the last line may be cut (`Stumps`), as the decoder returns an unterminated
line all the same.

**TorSession.** Extends `TorControl` with the engine's side of the talk: `step`
is the command the current creation waits for, `kinds` and `handed` are
histories. Tor's answers are those of `TorControl` that make sense for the
command: one line to `AUTHENTICATE`, one or several to `ADD_ONION`. The client
never subscribes to events and asks for no data, so that `SessionNext` has
neither; with them a creation could be told a stray (`LagIsStrays`) and the
refinement would be false. `granted` is what Tor has answered with 250 lines,
and a service is named by the creation whose command made it, so that a reply
taken by the wrong creation would show. A reply with a value may be a service
(`HandsOver`) or no 35 bytes in base 32, at which the client panics (`Panics`);
to `OnionCreation` that is one more failure (`Stage`). The coarse steps of
`OnionService` (`Authenticate`, `AddOnion`, `AddOnionFails`, `AddOnionPanics`) are
what this conversation amounts to.

**OnionService.** `step` is the point `create_transient_onion_service` has
reached. While it is not `"idle"` the rest of the client stands still, but Tor
may die, other processes may take the port and peers may connect. `services`
is `TorTransport::onion_services`; `listeners` and `inbound` are the TCP
listeners of the Tor transport and of the plain one, with their events.

**DialRouting.** An address is a sequence of components, `addr` the one handed
to the transport at `stage`. Dialling is synchronous, so that a behaviour is
the choice of an address and a configuration followed by at most three steps.
`--tor-proxy-address` and `EngineConfig::socks_proxy_address` vary (the latter
has no option and is set by library callers only); the Tor transport always
has a proxy, as `create_transport` sets the default one. Names resolve,
and that the connection attempt itself fails is no different from success here.
`AddressAssumption` says of an address what the parser makes of it: `/socks5`
can only come last, since all that follows it is the proxy's address. What a
property needs beyond that it says itself: `OneTarget` (one host and one port),
`ProxiesAreSockets`, `NoProxyBehindProxy`.

**NetworkAddr.** A text is a multiaddr, whose parser is libp2p's, or the words
between colons; a word says what it can be read as. The IPv6 branch of
`from_str` cannot be reached, as no word holds a colon. `AsNetworkString` goes
over the components as the code's loop does: the last host and the last port
stay. `IsText` says what a text is; that the first word is never read as a port
(`from_str` takes it for a host whatever it looks like) is part of it.

**Connections.** `connectList` counts the entries of each address; their order
in the vector is never observed. `conns` are the swarm's connections, each with
the text the user typed for it or `NoText`, `events` what the swarm will hand
over. Handling an event is one action with taking it: the loop drains its queue
in the round that took a swarm event, before it looks at input again (see
`EngineLoop`). A dialled address is reported as it was given to `dial`, and
those Kademlia dials end in the peer's id.

**Startup.** `phase` is the next call of `main` or `startup`, `"loop"` once
`Engine::run` waits for its first event. A line ends in `"usage"` (clap),
`"error"` or `"panicked"`. `present` are the optional behaviours of the swarm,
`types` and `shown` what `Engine::new` notes and the status line shows. In the
loop only the rendezvous commands are followed; the other commands belong to
the other modules. Options of Tor are left to `DialRouting`. `EngineLoop` has
all of this as its actions `Startup`, `CreationEnds` (the wait for Tor) and
`Register`, with the same two ways to end.

## The runs

| Run | Bounds | Shows |
|---|---|---|
| `chat` | 3 topics (symmetric), histories of 2, 3 messages, `usize` up to 5, both profiles | three tabs are needed for `swap_remove` to move a tab that is neither removed nor selected; three messages overflow a history of two; an index of 5 is beyond every tab |
| `chat_release` | the same, 1 message, wrapping build | Enter finds no topic under the index after the first tab was left (violation) |
| `engine_loop` | 2 peers (one the client's own), 2 queries besides the start-up bootstrap, 2 completions each, 2 events waiting, Kademlia on and off | two queries interleave with each other, with the bootstrap at start-up, with creations that wait for Tor, and with shutdown |
| `tor_control` | 3 commands, 2 events, 9 shapes of replies and 4 of events | a command before, at and after a disturbance, and two disturbances: events, replies left half read, a cut stream |
| `onion_service` | 2 concrete addresses, 1 wildcard, 2 services, 1 connection | a second service on the same target as a first, failed or not |
| `onion_incoming` | the same, 1 service | an accepted connection is lost (violation) |
| `dial_routing` | all addresses of up to 4 components with `/socks5` last; proxies by IP, by name, and by name behind another proxy | every usual form with a peer id and a proxy, several hosts or ports, and malformed ones |
| `dial_documented` | addresses of up to 3 components | the example in the comment is not dialled (violation) |
| `connections` | 3 connections, failed dials included; 9 texts of every kind the parser tells apart; others' connections from two of the addresses | a failed dial, a connection and somebody else's connection at one address |
| `startup` | discovery and NAT methods in every combination; texts of each outcome; up to 2 registrations; 1 more by command | each request succeeds, fails and is absent with each neighbour |
| `tor_session` | 6 commands, so 3 creations | a creation before, at and after a disturbance |
| `input_line` | 7 characters of widths 0, 1, 2; panel widths 3 to 5 | at least two row ends, with every character at each, and a cursor in the drawn row and past it |

Properties, by module:

* `Chat`: `CopiesAgree`, `CurrentWithinTabs` and `NeverLosesSelection` (the
  second only where overflow is checked), `PanelIsRecentHistory` (the panel is
  the suffix of what was handled since the topic was joined),
  `PublishesToSelected` and `LeavingRightKeepsSelection` (action properties).
* `InputLine`: `RowsAreGreedy` (an independent description of what
  `split_each` must return), `CursorFollowsRows` (the two renderings agree, and
  when the cursor is in the row that is drawn),
  `ImplementsLineEditor` (refinement).
* `EngineLoop`: `NoOrphanQuery`, `NoticeBeforeAnswer`,
  `ImplementsPeerLookup` (refinement, with liveness).
* `TorControl`: `LagIsStrays` (the client is behind by exactly the commands that
  were told something else than a reply), `SuccessIsWhole`, `RepliesInOrder`, and
  `CommandReturns` (liveness).
* `OnionService`: `ChannelHasRoom`, `CreatedIsBound`, `AnnouncedIsReachable`,
  and `CreatedIsAnnounced` (liveness).
* `TorSession`: `ImplementsOnionCreation` (refinement, with liveness).
* `Connections`: `EntriesCountDials` (how many entries an address has, whoever
  connected to it), `OwnConnectionsReported`, `HostAndPortKept`.
* `Startup`: `LoopMeansDone`, `RefusedWithoutRendezvous`,
  `MethodsShownArePresent`.
* `DialRouting`: `TargetIsDialled`, `NoDirectDial`, `ProxyAsAsked`,
  `UsualIsDialled`.

Deadlock is checked for `input_line`, which never stops. Elsewhere the client
may stop or panic, a dial ends, or a bound is reached, and the
configurations say `CHECK_DEADLOCK FALSE`.

### Fairness

* `EngineLoop` (`TaskGoesOn`): weak fairness of start-up, registration, redraw
  and drain, which wait for nobody; strong fairness of the swarm arm, since
  `tokio::select!` polls its branches from a random one on and so takes a branch
  that is ready again and again. `QueriesEnd`: strong fairness of Kademlia's
  completions, as every query ends at its timeout at the latest. `TorAnswers` is
  an assumption on Tor and not a promise of the code: a creation of an onion
  service ends, because Tor answers or ends the connection. With a silent Tor
  the loop stands still for ever, and every lookup with it.
* `TorControl`: `ReaderIsWoken`, weak fairness of reading a line or the end of
  the stream, is the runtime's. `TorIsAlive` is assumed: Tor answers, unless it
  goes away. Without it `CommandReturns` is false: there is no timeout.
* `TorSession`: `TaskGoesOn`, weak fairness of reading and of the engine going on
  when a command has returned; `TorAnswersInTime` is assumed as above.
* `OnionService`: weak fairness of the creation's steps, those that wait for Tor
  under the same assumption; strong fairness of polling, as the swarm polls its
  transports whenever it is polled.
* The other modules have safety properties only.

### Disagreements met

* `chat_release`: `ui.rs:154` subtracts one from index 0; the `unwrap` at
  `ui.rs:658` then fails in a build that wraps. In a build that checks overflow
  the subtraction itself panics.
* `onion_incoming`: `transports/tor.rs:189-215` drops every event of its inner
  transport but new addresses, so that no incoming connection over an onion
  service is ever seen; `README.md:6` and `transports/tor.rs:141-142` say that
  the client listens for them.
* `dial_documented`: the address `/dns/www.google.com/https/tor` of the comment
  at `transports/tor.rs:45` has no port and is dialled by no transport.

## The proofs

`ChatProofs` proves, for every set of topics, history capacity, `usize` width
and choice of profiles, from `Init` and `Next` of `Chat` and the assumptions
named there (capacity and `usize` maximum are positive):

* `TypeCorrect`: `TypeOK`; `CopiesAlwaysAgree`: `CopiesAgree`;
  `SelectionIsValid`: `CurrentWithinTabs`; `SelectionIsKept`:
  `NeverLosesSelection`;
* `PanelShowsRecent`: `PanelIsRecentHistory`;
* `PublishIsEchoed`: `PublishesToSelected`; `LeavingRightIsSafe`:
  `LeavingRightKeepsSelection`.

The inductive invariant is
`IInv == TypeOK /\ CopiesAgree /\ CurrentWithinTabs /\ NeverLosesSelection`.
None of the parts but the first two is inductive alone: that the index stays
in range when a tab goes needs that the topic left has exactly one tab
(`CopiesAgree`), and that it is not `None` needs `NeverLosesSelection`.
`TypeStep` and `CopiesStep` are proved action by action; `SelectionStep` rests
on `RemovalSelection`, the arithmetic of a removal in both profiles. The
lemmas on `swap_remove` (`SwapRemoveTab`) and on appending a tab (`AppendTab`)
carry `CopiesStep`. The two action properties follow from `IInv` before the
step: `PushLast` says that the message just echoed is the newest, and for a
tab right of the selected one `swap_remove` leaves the selected position alone.
`PanelIsRecentHistory` needs, beside `IInv`, that no mark is ahead of the
journal (`Marks`). It says where in the journal each line of a tab comes from,
so that it can be proved without recursion over the journal:
`PushKeepsRecent` moves those places on for both branches of the queue's push.

`EngineLoopProofs` proves, for every set of peers, any bounds and with
Kademlia or without, from the assumptions named in `EngineLoop`:

* `LoopTypes`: `TypeOK`; `NoneOrphaned`: `NoOrphanQuery`; `AnnouncedFirst`:
  `NoticeBeforeAnswer`;
* `LookupsAnsweredOnce`: the safety part of `ImplementsPeerLookup`, that is
  `Spec => L!Init /\ [][L!Next]_(L!lookupVars)`.

`TypeOK /\ NoOrphanQuery` is inductive alone (`StepInv`). The other two need
`LoopInv`, which adds `Queued` and `Announced`. `Queued` says that everything
queued or shown has an id given out before, that ids in the queue differ, that
the queue holds notices with Kademlia and answers without, and that it is empty
except in the drain. `Announced` says that the notice of a pending lookup
is queued or has been read. As the queue is empty when a completion is taken
from the swarm, it has been read by then. The refinement maps a completion
found in `query_map` and a drained answer to `Answer`, new queries to `Ask`,
whose freshness is that all ids in use are below `nextId` (`IdsGivenOut`), the
end of the loop to `Close`, and all else to a stutter.

`StartupProofs` proves all four properties of run `startup` for every set of
command lines and of values given to the commands, whatever the swarm and the
system refuse, from `CommandLineAssumption` and `ValuesAssumption` (which say
what clap lets through): `StartupTypes`, `LoopReached`, `Refused`,
`ShownArePresent`. Its invariant adds to `TypeOK` what each phase already knows
(`Requested`, `Made`), that a refused line has done nothing (`Stopped`), and
that without rendezvous nothing was registered (`Client`). `Client` rests on
`Made`: a request is granted by the behaviours that run, and those are the ones
asked for. What `NetworkAddr` parses an address to is used nowhere in the
proofs, so they hold for any parser.

`TorSessionProofs` proves the four safety properties of `TorControl` (`TypesHold`,
`SuccessesAreWhole`, `RepliesReturnedInOrder`, `BehindByStrays`), for any
number of commands and events and every shape of reply and event above, and
about `TorSession`, for any number of creations, `SessionTypesHold`
(`SessionTypeOK`) and `CreatesAsPromised`: the safety part of
`ImplementsOnionCreation`, that is
`SessionSpec => Creation!Init /\ [][Creation!Next]_<<...>>`. The invariant of the
connection, `IInv`, is about the lines that have arrived, read or not. `FormsFit`
says what a line's form tells about its place, `InOrder` that the lines of a
reply are together and commands are answered in order with none left out, even
in a stream cut short. `Sent` says that while the connection is open what Tor
has begun to say is said, and the other commands wait in order; `Reading` that
what is being read is all of one reply or event and has not come to an end;
`Told` that results are of lines one after the other, and that each beginning
of a reply the client has passed is the beginning of a result. This last is
what makes the client robust though it tells replies apart by their position
only: a line at which it gives up is never the first of a reply unless it is
the first it reads. `LagIsStrays` is then a matter of counting: the beginnings
read are one to one with the results in step (`PassedIsTold`, `OwnersCounted`),
so the commands without such a result are as many as the replies unread
(`UnreadAre`). `RepliesInOrder` is the same count up to one result. For
`TorSession` there are no events and no data, so that every command reads its
own reply to its end (`OwnReplies`), and an ending that is accepted is one Tor
has granted (`OnlyGranted`); each step of the creation is then a step of the
abstract one or a stutter.

`OnionServiceProofs` proves `TypesHold`, `RoomInChannel` (`ChannelHasRoom`),
`CreatedBound` (`CreatedIsBound`) and `AnnouncedReachable`
(`AnnouncedIsReachable`) from `AddressAssumption` and `BoundAssumption`. `Handed`
says that the channel holds something exactly between the send and the listen
call of one creation, and `InHand` that this is the service of the creation, on
its own target (`Target`); `TakeServices` therefore finds the service it is
called for. `Hosting` and `TorListens` say what an announcement rests on: a
service the transport knows is hosted while the connection lasts, and an
address reported by the inner transport is one a listener of the Tor transport
has bound. `Least` supplies the first of several services with one target.

`InputLineProofs` proves, for all characters and widths and any length,
all four properties of run `input_line`, from `CharAssumption`,
`WidthAssumption` and `LengthAssumption`: `CursorWithinLine` (`TypeOK`),
`EditsAtCursor` (`ImplementsLineEditor`, whole, as `LineEditor` states no
fairness), `RowsBrokenLate` (`RowsAreGreedy`) and `CursorWithRows`
(`CursorFollowsRows`). `TypeOK` is inductive alone; the refinement maps the line to
its parts left and right of the cursor, and shows for each key that cutting and
joining sequences at an index is what the editor does to the two parts.

The two properties of the rendering hold of every line, so they follow from
`TypeOK`; what has to be proved is what the two scans of the code compute. The
model has them as folds over sequences. `FoldExists` and `FoldsAgree` unfold
the definition of a fold over the positions of a sequence, and from them come,
for `Columns`, the scan of `split_each` (`Split`) and that of `ui_input_cursor`
(`Position`), the value for the empty text and one law for a character more
(`ColumnsLaws`, `SplitLaws`, `PositionLaws`), once for each of the three, as
the provers cannot instantiate a lemma that takes the step of a fold as a
parameter; `FlattenLaws` says the same of putting rows together. `ByCharacter`
then allows induction over texts, stated for sets, and derived from the least
position at which a set fails (`UpTo`). `Scanned` is what holds after each
character (`ScannedStep`): nothing is lost (`Kept`), the columns counted are
those of the row begun (`Counted`), the rows are greedy so far (`Fits`,
`Greedy`), and both scans are at the same place, except that the cursor goes to
the next row at once when a row is full, and `split_each` only with the next
character (`Placed`). `RowsGreedy` is `Scanned` of the whole line. For the
cursor, the rows of the text before it have to be compared with those of the
whole line: scanning on leaves the completed rows alone and only makes the one
begun longer (`Later`, `Grown`), so the row and the column of a character are
settled when it is scanned (`CellAfter`, with `CellIs`: no other row holds it).
The exception in `CursorFollowsRows` is the one case of `CursorPlaced` in which
the row breaks before it is full, which only a wide character does; a panel of
3 columns or more is needed because a wide character may not fill a row by
itself. `LeavesFirstRow` says when the cursor is in the one row that is drawn:
while the text before it is narrower than the panel.

`DialRoutingProofs` proves all five properties of run `dial_routing` for addresses
of any length, any proxies and both settings of `--use-tor`, from
`ComponentAssumption` and `AddressAssumption`: `TypesHold`, `TargetReached`
(`TargetIsDialled`), `NothingBypassesProxies` (`NoDirectDial`),
`ProxyIsAsAsked` (`ProxyAsAsked`), `UsualGetThrough` (`UsualIsDialled`). The
lemmas before it say what `multiaddr_get` finds after a component was appended
or replaced (`First`, `Appended`, `ReplaceKeeps`, `ReplaceFinds`). The invariant
says what each transport can be given. The SOCKS transport gets the address as
it was asked for, if it is none of Tor's; or one that was rewritten and cannot
be dialled (`Useless`: it has no host and port, and names no proxy but one that
was fit to be used); or a proxy handed on in place of the address, which only
happens if it is not given by IP address. DNS over TCP gets one of the same
three. `Rewritten` is proved of the three ways the Tor transport rewrites
(`ByTor`, `ByOnion`, `ByOption`). `NoDirectDial` rests on `/socks5` being last:
an address that still has it does not end in a host and a port.

`ConnectionsProofs` proves all four properties of run `connections` for any texts,
addresses and number of connections, from `ConnsAssumption` and
`TextAssumption`: `TypesHold`, `ListCountsDials` (`EntriesCountDials`),
`OwnOnesAreReported` (`OwnConnectionsReported`), `HostsAndPortsAreKept`
(`HostAndPortKept`). The invariant adds that a connection of the user's was
dialled as the address its text is parsed into (`Asked`), that a waiting event
tells what became of its connection (`EventsAreTrue`), and that the opening of
a connection is handled before its closing (`OpenFirst`, `CloseWaits`). The
count of entries goes by the cardinalities of the user's and of the others'
connections to one address, of which a handled closing ends one. A closing is
reported if an entry is left when its event is handled, and with none of the
others' closed there is one for each of the user's that has not ended.

But for the texts of `InputLineProofs`, induction is over steps. Where the code
takes the first of several (`multiaddr_get`, the first service with a target),
`Least` gives it: a set of numbers that is not empty has a least one, which the
library's well-founded minimum yields without an induction over an operator. The
same minimum replaces induction over texts in `InputLineProofs`.

Every invariant and every action property of the passing runs is so proved for
all values of the constants. Model-checked only is what is under fairness:
`CommandReturns`, `CreatedIsAnnounced` and the liveness parts of
`ImplementsPeerLookup` and `ImplementsOnionCreation`, which are out of the
prover's reach.

## What is not modelled

* The rendezvous protocol: requests are handed to libp2p and its events only log.
* `--tor-control-address`: parsed and stored, but read by nobody.
* `get_hidden_service_port_mappings`: nothing calls it, and it is the one user
  of data replies.
* Event conversions: renamings, but for gossipsub payloads, which are in `Chat`.
* System messages, titles, colours, scrolling, the renderer: output.
* libp2p, Tor and the operating system: environment actions, marked external.
* Terminals so narrow that the input panel's inner width is below 3, where the
  drawing code overflows or divides by zero; `InputLine` assumes this away.
* `/dnsaddr`, the form of the built-in boot nodes (`engine.rs:187`), which
  libp2p's DNS transport resolves and dials again: not among the components of
  `DialRouting`.
* Wildcard and concrete listen addresses on one port: no two addresses of
  `OnionService` share a port.
* Proxies given by name: `DialRouting` has them, but all its properties except
  `ProxyAsAsked` are stated for proxies given by IP address, as otherwise the
  proxy is dialled as a peer.

## Plan

Done, in order of importance: `Chat` with proofs, `EngineLoop` over
`PeerLookup`, `TorControl`, `OnionService`, `DialRouting`, `InputLine`,
`Connections` and `Startup` over `NetworkAddr`, `TorSession` over
`OnionCreation`.

Next modules: an abstract service (requested, hosted, announced, gone) refined
by `OnionService`; scrolling of the message panel, whose offset is shared by
all tabs.

Next proofs: the abstract service once it is written.
