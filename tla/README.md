# Verification of simple-epoll-chat

TLA+ models of the chat server and the chat client, the TLC configurations that
check them on small instances, and TLAPS proofs of what holds for any number of
clients, descriptors and messages. Source files are named relative to the
repository's `src/` directory, as in `chat/Server.cpp:21-40`.

## 1. The system

Two programs, each a single thread in an edge-triggered epoll loop.

| component | state | operations | what makes it correct |
|---|---|---|---|
| `utils::Poller` | `subscribers_`, `is_stopped_`, the kernel's epoll set, the batch of events in `Run()` | `Subscribe`, `Unsubscribe`, `Run`, `NotifySubscriber`, `Stop` | a handler runs only for an event of its own object, although handlers close and reuse descriptors in the middle of a batch; `Stop()` ends the loop |
| `net::TcpConnectionReceiver` | listening socket with its backlog | `Bind`, `OnIn` (accept loop) | every waiting connection is accepted or refused |
| `net::TcpSocket` | descriptor, `connected_`, `connection_timeout_` | `Connect`, `SendData`, `OnIn`, `OnOut`, `OnError`, `OnClosed`, `OnTimeout` | no edge is lost; one end is reported; data comes after the connection |
| `chat::Parser` | `data_to_parse_` | the `Build` functions, `ParseData` | what is parsed is what was built, however the stream is cut; the buffer is bounded |
| `chat::ServerConnection` | socket, nick name | passes data, texts, ends on | - |
| `chat::Server` | `incoming_connections_`, `incoming_connections_counter_` | `OnNewConnection`, `OnTextMessage`, `OnConnectionClosed` | the limit; unique nick names; texts relayed once, in order, to all others; counts and leave messages agree with who is there; only dead connections are removed |
| `chat::ClientConnection` | socket | passes messages and ends on | - |
| `chat::Client` | `client_connection_` (null after `CloseClient`) | `OnMessageRead`, `OnConnected`, `OnConnectionTimeout`, `OnConnectionError`, `OnConnectionClosed`, `OnReaderClosed` | one reason for the end; lines in order; the program ends |
| `utils::Timer` | timerfd | arm, `OnIn` | a connection attempt ends |
| `cli::StdInputReader` | stdin | `OnIn` | lines become messages |
| `cli::StdOutputWriter` | the last 100 messages, three status lines; the screen | `WriteMessage`, `UpdateScreen`, `PrintText`, `ResetInputLine`, `WriteError` | messages above the line of input, in order; what the user has typed of a line stays as it is |
| `utils::Process` | lock file, process | `BecomeDaemon`, `BecomeSigleInstance` | one server serves at a time; a forced start closes the one that runs, and kills no other process |
| `utils::OptionsParser`, `net::SocketAddress`, `utils::Exception`, the two `main` functions | - | run once at the start | - |

How they interact: everything is a call from `Poller::NotifySubscriber`. The
poller calls the handler of a socket, the socket reads and calls its connection,
the connection parses and calls the server or the client, and these call back
into sockets (`SendData`), destroy them (`RemoveClient`, `CloseClient`), which
unsubscribes them from the poller whose loop is still on the stack, or create
them (`accept`, which subscribes). There are no threads. What is concurrent is
the kernel: peers connect, write, close and reset at any time, also between two
handlers of one batch of events; the user types on the screen that the client
draws on; and several servers may be started on one lock file.

The behaviours that are hard to get right and hard to test:

* a descriptor in the batch, or the pointer `NotifySubscriber` holds, may be
  stale when it is used (`utils/Poller.cpp:95-112`);
* the descriptors are edge-triggered: what a handler leaves unread is not
  reported again (`net/TcpSocket.cpp:72-100`, `net/TcpConnectionReceiver.cpp:67-89`);
* data, end of file and errors may be met by one call of `OnIn`;
* clients join and leave between the halves of a message and while the list of
  clients is being sent to;
* `Stop()` only takes effect after the batch, whose handlers run on objects that
  `CloseClient` has destroyed;
* a byte stream is cut anywhere, and a message grows on its way through the server;
* the lock of a server does not survive a fork, goes with its process, and may be
  gone between being refused, being asked for and being signalled; the port lags
  behind it (`utils/Process.cpp:78-136`, `net/TcpConnectionReceiver.cpp:48-52`);
* the screen is drawn from the bottom to the top, with the cursor moved away from
  a line the terminal is echoing to, and a drawing that is longer than the buffer of
  stdout leaves in several writes, between which the user may type
  (`cli/StdOutputWriter.cpp:23-122`).

`PROJECT.json` lists each of these under `hazards` with the line where it bites
and the properties that watch it.

## 2. The modules

```
Poller ------------- PollerProofs         Parser ---------- ParserProofs
  |  \                  |                   |                 |
  |   ChatClient --- ChatClientProofs       TextPath -------- TextPathProofs
  |                     |                   (two Parsers)
  |   ChatRoom ----- ChatRoomProofs
  |  /                  |                  SingleInstance --- SingleInstanceProofs
ChatServer --------- ChatServerProofs      Console ---------- ConsoleProofs
```

**Poller** is the loop of `utils::Poller` with handlers that are only
constrained by a discipline: `Opens` names the objects whose handlers create
others, `Closes[s]` the objects a handler of `s` may destroy. The batch of events
is a set of descriptors with their bits (`events`), the event being dispatched is
a pointer with the bits that are left (`current`). `EpollWait` takes edges off
the ready list, with the state the descriptor has at that moment; `Notify`
resolves a descriptor to a pointer; each bit is one step (`Handler`), in the
order of `NextBit`; `Skip` is the case in which the pointer is no longer
subscribed. Addresses and descriptors are reused freely. The ghost `live` of an
event says whether the registration it was reported for still exists; no action
depends on it. This module is the abstract specification of the two programs:
`ChatServer` and `ChatClient` are built from its operators and refine it
(`PollerContract`).

**ChatServer** is the process `chat_server` with its peers. One action is one
handler, or one turn of the accept loop: `Admit` and `Refuse` are
`OnNewConnection`, `OnData` is `TcpSocket::OnIn` up to `EAGAIN` with everything
`ParseData` and `OnTextMessage` do, `OnClosed` is the end of file, error or
hang-up with `RemoveClient` and the messages it sends. A peer is one connection:
`peer[p]` goes from idle to up, then fin or rst, then gone. A text is two halves,
so that a read can end inside a message. `outbox[q]` is the sequence of messages
given to `SendData` for `q`; a send to a peer in `Slow` may fail and then leaves
`Lost`; so does one that takes only a part of the bytes, of which the rest is never
sent (`net/TcpSocket.cpp:61-66`). What is written to a peer that has closed is kept in its `outbox` like
anything else; no property looks at who has gone.

**ChatRoom** is what the server promises its clients, without sockets, descriptors
and events: members come (`Join`), say one or several texts at once (`Say`) and
leave (`Depart`), and each of these puts its messages into the inboxes of the
others in one step. It is an abstract specification: ChatServer implements it
(`RoomContract`) with `incoming_connections` as the members, `outbox` as the
inboxes and as many texts said as the server has read both halves of.

**ChatClient** is the process `chat_client` from `Run()` on: the socket, its
timer and the standard input in one loop, with `Client` behind them. `CloseClient`
destroys socket and timer and asks the loop to stop; the rest of the batch is
still dispatched. `crashed` is the use of the null `client_connection_`, which on
the platforms of epoll ends the process. The standard input is a terminal
(`StdOutputWriter` does not start without one), so it can always be written and
reports all bits when it hangs up.

**Parser** is `chat::Parser` on one direction of a connection. A message is a
header and one or two texts; a byte is one of the values the parser tells apart.
`ParseMessage` is one turn of the loop of `ParseData`: instead of following the
calls of `GetNextByte`, the model says which prefix of the buffer they consume
(`Stops`) and what they make of it (`Parsed`). `reference` is a history variable:
the same decisions taken byte by byte. `WritesSendable` says of the messages that
they fit: what `Parser.cpp:117` lets through, one byte more than the limit, and a
count that `std::to_string` has written.

**TextPath** is two Parsers in a row: client to server, and server to another
client, with the server's `OnTextMessage` in between and the messages about
counts mixed in.

**SingleInstance** is `main` of `chat_server` up to `Run()` in every process that is
started: `BecomeDaemon` with its two forks, the attempts of
`BecomeSigleInstance`, each with its `F_SETLK`, `F_GETLK`, `kill` and sleep as
steps of their own, and `Bind`. `After` is the order in which `main` calls them.
The kernel is external: the lock belongs to a process and goes with it, a process
that was sent SIGKILL may take more steps until it dies, and the port is given
back some time after the lock, because a process that ends closes the lock file,
which has the lower descriptor, before the listening socket. A graceful end gives
the port back first, which nobody without the lock can tell. `kills` remembers
for each signal whom `F_GETLK` had named and whom the signal hit.

**Console** is the user's side of the client: a terminal with rows, a cursor, its
echo and its lines of input, what `StdOutputWriter` prints on it, and the parts of
`Client` and `StdInputReader` that call it. A handler changes the fields and puts
what it prints in `output`; the terminal gets that one text or escape sequence at a
time (`SaveCursor`, `PrintNext`, `RestoreCursor`, `EraseInput`), the user may type
between any two of them, and the next handler runs when all is written. So the model
has every order of echo and drawing that the writes of stdout allow, wherever its
buffer is full, and `saved` is the cursor that the terminal keeps meanwhile. A write
may also end inside a text or an escape sequence: of a drawing that was typed into
(`torn`, and `strayed` for any of them) the properties say nothing, at whatever byte it
was, and what they say of the next one holds for every screen it may start
from. `Home` is the place of the line of input: that of the cursor or, in the middle of
a drawing (`Away`), the saved one. The terminal does what xterm does with the sequences the code uses
(`CSI F`, `CSI K`, `CSI M`, save and restore of the cursor, the delayed line break
at the right margin). `line` is what the terminal still edits, `input` what it has
handed over, with the newlines in it, and `eof` the end after that; `OnIn` takes all
of it as one message without its last character, as `StdInputReader::OnIn` does
when several lines wait. The module ends with the first end of the connection; what
a line that is read after it does is the finding of `client_null`.

In each module the operators introduced as "faulty variant" are plausible bugs
of the code. They are not part of the specification; each property is shown to
fail when one of them takes the place of the operator it is a variant of.

## 3. What is checked

| run | properties | bounds |
|---|---|---|
| `poller` | `PollerInv`, `HandlerOwnsEvent`, `StopTerminates` | 3 objects, 3 descriptors, batches of at most 2 |
| `server_members` | `TypeOK`, `SubscribersMatch`, `NicksUnique`, `CountIsCurrent`, `LeavesMatchCounts`, `LeaveIsFinal`, `OnlyDeadPeersRemoved`, `PollerContract`, `RoomContract` | 3 connections, limit 2, one of them writes a text in halves, one is slow, accept errors |
| `server_relay` | `TextsInOrder`, `DeadPeersRemoved`, `TextsRelayed`, `BacklogDrained` | 2 connections, limit 2, two texts of one and one of the other, in halves |
| `client` | `TypeOK`, `SubscribersMatch`, `OneReason`, `ConnectedFirst`, `LinesInOrder`, `PollerContract`, `ConnectingEnds`, `EndsWithConnection`, `EndsWithInput`, `MessagesShown` | 2 messages, 3 lines |
| `parser` | `ParsedAsSent`, `ChunksDoNotMatter`, `BufferBounded` | 3 messages or pieces of junk, length limit 6 |
| `path_short` | `TextsIntact`, `NothingMissing` | 3 texts, 1 count, length limit 7 |
| `single_instance` | `TypeOK`, `OneInstance`, `LockerIsHit`, `StartEnds`, `RunningIsClosed` | 3 servers (plain; forced; forced daemon), 2 attempts, 5 process numbers |
| `console` | `TypeOK`, `InputShown`, `SentAsTyped`, `PrintedAbove` | 11 rows of 2 columns, 3 messages of which 2 are kept, 3 keys typed, each letter or Enter, one Ctrl+D inside a line |

Why the bounds are enough. The loop's hazard needs an event whose descriptor is
closed and taken over before its turn: two connections and a listener in one
batch. With a limit of two and three connections, the third is refused or takes
over the descriptor and the place of one that left, in every order of coming and
leaving; the theorems about the server say the same of any number. `MaxEvents` is 2 in `poller`, so that batches
are cut; in the programs it is 64, more than their objects. Texts of two halves
with two texts in a row show every position of a cut: before, inside and after a
message, with a client joining in between. The client has one connection and one
timer; two messages and three lines let every pair of events meet in one batch
before, while and after it is connected. The parser's limit is small enough for
the buffer to overflow at every position of a message. Three servers are one that
runs and two that compete for its place, one of which forks; two attempts are
enough for one to fail and the next to find another locker. `Attempts` is 20 in
the code. On the screen the longest picture
(two messages of two rows each and the lines of the client) takes all rows above
the input, so that it fits, and is too high once Ctrl+D in a line has moved the
cursor up; three keys are enough for a line that is longer than a row, for two lines
that are read together, and to type before, into and after a drawing. `Limit`, `Halves`,
`MaxMessages`, `MaxLines`, `MaxWrites`, `MaxTexts`, `MaxInfos`, `MaxLog`,
`MaxTyped` and `MaxFlushes` bound the inputs only; `Limit` is also the server's own limit (10 in `chat_server.cpp:16`).
`CHECK_DEADLOCK FALSE` is set where all peers may be gone and all input used up:
a server without clients waits, and rightly so; the same holds of a client whose
user types nothing and of servers that have all ended.

Fairness. `WF_vars(Server)`, `WF_vars(Client)` and `WF_vars(Run)` say that the
one thread of the process keeps running: `epoll_wait` returns when something is
ready, handlers have no blocking call (all descriptors are non-blocking,
`utils/Poller.cpp:80-93`) and return. Within a batch the order is arbitrary, but
a batch is finite. In the client the timer goes off in the end, because
`timerfd_settime` armed it (`utils/Timer.cpp:25-33`). In SingleInstance
every process is scheduled (`WF_vars(Step(p))`) and SIGKILL is delivered in the
end (`WF_vars(Dies(p))`); no server has to start or to end of its own. Nothing is
assumed of peers, network or user: no liveness property needs them to do
anything.

Runs that find a violation, each a disagreement between the code and what its
comments or its README say (`findings` in `PROJECT.json`):

* `server_last_words` - a complete text that `OnIn` reads together with the
  sender's orderly end is dropped with the local buffer.
* `server_accept_error` - after an error of `accept()` the loop ends although
  more connections wait; without a new edge they wait on.
* `client_null` - connection end (or timeout) and a typed line in one batch:
  `OnMessageRead` uses `client_connection_` after `CloseClient` reset it.
* `path_desync` - the server adds the nick name to a text it accepted; when the
  result is too long, the receiving parser gives up in the middle of it, reads on
  there and loses a later text.

More disagreements are in the models and in the list of hazards, without a run of
their own: `current_message_lenght_ > MAX_MESSAGE_LENGTH` lets one byte more
through than the limit (`chat/Parser.cpp:117`); a text is lost for a client to
which `send()` fails or of which it takes a part (`Lost`; `TextsInOrder` therefore
speaks of the others); lines read together with Ctrl+D are not sent; a forced
start may close the server that runs, get its lock and then fail because the port
is not free yet (`BindFails`), so that no server is left; and a daemon opens the
lock file after `chdir("/")`, so that a relative directory means another file than
for a server that is none, and the two do not see each other.

What `InputShown` and `PrintedAbove` leave out are limits of the drawing that a
user can see. A key that is typed into a drawing is echoed where the cursor is at that
moment, in the row of a message or as a new row, and the cursor is then restored to
where it was before: the letter is missing in the line of input, though it is sent. A
drawing of up to 1024 bytes, the buffer of stdout on a terminal, is one write; a longer
one, as that of 100 messages, is several, and a key may come between them. The next
drawing puts the messages right, not the line. Further, what is typed before an entered line was read is drawn over, a line
that is wider than the screen leaves its upper rows to the next drawing, Ctrl+D
in a line makes the program move the cursor up one line too many, joined lines
bring their newline into the picture, and once the picture is higher than the
screen its first row shows whatever was printed there last.

## 4. What is proved

TLAPS checks these for all values of the constants under the named assumptions
of the modules (`PollerAssumption`, `ServerAssumption`, `ClientAssumption`,
`ParserAssumption`, `TextPathAssumption`, `InstanceAssumption`,
`ConsoleAssumption`: disjoint names, natural bounds, the discipline, texts without
separators, a terminal of at least one column and three rows) and
`RoomAssumption` of ChatRoomProofs. Every safety property that a passing run
checks is a theorem here.

* **PollerProofs.** `PollerInvariant`, `TypeCorrect`, `HandlersOwnEvents`,
  `BatchIsNotStale`. `HandlerOwnsEvent` is not inductive by itself. `PollerInv`
  adds that registered objects and open descriptors correspond one to one, that
  each live event of the batch has an open descriptor that the running one does
  not share, and the heart of it, `OpenersKeepBatch`: where handlers open
  descriptors, no event of the batch has lost its owner. This is where the
  discipline is needed. The server opens descriptors, but a handler destroys only
  its own object, whose event has left the batch; the client destroys objects
  whose events are still in the batch, but opens nothing that could take over
  their descriptors. `HandlerAtWill` has neither restriction and breaks the
  property.
* **ChatServerProofs.** `ServerKeepsPollerContract`: every step of the server is
  a step of the loop or a stutter, so the theorems about the loop hold of it
  (`ServerHandlersOwnEvents`). `ServerInv` then gives `ServerTypeCorrect`,
  `ServerSubscribersMatch` (the limit included) and `ServerNicksUnique`.
  `ServerOnlyDeadPeersRemoved` needs `DeadInv`: a hang-up in the batch is a
  reset of the connection that now has that descriptor, which holds because no
  event in the batch is stale, and no connection is in the backlog and admitted
  at once.
  The second half of the module is `ServerKeepsRoomContract`: `Admit` is `Join`,
  `OnClosed` is `Depart`, `OnData` is `Say` when it completes a text, and every other
  step leaves the room alone. `Newcomers` is the invariant that is needed for it: a
  connection in the backlog has no nick name yet. The theorems of the room, cited
  through an instance of ChatRoomProofs, then give `ServerCountIsCurrent`,
  `ServerLeavesMatchCounts`, `ServerLeaveIsFinal` and `ServerTextsInOrder`: the
  sockets, batches and descriptors do not appear in these proofs at all.
* **ChatClientProofs.** `ClientKeepsPollerContract`, `ClientTypeCorrect`,
  `ClientSubscribersMatch`, `ClientOneReason`, `ClientConnectedFirst`,
  `ClientLinesInOrder`. The invariant `ClientInv` contains `Told`: an event that
  reports input has something to read, and one of the socket is dispatched with
  its OUT bit first unless the socket is connected already.
* **ChatRoomProofs.** `RoomCountIsCurrent`, `RoomLeavesMatchCounts`,
  `RoomLeaveIsFinal`, `RoomTextsInOrder`: what a client hears, for any number of
  clients, limit and texts, with any of them deaf. The invariant `RoomInv` says
  who is a member, what nick names stand for and that nobody is heard of who has
  not come; each theorem then follows what one step appends to an inbox
  (`JoinGets`, `DepartGets`, `SayGets`), so that no argument is about a whole
  history. `RoomTextsInOrder` needs that the texts heard of one speaker are an
  interval that ends at what it has said while both are there.
* **SingleInstanceProofs.** `InstanceTypeCorrect`, with the attempts that are left
  (`AttemptsLeft`); `InstanceOne`, which is inductive with the types;
  `InstanceLockerIsHit`, which assumes `~PidReuse`: between `F_GETLK` and `kill`
  a number stands for the process that was named or for none (`NamesMatch`),
  because each living process has a number of its own that was given before.
* **ParserProofs.** `ParserBufferBounded`; `ParserChunksDoNotMatter`, for any bytes
  whatever, and `ParserParsedAsSent`, for messages that fit (`WritesSendable`: a
  user may type more, and nothing in the sender's code prevents it). The parser's
  reference is a fold over the bytes. The proof writes out the function that
  `FoldLeft` stands for as a run of states, one for each byte, and does induction
  over it with the smallest number at which a claim fails (`SmallestIn`), because
  an induction theorem with an operator for its parameter cannot be used.
  `ChunksDoNotMatter` becomes inductive with what is true inside the loop: the rest
  of the buffer brings the parser to where the single bytes brought it.
  `ParsedAsSent` needs `Framed`: the bytes that are on their way, behind those that
  wait in the buffer, can be cut into the messages that were sent and not parsed
  yet. That a message ends where it was built to end and not before
  (`BuildEnds`), and that its fields come out as they went in (`ParsedBuild`), are
  lemmas about the operators for texts of any length.
* **TextPathProofs.** `PathTextsIntact` and `PathNothingMissing`, both where all
  texts fit on both ways (`AllFit`, of which `path_desync` shows that it is needed).
  Each direction implements Parser, so the theorems of ParserProofs hold of it
  through an instance; what remains is the server between them: what it has relayed
  is, in order, what it has parsed, with the counts mixed in.
* **ConsoleProofs.** `ConsoleTypeCorrect`, `ConsolePrintedAbove`,
  `ConsoleInputShown`, `ConsoleSentAsTyped`, on a terminal of any size. All that is
  drawn is a fold: of characters into the screen, of the parts of a text, of the
  texts of a picture, and the picture itself. `Fold` stands for the four of them, so
  that the induction is done once (`FoldInvariant`). `Drawn` is the
  statement that it carries: after some of the texts the cursor is above them, each
  row above the place where it started holds its row of the picture, and no row
  below has changed. `Queued` says of what waits to be written that its escape
  sequences and texts come in the order of a drawing (`Chain`) and that it ends with the
  drawing of the present fields, or with what is left of that; `Underway` that of this
  last drawing as much is `Drawn` as was written, if nothing was typed into it.
  `Recent` says that the messages that are kept are the last
  ones. `InputShown` is not inductive: `CursorLow` adds that while a line
  waits to be read, or is about to be erased, the line of input is in the last row (as
  many Ctrl+D as there were aside), so that moving up one line leads to the line that
  was entered, and `InputKept` that the rows below it are empty, so that the row that
  takes the place of the removed one is an empty line of input, and that a drawing
  stays above it (`PrintTextAbove`). `SentAsTyped` needs
  that what can be read ends with an entered line (`LinesEntered`), because a
  message is read without its last character.

Only model-checked are the liveness properties (`StopTerminates`,
`DeadPeersRemoved`, `TextsRelayed`, `BacklogDrained`, `ConnectingEnds`,
`EndsWithConnection`, `EndsWithInput`, `MessagesShown`, `StartEnds`,
`RunningIsClosed`): fairness and ENABLED are out of the prover's reach. What a
theorem assumes and the constants do not say (`WritesSendable`, `AllFit`), TLC
evaluates as an assumption of `MCParser` and `MCTextPath`.

## 5. What is not modelled

* Errors of `epoll_ctl`, `fcntl`, `timerfd_*`, `socket`, `listen`, `fork`, `open`,
  `ioctl`, which are exceptions that end the program. In SingleInstance they are
  among the ways a server ends (`Ends`).
* What the receiver makes of a message of which only a part was sent: for the
  server it is lost, and Parser has streams with bytes that are no message.
* `utils::OptionsParser` (a `getopt` loop), `net::SocketAddress` (the conversion
  of an address) and `utils::Exception` (a text): they run once, keep no state
  that changes afterwards and have no step that another one could interleave.
* The conversion of the timeout to a `timespec` (`utils/Timer.cpp:27-28`), which
  is exact for the only timeout there is.
* A terminal whose size changes, or with no columns or fewer than three rows; NUL
  bytes in the input; an input event without input.
* Numbers in messages beyond one digit sequence, and texts beyond a few bytes.
* A server with another port or another lock file: it does not compete.

## 6. Plan

Done: every component with state of its own, the abstract room and its
refinement, and the theorems above. Left, for a reader who wants more of it:

1. **SocketStream** - `SendData` at the level of bytes, composed with Parser: what
   the receiver makes of a truncated message, and how many messages it loses.
2. A larger `server_relay` with a slow client under fairness (three connections
   take more than two million states).
