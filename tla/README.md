# A TLA+ development of lexidb

lexidb is a single-threaded, in-memory data structure server in C (`src/src/`),
with a client library (`hilexi.c`) and a command line client. This directory
holds TLA+ modules of its core, the TLC configurations that check them on small
instances, and TLAPS proofs of the central results for all instances.
`PROJECT.json` lists components, runs, mutants, findings, hazards and theorems,
and maps each definition to the lines it models.

## Inventory

| Part | Source | State | Operations |
|---|---|---|---|
| event loop | `ev.c`, `ev_epoll.c` | handlers per descriptor, `max_fd`, the kernel's interest set, fired events | add, delete, poll, dispatch |
| connections | `server.c` | `s->clients`, a client struct per connection (buffer, builder, login, database) | accept, read, write, close |
| commands | `server.c`, `cmd.h` | `num_databases` databases of dict, vec, queue, set; `cmd_executed` | `execute_cmd` and the `execute_*` functions |
| hash table, set | `ht.c`, `set.c`, `object.c` | chains in slots, capacity | insert, try_insert, get, delete, resize, iterate |
| vector, queue | `vec.c`, `queue.c` | array with capacity, linked list | push, pop, find, remove_at, enque, deque |
| string | `vstr.c` | small form inline, large form on the heap | new, from, format, push, reset |
| protocol | `builder.c`, `parser.c` | bytes built, input left | add_*, parse, parse_from_server |
| client library | `hilexi.c` | builder, read buffer, socket | connect, log in, one request and one reply per call |
| command line | `lexi-cli.c`, `line_parser.c` | none | read a line, call `hilexi` |
| start-up, shutdown | `server.c`, `clap.c`, `config_parser.c`, `networking.c`, `util.c` | options, settings, users, what is allocated | `server_run`, `server_new`, SIGINT, `server_free` |

How they interact: `ev_await` polls and calls the handler registered for each
fired descriptor. `server_accept` makes a client and registers it for reading;
`read_from_client` finds the client by descriptor, reads until `EAGAIN`, parses
once, executes, registers the descriptor for writing; `write_to_client` writes
the builder and deletes the write event. Handlers change ev's tables while a
round of events is being dispatched. The peers act at any time in between; the
library's is one of them, with a nonblocking socket on which it spins. SIGINT
ends the loop when it interrupts the poll, and `server_free` follows. Before all
that `server_new` turns the command line and the configuration file into a
listening socket, users and databases, with some fifteen early returns.

What is hard here: descriptors and heap cells are reused while old events,
masks and pointers are still around; reads and writes may be partial; several
commands may arrive in one read, or one in several; allocations fail half way
through an operation; tables are rebuilt under iterators and lookups; strings
change representation one byte from a limit; every command has its own rule for
who frees its arguments; a call of the library that fails leaves bytes behind
for the next one. The `hazards` of `PROJECT.json`
give each with its line.

What makes each part correct: the event loop knows exactly what is registered;
a connection sees only its own state; commands are atomic, isolated between
databases and connections, and change nothing when refused; the table is a
dictionary, the vector a stack, the queue first in first out, and every object in
them is freed once; a string holds what was pushed, in bounds; what one side of the
protocol writes the other reads, and half a message is never a command; a call
gets its own answer; a server that runs is the one its file describes.

## Modules

| Module | Models | Uses |
|---|---|---|
| `EventLoop` | `ev.c` tables and the epoll interest set, with an arbitrary caller | |
| `Commands` | `execute_cmd` as operators on the server state | |
| `Store` | the abstract server: connections execute commands atomically | `Commands` |
| `Connections` | the running server and its peers | `EventLoop`, `Commands`; implements `Store` |
| `Dict` | an abstract dictionary | |
| `HashTable` | `ht.c` over objects | implements `Dict` |
| `Containers` | an abstract stack, line and set | |
| `Collections` | `vec.c`, `queue.c`, `set.c`, and who owns the objects in the four collections of a database | `HashTable`; implements `Containers` |
| `Vstr` | `vstr.c` | |
| `Protocol` | `builder.c`, `parser.c`, the requests of `hilexi.c` | |
| `LineParser` | `line_parser.c` and `execute_cmd` of `lexi-cli.c` | `Protocol` |
| `Exchange` | messages and typed lines on their way through both parsers | `Protocol`, `LineParser` |
| `Client` | `hilexi.c` and the loop of `lexi-cli.c` on a TCP connection | |
| `Startup` | `server_run`, `server_new`, `clap.c`, `config_parser.c` | |
| `MC*` | constants for TLC | |
| `*_proofs` | theorems and proofs | |

**EventLoop.** `mask`, `max_fd` are `ev->events[].mask` and `ev->max_fd`,
`interest` is what epoll watches. `ev_add_event` has its early return for a
descriptor out of range and the MOD or ADD that may fail; `ev_delete_event` has
the scan for the next lower `max_fd` and both `ev_api_del_event` calls;
`close_fd` is the kernel forgetting a closed descriptor.

**Commands / Store.** Each `Execute...` operator returns the set of outcomes of
one command: new server state, new client state, reply. With `OutOfMemory` the
outcomes include each allocation that can fail, with what the code has already
done by then (a ZSET may have grown its table). `Store` adds connections, which
come, go, and all end with the server (`Shutdown`).
Keys and values are opaque and compared by equality; the cases in which
`object_cmp` and the hash do not do that are in `HashTable`.

**Connections.** Kernel state (`file`, `backlog`, `sock`), loop state (`fired`,
`cur`), the heap (`heap`, `live`, `clients`), and `st`. One action per outcome
of a handler: for instance `server_accept` is `AcceptFails`, `AcceptOk`,
`AcceptRegisterFails`, `AcceptCreateFails`, `AcceptPushFails`. A freed struct may
keep or lose its bytes (a choice), and freeing twice ends the process. A read
handler is one step (its loop takes what has arrived); a write handler is one
step per `write()`, because what the peer reads in between matters. Bytes are
tokens: a command is one token or a head and a tail, a reply `reply_len` tokens.
The order in which the kernel lists fired events is arbitrary. A SIGINT counts
where it interrupts the poll (`ServerStops`): `ev_api_poll` returns -1, `ev_await`
ends, and `server_free` frees the clients of the vector and closes. Its vector is
the one `server_run` copied at the start, so a vector that has been reallocated
since (`moved`) is freed memory; descriptors of `Inherited` are open from the
start, which is how a descriptor out of ev's range arises with few connections.
The handlers are registered with the address of `server_new`'s local struct
(server.c:363), which has gone out of scope when they run. The model takes its
storage to last: at the `-O2` of both build types of `CMakeLists.txt`, `server_new` is inlined into
`server_run`, its only caller, and shares its frame. What another compiler makes of
it is not modelled, but that it is not the struct `server_free` sees is (`moved`).

**HashTable.** `entries` is the array of chains. An object is what it means plus
`rep`, the bytes its meaning does not determine; `hash` is a constant, so
collisions are chosen by the instance.

**Collections.** A behaviour works on one collection, `part`: the dictionary, the
vector, the queue or the set of a database, or clap's table of options. The vector is its
slots and its length, with the stale slots a pop leaves; the queue is its nodes
and their next pointers; the set is a second table. `heap` holds what the parser
has allocated and nobody has freed: a key is on the heap when its `rep` is not 0,
a value is known by its address. Each action is the command's container operation
with the frees the code makes around it, in the code's order, so that a second
free of something shows.

**Vstr.** The struct with both forms, the buffer's length as its capacity, and
allocation failures as choices. `vstr_new_len` beyond the limit fails its assertion
and has no step.

**Protocol.** Bytes are one-character strings. `builder_*` and `parse_*` are
operators with the source's names; `Hang` stands for a call that does not
return, be it a loop that does not end or the assertion on an announced length
beyond the limit of a string (vstr.c:30). `Exchange` cuts a message in every possible way and parses each piece, as
the readers do; a typed line goes through `parse_line`, the library's call and the
server's parser. `Spellings` gives the ways to type a request.

**Client.** The library's `builder`, `read_buf` and socket, the connection in both
directions as tokens that the network delivers in any pieces, and a server reduced
to what its peers see: one reply per request it reads whole, an error for anything
else, and it may die. One action per `connect`, `write` and `read` result, and one
for a request that cannot be built: the builder then keeps the part of it that was
added, or, when it was still in its small form, has no buffer any more and refuses
every later request (`NoBuffer`), or is a struct of zeros (`Zeroed`). `clean`
remembers whether the running call began with nothing under way and none of its
pieces was cut.

**Startup.** `phase` is the next call `server_run` or `server_new` makes; each has
an action for its success and one for its failure, with the frees of that early
return in `held` and `twice`, and what nothing points to any more in `leaked`. A
command line is a sequence of words, a file a sequence of lines, each a directive
with its values and whether only they stand on the line; numbers wrap at `Word`.
`Long` are the words that a string keeps on the heap. The address of the server
struct is copied after the configuration was freed (server.c:320, 336): of a long
one, `vstr_from_addr` copies anything.

## Runs

All run with `tlc -config X.cfg M`; the longest takes about two minutes.

| Run | Bounds | Shows |
|---|---|---|
| `store` | 2 connections, 2 databases, initial capacity 1, 3 executed commands (`MaxExecuted` of `MCStore`), failing allocations | isolation, refusals, capacities |
| `connections` | 2 connections, 2 cells, login and SELECT, 2 segments each, commands cut in two or two in one read, a read buffer that has to grow, replies of 2 tokens, a send buffer that one fills, close and SIGINT at any time | implements `Store`; replies whole and in order, over writes that block; clients = watched descriptors, no state crosses over |
| `connections_limits` | 3 connections, descriptors run out or are taken from the start, one failed allocation in accept or in a read buffer that has to grow, resets and SIGINT at any time | types and bounds of the buffers; the same of clients and state at the limits; only a reset kills; `max_fd`, ev's table and epoll's interest set in step; a stop loses and leaves nothing |
| `connections_live` | 2 connections, 2 requests each, fairness | acceptance and answers |
| `collections` | 4 colliding keys, one of them on the heap, capacity 1 doubling; 4 values, vector capacity 1 doubling; 2 failed allocations | implements `Dict` and `Containers`, iterators complete, every object freed once |
| `vstr` | small limit 3, large limit 6, failing allocations | bounds, contents, terminator |
| `exchange` | all requests, keys with line ends and two-digit lengths, every kind of reply, lines for every command in several spellings | both directions and every cut, and the command line |
| `client` | 4 calls, requests of 2 and replies of 3 tokens, send buffer 3, read buffer 2 doubling, one failed allocation, a server that may die | answers belong to their calls, calls return |
| `startup` | command lines of up to 4 words, files of up to 3 lines, one failing call | settings and users as written, the address bound, frees and leaks |
| `connections_stale_mask`, `collections_long`, `startup_address` | those of the run above them | disagreements, below |

`EventLoop` has no run of its own: its invariants are checked in
`connections_limits`, and proved for an arbitrary caller.

Why the bounds suffice: every branch of the code depends on comparisons of two
neighbours (full or not, first or not, same descriptor or not), so two of each
actor, and limits small enough to be crossed twice, reach every branch; the
runs between them fire every action. Three connections are needed for the
vector to grow (`VEC_INITIAL_CAP` is 2), which `connections_limits` has.
Connections and cells are interchangeable, and the invariant runs declare them
symmetric. So is `ImplementsStore`, a step property that does not name a
connection. The liveness run declares no symmetry.

`CHECK_DEADLOCK FALSE` is used where the system really may stop: a server whose
peers have all finished waits in `epoll_wait`; a killed process and a parser
that does not return do nothing more; `Store` stops at its bound.

Fairness: `WF(ServerStep)`, because the server has one thread which the kernel
schedules and whose steps do not wait except in the poll; `WF(PeerRecv(c))`,
that a peer goes on reading its replies (up to `MaxTaken`). Nothing is assumed
about peers sending, closing or resetting, and SIGINT is not fair. In `Client` the
client's steps inside a call are weakly fair (it is one process, and its loops
spin rather than wait), and so are the delivery of what is on the wire and the
server's answers; the user, a death of the server and failing allocations are not.
`Startup` states no fairness: its properties are invariants.

### Disagreements found

The runs that expect a violation each show the code doing something other than
what a comment or the documentation says:

* `connections_stale_mask`: closing with the fired mask leaves a write event
  behind (server.c:541); the next owner of the descriptor cannot be registered,
  and its freed client stays in `s->clients` (server.c:497).
* `collections_long`: the hash covers the pointer of a long string (ht.c:248), so
  a GET of a stored long key finds nothing.
* `startup_address`: an address with a part above 127 behind its first is bound as
  another, 192.168.1.2 as 63.168.1.2 (networking.c:73), where `src/lexi.conf:11`
  calls it "the address to bind to".

Met while modelling, present in the models, and left without a run:

* a short `write()` is followed by one from the start of the reply (server.c:597);
* a descriptor beyond ev's table leaves a freed client as above (server.c:497);
* `server_free` walks the vector of clients as it was before the first
  reallocation (server.c:432), and SIGINT outside the poll is never seen
  (util.c:84);
* KEYS after SELECT counts one database and lists another (server.c:741);
* ZSET of a member, or without memory for the entry, is answered with OK
  (server.c:826, set.c:47); an insertion without memory loses its arguments;
* a query answered with NONE is not counted (server.c:764);
* doubles and booleans are compared with themselves (object.c:56), strings only
  up to a NUL that both hold (vstr.c:122), where `vstr.h:115` promises 0 for equal
  strings alone: names of users and keys can hold NULs, and the models compare them
  by equality, which this is only for strings without;
* a `vstr_from` without memory is a string of NULs (vstr.c:60), and a reset of a
  large string leaves the freed pointer's bytes in the small form (vstr.c:195);
* a request cut inside an array argument is executed with Nulls (parser.c:453),
  the rest of one cut after its array header is taken for the bare command
  (parser.c:95), and the parser does not return from one that is cut inside a
  double (parser.c:577);
* `%g` keeps six digits (builder.c:153); the reply with an empty array or with a
  table is never finished (vec.c:138, builder.c:225);
* the library stops reading at the first EAGAIN after data and takes the rest of
  an answer for the next one (hilexi.c:630), sends half a request when the socket
  is full (hilexi.c:652), returns an end of stream as a Null (hilexi.c:626), keeps
  the beginning of a request that could not be built or a builder without a buffer,
  after which every call fails, and connects only when the
  handshake is over by its second attempt (hilexi.c:64);
* a typed command without its last argument is sent with NONE in its place
  (line_parser.c:83), where `src/cmds/*.json` calls the argument not optional;
* `src/README.md:82-98` documents options that clap refuses, with exit status 0
  (server.c:115, 124); a configuration without users cannot start the server (server.c:405); a
  configuration path of more than 23 characters is freed twice when a step after
  `add_users` fails (server.c:328, 177); the text of an address of more than 23
  characters is read after it was freed (server.c:336);
* of two values for one option, setting or password the string of one is never freed
  (clap.c:153, config_parser.c:134-148, 286), nor is the hash that is made for a file
  without users.

The passing properties are stated so that they hold next to these, and name the
exception: `~regfail` and `moved` in `Connections`, `clean` in `Client`, an end
inside a double in `HeadIsRefused`, parts below 128 and short texts in
`ConfigAsWritten`, the path and the lost strings in `ReleasedOnce`, a write that ends
inside a reply in `RepliesInOrder`. The requests of `exchange` hold no arrays, the
keys of `collections` no doubles, and its two copies of a long key hash alike. A
hazard whose effect is left out this way has a note in `PROJECT.json`.

## Proofs

Checked with `tlapm`; they hold for every value of the constants that satisfies
the named assumptions (`EvAssumption`, `CommandsAssumption`, `StoreAssumption`,
`ConnectionsAssumption`, `VstrAssumption`, `StartupAssumption`,
`ClientAssumption`, `HtAssumption`, `CollectionsAssumption`,
`KeysAssumption`, `ValuesAssumption`), which TLC evaluates on the instances. The
assumptions say what the constants are (numbers, sets, sequences of the right
kind, distinct names) and a few things about the code's own limits:
`VEC_INITIAL_CAP` exceeds 1, a `port` or `databases` line has one number behind
it, as the configuration parser reads it, a key that owns no memory compares equal
to itself (object.c:69), and a value, which is an address, is none of the codes the
containers return.

| Theorem | Property | Inductive invariant |
|---|---|---|
| `EvTypeCorrect`, `EvMaxFdExact`, `EvWatchedAsRegistered` | the same of `EventLoop` | the three together |
| `ServerMaxFdExact`, `ServerWatchedAsRegistered` | the same of the running server | `DispatchOK` |
| `StoreTypeCorrect`, `StoreIsolation`, `StoreCapacityCovers`, `StoreRefusals` | `StoreTypeOK`, `OnlyOwnDatabase`, `CapacityCovers`, `RefusedMeansUnchanged` | one lemma per command |
| `TypeCorrect`, `RoundsReachTheirConnection` | `TypeOK`, `EventsReachTheirConnection` of `Connections` | `Base` |
| `ClientsMatchConnections`, `ClientStateIsOwn`, `ResetsAloneKill` | `ClientsAreConnections`, `StateIsOwn`, `OnlyResetsKill` | `Sessions` |
| `RepliesStayInOrder`, `EveryStopIsClean` | `RepliesInOrder`, `StopsClean` | `Replies` |
| `ServerImplementsStore` | `ImplementsStore` | `Sessions` |
| `StringsInBounds`, `StringsHoldWhatWasPushed`, `StringsTerminated` | `InBounds`, `HoldsWhatWasPushed`, `Terminated` | `VstrOK` |
| `StartReleasesOnce` | `ReleasedOnce` | `HoldsInv` |
| `ServesWhatIsWritten`, `ServesTheUsersWritten` | `ConfigAsWritten`, `UsersAsWritten` | `HoldsInv`, `ReadInv` |
| `ClientTypeCorrect`, `PromptMeansLoggedIn` | `TypeOK`, `LoggedInOnBothSides` of `Client` | `LoginOK` |
| `AnswersAreOwn`, `CallsStayInStep` | `AnswerIsOwn`, `StaysInStep` | `StepOK` |
| `CollectionsInvariant` | `IInv` itself | `IInv` |
| `CollectionsTyped`, `CollectionsOwnedOnce`, `CollectionsIterated` | `CollectionsTypeOK`, `OwnedOnce`, `IteratorsComplete` | `IInv` |
| `CollectionsImplementDict`, `CollectionsImplementContainers`, `CollectionsGetFinds` | `ImplementsDict`, `ImplementsContainers`, `GetFindsStoredKey`, for keys that are told apart | `IInv`, `MeaningsApart` |

* `Connections_proofs`, the event loop. `MaxFdExact` is inductive with the type invariant; the work
  is in the deletion of the highest descriptor, where `ScanBelow` must find the
  next one. That a nonempty set of descriptors has a largest element is lemma
  `Largest`, from the well-founded order of the naturals. `WatchedAsRegistered` is
  inductive because a descriptor that epoll does not watch fails the MOD, and a DEL
  that fails leaves nothing to watch. It says that what is watched is registered; the
  converse is false, since a closed descriptor keeps its mask when it was not deleted
  (run `connections_stale_mask`).
* `Commands_proofs`: one lemma per command shows `OutcomeOK`, what an outcome may
  be: a well-formed server state that differs at most in the selected database,
  and a client whose selection is in range. The gate in front of the switch gives
  `ExecuteOK`, on which both `Store_proofs` and the proofs about `Connections` rest.
* `Store_proofs` adds for capacities that each command leaves `DbCovers`, whatever
  allocation failed after the growth, and for refusals that no outcome with an error
  or NONE differs in what later commands see.
* `Connections_proofs`, the server. Every action is a call that `EvNext` allows, or
  leaves `evVars` unchanged (lemma `ImplementsEventLoop`), so that the invariants of
  the event loop are the server's. The calls' arguments
  must be in range when they are made, possibly long after the poll that produced
  them: `DispatchOK` says so of the fired events and of the write handler that is
  running. `Base` adds what a handler needs when it starts: what is watched is an
  open connection with a client in the vector, each descriptor is in a round at most
  once and its file is still the one that fired. It is needed because the type
  invariant alone is not inductive: a handler indexes the heap with what `vec_find`
  returned. The proof sorts every step into a few kinds (a client is added, dropped,
  lost or closed, or none of these), so that descriptor invariants are shown once per
  kind.
* `Sessions_proofs`. `ConnsOK`, `ClientsOK` and `OwnOK` say where a connection is,
  that the vector holds each descriptor once, and that a struct holds its
  connection's state; each needs the others, because a struct belongs to a
  connection only through the descriptor both have. `SentOK` and `WaitingOK` number
  what was sent, what waits in the builder and what is still unread, in that order;
  `HandlersOK` and `NothingLost` are there for the stop. `RepliesInOrder` is about
  connections none of whose writes ended inside a reply, and counts: what was handed
  over and what waits are together all replies made. `StopsClean` is about runs of
  `server_free` that come to their end, which those on a vector that was moved do not. All hold until a
  registration fails (`regfail`): from then on a freed struct stays in the vector,
  and `vec_find` may return it for a later connection. So does the refinement:
  `ServerImplementsStore` is `Spec /\ []~regfail => ImplementsStore`. The stale mask
  (run `connections_stale_mask`) makes `regfail` reachable even when ev's table
  covers every descriptor, so the proviso cannot be traded for a condition on the
  constants. `Connected` and the views of the connections are the mapping; a read
  that executes is `Execute`, an accept `Connect`, a close `Disconnect`, `server_free`
  is `Shutdown`.
* `Vstr_proofs`: `VstrOK` is the shape of the two forms (everything behind the
  string is NUL, in the small form possibly the bytes of a freed pointer) and what
  it holds.
* `Startup_proofs`: `HoldsInv` lists for every phase what is allocated there, which
  is what the early returns must free, and for what was lost an input that loses it.
  `ReadInv` relates the configuration to a
  position in the file: the settings and users are those written before it.
* `Client_proofs`: `LoginOK` follows an OK back to the server: whatever says so in
  the buffers or on the wire was sent by a server that had accepted AUTH. `StepOK`
  follows a clean call: either its own request is spread over builder, wire and
  server, or its own answer over wire and read buffer, never both. What is spread
  over three buffers is one concatenation, which deliveries, reads and writes leave
  as it is (`StreamsMove`).

* `Collections_proofs`. None of the checked invariants is inductive: that `DEL`
  frees an allocated key, and frees it for the first time, depends on the entry
  being the only one with that key's memory, on its being found in the chain its
  hash selects, and on the resize having moved it there. `IInv` says all of it:
  `TablesInv` (each entry once, in the slot its key hashes to, `num_entries` the
  number of them and within the capacity, no memory in two entries), `VecInv`
  (the first `len` slots hold different values), `QueueInv` (following `next` from
  the head gives `num_el` different nodes and ends at the tail), `PartInv` (the
  collections not in use are empty) and `HeapInv` (nothing freed twice, what is
  owned is allocated, and what is allocated beyond it is at most a key and a value
  per failed allocation). TLC checked `IInv` on the instance of run `collections`
  before it was proved. `lexidb_free`, the resize and the iterators are folds and
  recursive functions; they are reasoned about through the sequence of their
  intermediate results, which lemmas such as `FoldExists`, `ResizeMoves` and
  `EntriesFreeSteps` show to exist, and by induction over a set of naturals
  (`Least`, `Climb`), which needs no operator parameter.
* The refinements and `CollectionsGetFinds` have the hypothesis `KeysToldApart` of
  `HashTable`: `object_cmp_eq` holds exactly between keys with the same meaning, and
  such keys hash alike. It is what ht.c relies on and object.c does not give for
  every key. The instance of run `collections` satisfies it and that of
  `collections_long` does not, which `KeysCase` of `MCCollections` has TLC confirm;
  there `GetFindsStoredKey` is violated. Under it no two stored keys mean the same
  (`MeaningsApart`), so the table stands for a function, and each call is the step
  of `Dict` or `Containers` of its name, a failed allocation a refusal.

Only model-checked:

* liveness and fairness (`EventuallyAccepted`, `EventuallyAnswered`, `CallsReturn`),
  which TLAPS does not do;
* `Protocol`, `LineParser` and `Exchange`: the builder, the parsers and the decimal
  notation are recursive operators over nested values and their bytes, which TLAPS
  cannot unfold, and what they compute is an induction over both.

## Not modelled

`ev_select.c` (not compiled where epoll exists); the hash functions (third-party,
constants of the models); the characters of a configuration file (a line is its
directive and values, and skipping blanks and comments cannot mix lines up); the
help text, logging, `object_show` and `read_line` (terminal input and output;
`read_line` does not end at the end of its input, read_line.c:7); `vec_new_with_capacity`,
which nothing calls. HELP is answered like an unknown command by the server's
`execute_cmd` and modelled so. `ht_entry_new` does not check its malloc
(ht.c:300): the process ends there, so no state follows.

## Plan

1. `EventLoop`, `Commands`, `Store`, `Connections`, `HashTable`, `Vstr`,
   `Protocol` with their runs, and the proofs above: done.
2. `Client`, shutdown in `Connections`, `Containers` and `Collections`,
   `LineParser` and `Exchange`, `Startup`: done.
3. Proofs of the safety properties of `Store`, `Connections`, `Vstr`, `Startup`,
   `Client` and `Collections`, and of the refinements of `Store`, `Dict` and
   `Containers`: done.
4. Left: a form of `Protocol` without recursive operators (a parser indexed by the
   depth of nesting), so that `WholeRequestUnderstood` can be proved for strings and
   numbers of any length.
