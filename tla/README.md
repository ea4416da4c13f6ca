# Verification of go-sql-teradata

TLA+ models of the Teradata driver for Go's `database/sql`, model-checked with
TLC and proved with TLAPS. Paths are relative to the
repository's source.

## The system

| Part | State it keeps | Operations | Hard behaviour | Correct when |
|---|---|---|---|---|
| FastLoad data channel (`fastload_data_channel.go`) | current batch, `pending` and `free` Go channels, first failure, broken | `pushRow`, `dispatch`, `acquire`, `wait`, `close`; goroutine `run` | two goroutines sharing batches, bounded sends outside a `select`, a context ending while `run` reads | rows are stored once and in order, a nil Flush means stored, calls return |
| FastLoad connection (`fastload_connection.go`) | control and diagnostic sessions, current transaction; on the server a load lock, error tables with the rows it rejected, delivered rows | `BeginFastLoad`, `AddRow`, `Flush`, `End`, `Abort`, `Close` | a dozen statements of which any can fail or lose its reply, cleanup after failure, loads left by a dead client | success means each row is in the table or reported as rejected, abort means no trace, a new load starts clean |
| FastLoad rows (`fastload_query.go`, `fastload_encode.go`) | none | table description, encoders, row layout, error rows | two independent length bounds, null bits, three roundings | what the query accepts fits a parcel, and the server finds every value |
| Session (`connection.go`, `statement.go`, `rows.go`, `packet.go`) | usable or not, request number, one read deadline; statements' kept responses; result sets' buffers | `ExecContext`, `QueryContext`, `Next`, `Close`, session SQL | requests abandoned half way, several result sets on one connection | an answer is only read by its request, the server is not left with open requests |
| Message layer (`packet.go`, `buffer*.go`) | the connection's array, what is pending in it | `fill`, `peek`, `next`, `take`; read into the connection's or the result set's buffer | messages in any number of pieces, arrays reused while values point into them | messages are taken whole, values stay what they were |
| LOBs (`lob.go`) | locator, what was fetched | `GetBytes` and its drain | a fetch between two columns' use, a fetch that fails half way and is repeated | the bytes are the LOB's |
| Cancellation (`context.go`, `rows.go`) | watcher goroutines | `runCancelable`, `startCtxWatcher`, `sendCancelAndDrain` | watchers, drains and methods all set one deadline | an ended context ends its call, and only contexts that ended and drains cut a read short |
| Transactions (`connection.go`) | `currentTransaction`, `transactionInProgress`, mode | `Begin`, `Commit`, `Rollback`, `ResetSession` | the server ends a transaction by itself | client and server agree |
| Connector (`connector.go`, `tls.go`) | discovered addresses shared by all connections | `Connect`, discovery, rotation, TLS dial, web socket, fallback | concurrent connects, failure at each step | every address is tried, no silent downgrade, no socket left |
| Logon (`auth*.go`, `der.go`) | security context: options, keys, message counter | configuration, key exchange, logon, wrap and unwrap | retries, policy from the server | what is secret is encrypted, no nonce twice |
| Codecs (`parcels_*.go`, `params.go`, `datatype.go`, `number.go`, `dsn.go`) | none | encode, decode | lengths and widths at their boundaries | decode undoes encode |
| Logging, utilities | none | | | |

`database/sql` calls a connection from one goroutine at a time. Concurrency
comes from the watchers of contexts, from each data channel's `run` goroutine,
and from connects, which share one connector. The FastLoad transaction owns several
data channels and a control session; a data channel owns a connection of its own;
result sets, statements and LOBs share the connection they were made on.

## Modules

FastLoad:

* `FastLoadQueue`: what a data channel promises: rows are accepted in order,
  stored in consecutive blocks without repetition, and a successful flush leaves
  none queued.
* `FastLoadChannel` (with `FastLoadChannelMC`): the channel in detail. The calling
  goroutine's position is `pc`, that of `run` is `wpc`; `cur`, `pending`, `free`,
  `held` and `wbuf` say where the batches are; `body` and `pos` what is in them.
  Each blocking statement of the Go code is a step, so all orders of the two
  goroutines, of the context's end, of the server's answers and of the loss of
  the link occur. The channel is shown to implement `FastLoadQueue`.
* `FastLoadTx`: the connection and its transaction. A method is the sequence of
  statements it still has to do. A step executes the first one, has it refused by
  the server or by the client, or breaks the control session before or after the
  server executed it. The context may end and the client may die between
  any two steps. Data channels are taken at their promise: a flush delivers all
  rows or fails having delivered some. The number of data sessions is abstracted.
  At the end of a load the server sorts the rows delivered, in any way, into the
  table and the two error tables; `rejected` is what these hold and `report` what End
  has read from them (`FastLoadResult.Errors` and `UniqueViolations`).
* `FastLoadTable`: what a load promises to the readers of its table: a load is handed
  out over an empty table, those of its rows that the server does not reject come into
  it all at once, and are never taken away again. Only what a load that was given up
  left behind passes through the table in part, on its way out. `FastLoadTx` is shown to
  implement it: a load is in the caller's hands until Abort begins or the second `ET` of End is executed, and
  its clean-up is under way between the restart of the load and its `DELETE`.
* `FastLoadChannelProofs` and `FastLoadTxProofs`: the theorems.

One connection at work:

* `Session` (with `SessionMC`): requests on one connection. A method is a sequence
  of socket steps (`send`, `read`, `cancel`, `drain`, `finish`); `watch` and `rwatch`
  are the watchers of calls and of result sets, which may still fire after they were
  told to stop, since Go's `select` chooses among ready cases. `Keep` is LOB support
  (responses kept until cancelled), `Interleave` the methods the caller starts
  while a result set is open.
* `ReadBuffer`: the array a connection reads into, its growth, and what is pending in
  it. Arrays are named and slices are references to them, so that reuse of an array
  that a value still points into is visible.
* `Lob` and `RowReader`: the scan of a result set's parcels, with messages that end
  anywhere in it, and LOBs fetched through the same connection between two rows.
  `RowReader` composes both with `ReadBuffer`.
* `Transaction`: Begin, Commit, Rollback, Ping and statements in TERA and ANSI mode
  against the server's own view of what is open and stored.
* `SessionProofs`, `TransactionProofs` and `RowReaderProofs`: the theorems.

Getting connected:

* `Connector`: goroutines that connect through one connector: discovery step by
  step (it is not protected by a lock), rotation, TLS and its fallback.
* `Logon`: configuration, key exchange with keys the server refuses, logon and the
  first requests, with the decision which messages are wrapped.
* `Connect`: both together; the connection whose logon fails is closed.
* `ConnectProofs`: the theorems.

Codecs:

* `Bytes`: numbers as bytes. `Parcels`: request parcels with the lengths they
  declare and the fields they write, LAN and web socket headers. `Responses`: the
  loops over configuration features, mechanisms and statement status, and the stack
  that rebuilds nested columns. `Der`: DER records, security options, keys, wrap and
  unwrap. `Numbers`: NUMBER and DECIMAL with their roundings. `Columns`: parameters
  and result columns. `LoadRows`: FastLoad encoders and rows. `Dsn`: connection
  strings. These are operators without state.
* `Codecs`: gives them inputs, one in each step, and states the properties.
* `CodecProofs`: the theorems, on connection strings, load rows and wrapped messages.
  `SetInduction`, which `RowReaderProofs` uses too: induction, and from it what folds
  and flattened sequences are.

The server is modelled from how the driver uses it: it answers each request with
data, an end or an error; it locks a table from BEGIN LOADING until END LOADING is
committed; it starts a load only on an empty table without error tables, which it
creates then, and lets an interrupted one be restarted; when a load ends it puts each
row delivered into the table or, rejected, into one of the error tables; it rolls a transaction back when a statement
in it fails or its session is lost; it reports in every response whether a
transaction is open; it cuts a result into messages where it likes.

Operators whose comment begins with "Mutant" are deliberately wrong variants of
the definition after them. Each property is shown to fail when one of them takes
its definition's place, so that no property holds for want of content. A property
that is a conjunction has one for each of its parts.

## Runs

| Run | Instance | What it shows |
|---|---|---|
| `channel_safety` | 2 batches (the code's number), 4 rows, bodies of 3 bytes and rows of at most 2, so that a batch holds one or two rows | ownership, room in the Go channels, order, complete flush, cause of failure, orderly close |
| `channel_live` | the same with encryption (lost write errors), 3 rows | refinement of `FastLoadQueue`; calls return when their context ends, or if the server answers |
| `session_safety` | 2 statements, 2 calls, kept responses | rows of one's own request, nothing kept by the server |
| `session_tx` | 1 statement, 2 calls, everything interleaved with open result sets | no leftovers on the wire, only contexts and drains time a read |
| `session_live` | 1 statement, 2 calls, no kept responses, encryption | a cancelled Exec or Query returns |
| `load_safety` | 4 loads, 3 rows each | clean start after any earlier load, success with every row in the table or reported, complete abort, no leaked sessions; refinement of `FastLoadTable` |
| `tx_modes` | every TMODE and server default, 2 transactions, 3 statements, BT nested 3 deep | all or nothing, a clean pool, when Begin refuses, Commit returns |
| `connect` | 2 goroutines, 2 addresses, 4 SSL modes, 2 refused keys, 2 messages | addresses, security as asked, secrets encrypted, Connect returns |
| `rows` | 2 rows, LOBs of 0 and 2 bytes, 2 fetches, 1 fault; arrays of 3, kept up to 6 | messages exact, rows complete, in order and unchanged, LOBs whole, calls return |
| `codecs` | inputs around every boundary, below | decode undoes encode |

Two calls are enough for every pair of methods to meet on one connection, with
any number of fetches and closes between. Four loads let a load fail, its
cleanup fail, and a later one recover twice. Two transactions let a connection be
used again after each end of the first; three statements let one precede a failure,
one be the failure and one follow it. Two goroutines are enough for discovery to
overlap with discovery and with a dial, two addresses for a rotation to begin in
the middle, two refused keys for a key to be replaced more than once. In `rows` the
smallest array is shorter than a message and the limit shorter than the largest, so
that growing, keeping and dropping all occur. `MaxCalls`, `MaxRows`, `MaxLoads`,
`MaxTxs`, `MaxStmts`, `MaxNest`, `MaxCops`, `MaxRefusals`, `MaxMessages`, `MaxGets`
and `MaxFaults` bound the only counters.

`codecs` has no behaviour of its own; its inputs are the bound. Lengths of text lie
around the 65535 bytes of a parcel, wrapped data around the DER lengths 127 and 255
of each nested record, sequence numbers around powers of 256, numbers around powers
of ten and two; a NUMBER keeps 4 digits in place of 40 (`NumberMaxDigits`),
so that 5 and 6 digits exceed it within TLC's integers. Statement information has
up to 4 items, configurations up to 2 features of every length at which one of a
feature's fields ends, rows up to 9 columns, so that the null bits take two bytes.

The type invariants of `Session`, `FastLoadTx`, `Transaction` and `Connect` are proved,
and that of `RowReader` holds on the same instance; they are no run's property.

Two runs find a disagreement between the code and a comment or a test:

* `session_lobfetch`: after a LOB is read between two rows, `fetchMore` continues
  the LOB's request, because Continue always carries the connection's latest
  request number. The rows' buffers were made separate precisely to allow this.
* `tx_rollback`: when a statement fails in a TERA transaction the server ends the
  transaction; statements executed after it on the same `driver.Tx` are stored one
  by one, and `Rollback`, whose ABORT is answered with 3514, returns nil.

### Fairness

`FastLoadChannel` assumes weak fairness of the caller's steps and of `run`'s:
Go's scheduler runs both. `Session` adds the watchers and the expiry of the
drain's timer. Nothing is assumed there of the server, the network or the
context's owner: "returns when its context ends" holds of a server that never
answers, and `AnsweredCallReturns` states its assumption in the property.
`Transaction` assumes that Commit's loop goes on, each request of which is
answered, refused or lost. `Connect` assumes it of the steps of the
goroutine that is followed, and `RowReader` of a call's steps: both show that a
call returns if the server answers or the link fails. `FastLoadTx` and `Codecs`
have no liveness property.

## Proofs

Each theorem has the form `Spec => []P` (or is the refinement) and holds for every
value of the constants that the named assumptions of the modules admit. None of the
properties is inductive; each proof module states an invariant `IInv` that is, in
named parts, proves that `Init` establishes it and every action keeps it, and
derives the properties.

| Module | Proved, for any | Theorems |
|---|---|---|
| `FastLoadChannelProofs` | finite set of batches, body that holds the longest row, number of rows | the seven safety properties of `channel_safety`; the channel implements `FastLoadQueue` |
| `FastLoadTxProofs` | number of loads and rows | the five invariants of `load_safety` and `TypeOK`; the loads implement `FastLoadTable` |
| `SessionProofs` | finite set of statements, number of calls, kept responses or not, encryption or not | `TypeOK`, `NoLeftovers`, `ReadsAreNotTimed`; where no request is interleaved, `RowsAreTheirOwn` and `ServerKeepsNothing` |
| `TransactionProofs` | modes, defaults, number of transactions and statements, depth of nesting | `TypeOK` and the three safety properties of `tx_modes` |
| `ConnectProofs` | finite set of goroutines, COP list, set of SSL modes, number of refused keys and of messages | `TypeOK` and the three safety properties of `connect` |
| `RowReaderProofs` | number of rows, layouts, messages, calls and faults, LOB sizes, first and largest array | `BufferIsExact`, `RowsAreExact`, `LobIsWhole` |
| `CodecProofs` | values of a configuration; number of columns of a table; data, secret, sequence number and options of a wrapped message | `DsnRoundTrips`, `LoadRowsFit`, `WrapRoundTrips` |
| `SetInduction` | | lemmas for the others: induction; what folds and flattened sequences are |

What the assumptions say: batches are finitely many and at least one, and
`MaxParcelLen <= BodyLen`, which `startFastLoadDataChannel` enforces; there is a
mode and a server default, and they are those the code knows; the goroutine that is
followed is one of the goroutines; the first array is not empty and the limit of
the array that is kept is no smaller, as the constants of `buffer.go` are; the
sequence numbers are below 2^31 and the wrapped data is shorter than 2^30 bytes, since
`Octets` models the integers of at most four bytes. The others only give the bounds
their types.

`FastLoadChannelProofs`. `Control` adds to the types and to the ownership of batches
what each position of the two goroutines implies: which batch is in hand, that a
batch in `free` or `held` is empty, that a deadline is only set after the
failure that explains it, that the socket is closed only when `run` is done.
`RowFlow` says that the rows are cut into consecutive intervals, in the order
stored, in flight, in `run`'s batch, queued, current, and that none but the stored
ones have been stored unless a failure is recorded, after which nothing more is
written. That free Go channels have room follows from ownership by counting
(`FiniteSetTheorems`).

`FastLoadTxProofs`. A method is what is left of its program, so the
invariant says which programs there are (`MethodControl`: what is left is an end of
one of six) and, for each, what the statements already executed have made of the
server: which error tables are dropped, whether the lock is held, the
transaction open, the rows staged, delivered or committed (`BeginState`,
`HeldState`, `EndState`, `AbortState`). `ReportState` follows the rows of a
load that has been committed: they are in the table, in the error tables that End has
still to read, or in its result. `SessionControl` relates the driver's flags
to the session at the server, through refusals, broken links and crashes, and says that
a locked table has both its error tables.
The refinement needs one more invariant, `TableState`: a locked table is empty, and
neither the transaction in which a release restarts the load nor the one it opens
ends a load. What a reader of the table sees (`Views`) is then worked out for each
statement of the programs, and each step is a step of `FastLoadTable` or stutters.
A statement whose answer was lost makes the same step as one that was answered: an
End that lost the answer to its commit has committed, and the Abort that follows
finds no load to release, so its `DELETE` is never reached.

`SessionProofs`. `Control` ties each step of a method to what it may be doing,
`Wire` says whose request and answer are on the wire at each of them, `Deadlines` who
set the socket's deadline and which watcher may still set it. These hold whatever
the caller interleaves. `Apart` is about callers that start no other request while
a result set is open: then the request that Continue names is the result set's own
(`Awaiting`, `ResultSets`), and each request the server has open is one that some
statement, result set or LOB still knows and will cancel (`ServerRequests`). The
hypothesis is `Interleave = {}`, which is how a result set of a pooled
connection is used: `database/sql` gives the connection to nobody else until the
result set is closed. A caller that holds the connection (a transaction, `sql.Conn`,
a LOB read between two rows) may interleave, and then the statement is false:
`session_lobfetch` is the counterexample.

`TransactionProofs`. `ServerControl` says what the connection knows of the
server's transaction in each mode, `Bookkeeping` who holds which transaction, and
`StatementsPlaced` where the statements of each transaction are, by its outcome:
still at work, stored, or gone.

`ConnectProofs`. `Secure` follows each socket through dial, handshake,
verification, upgrade and fallback; `LogonInv` has the key exchange, with the nonces
used so far below the next one. `ListInv` is about the shared list, while no two
first connections overlap: one goroutine discovers at a time, the list is what it has
found so far, and the addresses a rotation has passed were dialled.

`RowReaderProofs`. The cells in the buffer followed by those on the wire are what is
left of the current message (`Exact`); each step of the buffer (`BeginFillIs`,
`ReadSomeIs`) keeps that stream, whichever array it moves to. Between two messages
nothing is pending, unless the connection has become unusable. Cells come from a set
that grows with each message, so nothing is assumed of what the server sends.

`Laid` says where the parcels of each row stand in the result: it is
built by concatenating the rows, so this is an induction (`SetInduction`). `HeapKeeps` is about memory: an array
that is neither the connection's nor being read into is never written again, and
every message of a result set is copied into such an array. `Track` says how far the
result has been read, by what the call in progress is doing: between two rows, so
many parcels inside one, waiting for a row's LOB, or with the next messages on the
wire. `Phases` says which calls these are. Each parcel then has a known flavor and
row, and the row that is given is the next one.

The LOB of a row that the caller has is one of three things (`LobOk`):
untouched, read to its end by its locator, or complete because it came with its row. A
fetch that failed may be started again, so each record must leave it read to its end
also when it was so before (`RecordMakes`). `LobFetch` is about a fetch under way: it is
for a row the caller has or for the row that waits for its LOB, and what is left of its
answer is one of four messages. `LobsAhead` is about the scan: the LOBs of rows to come
are untouched, and that of the row being read is what the parcels read so far have made
of it, so it is complete when its row is given. All this holds on top of `RowInv`,
which says where the scan is and which row each parcel belongs to.

`SetInduction`. The theorems of the library that state induction with a predicate
cannot be instantiated by the provers. `InductionByCounting` states it with a set and
is proved by counting: the successors of the members below a missing number would be
as many as those members, and leave out 0. From it follow what `FlattenSeq` is, that
the recursive function inside a fold exists, and which sequence of steps it takes.

`CodecProofs`. `DsnIsUndone` is about a configuration of any values that `normalize`
leaves alone (`Normal`): writing it sets the fields that differ from the defaults,
reading it finds those and takes the defaults for the rest, which gives it
back but for the port, LOB_PREFETCH and a password without a user (`Reread`).
`DsnsRoundTrip` adds that the configurations the run writes are normal once
normalised. `AcceptedRowsFit` compares two sums of any length, column by column, for
encoders that write no more than was reckoned (`Reckoned`), and `LoadRowsAlwaysFit`
shows this of every type of column.

The messages of the security layer are taken apart from the inside. `DigitsAre` says
which steps the fold of `Unsigned` takes, and `IntsAreRead` that an integer written
without leading zeros is read back, the sign byte before 128 included. `RecordIs` gives
a record's identifier and the one to five bytes of its length, so that `RecordIsRead`
finds it wherever the data `Holds` it. `ChildrenAreRead` is an induction over the reader
of a group of records, which recurses to its end: `FromExists` shows that the recursive
function exists, `ReadsForward` that it gives the records from each one on. The header,
the envelope and the options are such groups (`HeaderIsRead`, `EnvelopeIsRead`,
`OptionIsRead`); the order in which `ReadField` sets an option's fields is a fold again
(`FieldsAreSet`). `WrapIsUndone` and `OptionsAreRead` put them together, and
`ContextsRoundTrip` adds the keys, which lie side by side in the secret (`Keyed`), and the
nonce, whose last byte differs from the next message's. `WrapAlwaysRoundTrips` shows that
the options the run takes are `Keyed`. The bytes are sealed and opened as they are: that
AES-GCM undoes itself is taken from the library.

Left to TLC: the liveness properties, since fairness and ENABLED are outside the
prover's reach; and of the round trips through bytes `ParcelsWalk`, `ColumnsAreRouted`,
`ValuesRoundTrip` and `LoadedRowsAreRead`, which are checked against references over
bounded inputs: they rest on powers, on rounding and on bits, which the provers do not
compute, and on recursive functions each of which would need an induction of its own.

## Divergences met while modelling

Besides the two that runs show, the models follow the code in these places, where
a reader of its comments, tests or names may expect something else. Most of them are
visible as a guard, a bound or an exception in the definition that is named.

Session and rows:

* `Rows.Close` cancels the request of its statement's latest execution, not its
  own, when the statement was executed again in between (`rows.go:191`).
* A watcher left over from a call that returned can cut the ten seconds of a later
  drain short, and the connection is lost (`context.go:79`).
* With kept responses, executing a statement again begins with a drain that
  overwrites and then clears the deadline set by the watcher; the call then waits for
  a server that may never answer.
* `Close` marks the connection closed before writing the logoff message, which is
  therefore always refused: the session is never logged off (`connection.go:400`).
* A message that ends inside a row gives `ErrInvalidRead`, and the rows are not lost
  silently; a second MultiPartRecord of one row exceeds the destination.
* LOB records after the first lose their first eight bytes (`lob.go:276`):
  `LobIsWhole` is about LOBs whose bytes come in one record. An empty LOB sent inline
  gives `ErrBadConn`, and an empty one by locator cannot be read.

Transactions and loads:

* A Commit or Rollback that fails leaves `currentTransaction` set, and every later
  Begin on that connection is refused (`BeginInProgress`).
* In ANSI mode a statement outside of a transaction leaves one open when the
  connection goes back to the pool; `PoolIsClean` is about TERA mode.
* An `Abort` that fails marks the load done, so `Close` returns nil with the
  table still locked.
* `AddRow`'s row number is an `int32` and indexes the data channels modulo their
  number: beyond 2^31 rows the index is negative. No instance has as many rows.

Connecting:

* First connections that overlap empty each other's list of addresses, and `Connect`
  panics: `AddressesAreTried` excludes them by `raced`.
* With COPLAST the address of the last COP is never used (`Reference`).
* The counter of refused keys is never advanced, so the limit of five has no effect:
  a server that goes on refusing keys is asked for ever. `ConnectReturns` is about one
  that refuses `MaxRefusals`.
* An SSLMODE that is not known is taken for PREFER.

Codecs:

* The request parcel with null bits is sent with flavor 1. Parcels longer than 65535
  bytes get a truncated length, a partition of more than 16 characters overruns its field.
* The reader of statement information counts the header as part of the body and
  takes the next parcel's header for one more item; nothing depends on that item.
* Type codes with both a mode and the nullable bit are mapped out of their family for
  OUT parameters (502), and from IN to INOUT (500) (`describeParam`).
* Integer parameters are cut to the column's width where FastLoad rejects them, and
  DECIMAL parameters are cut where FastLoad rounds half up.
* The period byte of the options is always 0, the catalog option is never sent.
* INTERVAL MINUTE TO SECOND has no reader. A TIMESTAMP text with an offset loaded
  into a column without zone gives a meaningless fraction.
* `ToDSN` leaves out the port, LOB_PREFETCH, and a password without a user,
  escapes nothing, and writes timeouts in whole seconds (0.4 s is read back as 60 s).

## Not modelled

SQL texts, the texts of times, intervals and floats, XML and JSON values. Ciphers and
digests: a key is a tuple of what it was derived from, a sealed text opens under the
same key and nonce. Certificates are the set of checks they pass. Response parcels
that are fixed records without control, and those of dynamic result sets. Integers
beyond TLC's 31 bits: values at the ends of a BIGINT, a NUMBER of 40 digits, and the
DECIMALs that `fastload_encode.go` refuses because they do not fit 8 or 16 bytes. Lengths of a
feature that end inside one of its fields, or before the fields that are read without a
guard (`parcels_response.go:1000`).
Logging, which changes no state. `AddRow` returning an encoding error changes no
state of the transaction and is modelled in the channel only. `rowsAccepted` of
the channel is never read. Exec stands for statements whose answer is one message.

Of a load: which rule a row breaks that the server rejects, and with it the code and
the column of a `FastLoadErrorRow`; `UniqueViolations` is the set of the rows of the
second error table, not their number, and every row the server does not load is in one
of the tables. `RowsAccepted` is left out. Rows are recorded as rejected when the load ends rather
than when they are delivered: nothing reads the error tables earlier. Channels are
open or not, all of them; a set of which only some could be opened is closed within the
failing step.
