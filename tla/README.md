# A TLA+ verification of gologger

gologger is a logging service in Go. Producers send events over a WebSocket,
the service validates, stores and acknowledges them, and monitors receive the
stored events over WebSockets of their own. This directory holds TLA+ models of
its concurrent and persistent parts, TLC configurations that check them on small
instances, and TLAPS proofs for every size of instance. `PROJECT.json` maps
every definition to the lines it stands for.

To check a run: `tlc -workers 2 -config MCServer.cfg MCServer`.
To check proofs: `tlapm DispatcherProofs.tla`, and the same for the other modules
with theorems: `DispatcherRefinement`, `StorageProofs`, `ServerProofs`,
`MonitorProofs`, `ForwardProofs`, `ProducerProofs`, `LimiterProofs`. MCDispatcher.cfg
and MCMessagePath.cfg take up to two minutes, the other runs about a minute or less.
MCDispatcher.cfg is for the module `DispatcherInvariants` and MCRateLimiter.cfg for the
module `RateLimiter`: `tlc -config MCDispatcher.cfg DispatcherInvariants`.

## 1. Inventory

```
 producer --ws--> connection(reader) --Submit--> Dispatcher.jobs --> workers
            <--ws-- writePump <--outbound-- reader <--job.ack-- (process, store,
                                                                publish, answer)
                                                         |          |
                                                   EventStore   Publisher
                                                  (JSON files)      | one buffer
 monitor <--ws-- writePump <--outbound-- connection(reader) <-------+ per monitor
```

| Component (under `src/internal` unless said) | State | Operations | What is hard |
|---|---|---|---|
| Dispatcher, `adapters/websocket/dispatcher.go` | channel of jobs, `accepting`, admission mutex, Once, WaitGroup, a result channel per job | `Submit`, worker loop, `Shutdown`, `Subscribe` (passes on) | send against close, several Shutdowns, abandoned callers, full queue, cancelled contexts |
| JSON file storage, `adapters/storage/json_file_storage.go` | the files, `knownIDs`, `closed`, RWMutex | `Store`, `Get`, `Query`, `Rotate`, `Health`, `Close`, load at start | crashes and failing calls between write, sync and close; retention; limits of size and line length |
| Event publisher, `adapters/websocket/publisher.go` | map of subscriptions, a buffered channel each, RWMutex, Once each | `Subscribe`, `Publish`, `Close` | closing against sending, concurrent publishers, slow monitors |
| WebSocket connection, `adapters/websocket/connection.go` | outbound queue, two goroutines, the socket | handshake, producer loop, `handleEvent`, `handleSubscribe`, `writePump`, `send` | the two goroutines end in any order, a full queue, late outcomes, silent clients |
| WebSocket handler, `adapters/websocket/handler.go` | none but its settings | checks, upgrade, mapping of errors to codes | codes depend on the wording of errors |
| Protocol decoding, `adapters/websocket/protocol.go`, `contracts/message.go` | none | `decodeMessage` | shapes of messages |
| Event processor, `domain/services/event_processor.go` | none | `Process` | limits, nesting, the order of its steps |
| In-memory storage, `adapters/storage/memory.go` | map and order of events | as the file storage | the same promises |
| Rate limiter, `security/rate_limit.go` | a window with its count per key | `Allow` | clock read before the lock, boundary of windows |
| Redaction, `security/redaction.go` | none | rewriting of texts and maps | recursion |
| Server, `cmd/server/main.go` | the process | start, signals, exit | crashes, restarts and retries; nobody drains the dispatcher |
| Configuration, contracts, ports | none | types, reading the environment | |
| `client.go` (sample) | none | not part of the service | |

What makes each of the modelled components correct:

- *Dispatcher*: no panic by a closed channel; no accepted job lost or taken
  twice; an acknowledgement only after the store returned nil; an error only for
  a job that was not stored; a Shutdown that returns nil has left nothing in
  flight; nothing admitted after Shutdown; Submit never waits for a worker; every
  accepted job is answered.
- *File storage*: what `Store` acknowledged is found again after a restart and
  once only, until its retention is over; files keep to their size; an event
  whose `Store` failed can be sent again; a restart succeeds.
- *Publisher*: no send on a closed channel; each open subscription gets each
  event, unless its buffer is full, once and in the order of publication;
  publication never waits for a monitor.
- *Connection*: what reaches the client has no holes; replies correspond to
  requests; both goroutines end when the client is gone.
- *Handler, decoding, processor, redaction*: only an event without a defect is
  acknowledged; what is stored is what was sent, without its secrets, and nothing
  else; a refused message changes nothing and is told why. (In the codes, and in
  secrets that are split, the code falls short of this: sections 5 and 6.)
- *In-memory storage*: an ID is stored once and what queries returned stays.
- *Rate limiter*: at most twice the limit in a window's time; no refusal without
  a reason.
- *Server*: `Store` succeeds for an event at most once, and none is confirmed or
  announced that is not on disk, through any number of crashes, restarts and retries.

The hazards behind these properties are listed, with their lines, under
`hazards` in `PROJECT.json`.

## 2. Modules

| Module | What it models |
|---|---|
| `Dispatcher` | `dispatcher.go`, one action for each stretch of code between two scheduling points |
| `EventLedger` | the abstract specification: the phases of a submission, without queue, locks and workers |
| `DispatcherLedger` | the refinement mapping from `Dispatcher` to `EventLedger` |
| `DispatcherInvariants` | the inductive invariants: `CoreInv`, and `IInv` for a process that does not end |
| `DispatcherProofs`, `DispatcherRefinement` | the proofs about the dispatcher |
| `JSONFileStorage` | `json_file_storage.go`, the clock, crashes and restarts |
| `StorageProofs` | proofs about the storage |
| `Publisher` | `publisher.go` |
| `Connection` | what producers' and monitors' connections share: handshake, `send`, `writePump`, teardown |
| `MonitorConnection` | composes `Publisher` and `Connection`: `readMonitorMessages`, `handleSubscribe` |
| `ProducerConnection` | extends `Connection`: `readProducerMessages`, `handleEvent` |
| `MonitorProofs` | proofs about the publisher among its monitors |
| `ForwardProofs` | proofs about the way of an event from a subscription to the client |
| `ProducerProofs` | proofs about a producer's replies |
| `EventService` | the abstract specification of the whole service: `EventLedger` through the ends of the process, with the durable events |
| `Server` | composes `Dispatcher` and `JSONFileStorage` under `main.go`; implements `EventService` |
| `ServerInvariants`, `ServerProofs` | the invariant that joins the two, and the proofs about the service |
| `RateLimiter` | `rate_limit.go` |
| `LimiterProofs` | proofs about the limiter |
| `EventProcessing` | `event_processor.go` and `redaction.go`, as operators |
| `MemoryEventStore` | `memory.go` |
| `MessagePath` | composes `EventProcessing` and `MemoryEventStore` with `protocol.go`, `protocolError` and the handlers of `connection.go` |
| `MC*` | instances for TLC |

A definition whose comment begins with "Faulty variant" is not part of the
system. It is a wrong form of the definition after it, kept to show that the
properties notice the difference (`mutants` in `PROJECT.json`).

### Dispatcher

A job is one call of `Submit`; the goroutine that makes it is its caller.
The section under the admission mutex is two steps: `Enter` (lock and load the
flag) and `SelectSend`, `SelectCancelled` or `SelectDefault` (the select and
the deferred unlock). `Shutdown` has the same shape: `StopAccepting` (lock,
clear the flag) and `CloseJobs` (close, unlock, leave the Once). So a Submit
that has seen the flag set and a Shutdown that has cleared it can meet, and what
keeps them apart is the mutex in the model as in the code. The Once makes a
second Shutdown wait for the first (`SkipOnce`). A worker's loop is `TakeJob`,
`Process`, `Store`, `Publish`, `Reply`, `CloseAck`; an error skips to `Reply`.
A result channel holds one result (`ack`) and can be closed (`ackClosed`); a
send on a closed channel sets `panicked`.

The processor and the store are the environment of this module: they succeed or
fail as they like, and fail when they find the context cancelled. `handleEvent`
passes a context that is never cancelled; `Cancellable` names the jobs of other
callers (the tests use them).

### JSONFileStorage

Every method takes the store's lock, so at most one `Store` is between two of
its steps: `BeginStore` (closed? known? choose the file), `OpenFile`,
`WriteRecord`, `SyncAndClose`. `StatFails` is a `Store` that ends when it looks for a
file, because os.Stat returns an error. What can come in between is the clock (`Tick`), a
`Crash`, and the failure of the call; failures and crashes use up `MaxFaults`.
`Start` loads the IDs, and the process ends when a file cannot be read.

A record is its event and the number of units of its line that are in the file;
the last unit is the newline. So a record that was cut off before its newline
still parses while it is the last one, one that was cut off earlier never does,
and whatever is appended next is on the same line. `Parses` says when
`readEvents` succeeds, `GetFinds` when `Get` does. `promised` and `writtenAt`
are history: what `Store` said yes to, and when.

Assumptions about the machine: what was synced survives a crash, with the
directory entry of its file; what was not survives in any part; the data of a
failed `Sync` stays in the file as long as the machine runs; the clock does not
go back; fewer than a hundred files are written in a week (a file's number is
two digits wide, and beyond that names sort in another order).

### Publisher, Connection, MonitorConnection, ProducerConnection

`Publish` is `BeginPublish` (read lock), one `Offer` for each subscription, in
any order, as Go goes over a map, and `EndPublish`. Subscribe and Close take the
write lock, so each is one step that waits until no worker is inside Publish.
`earlier`, `due`, `received` and `dropped` are history.

A connection is the goroutine that reads (`reader`), the `writePump` (`pump`),
the queue between them, and the socket. `send` either queues a message or makes
the reader write a close frame, after which gorilla/websocket refuses all further
writes (`socket = "closeSent"`). The reader ends by closing the queue and then
the socket without waiting for the pump, which may lose what is queued. `gone`
means that the client has left or does not read any more: writes may still
succeed for a while, then the write deadline passes.

In `MonitorConnection` the reader receives from the subscription and sends; the
monitor is not read from after its subscribe message. In `ProducerConnection`
the reader submits, waits for the outcome or for the timer, and sends a reply.
The dispatcher is here reduced to what `handleEvent` can see of it: an accepted
job ends once, with an error or by storing an event that was not stored before.
The details of both are in `Dispatcher` and `JSONFileStorage`.

### Server and EventService

`Server` extends `Dispatcher` and takes `JSONFileStorage` as an instance. The one
step `Store` of a worker is replaced: `StoreRefuses` (closed, duplicate, or a
failed Stat), or `StoreBegins` and then `StoreGoes` for each further call of the
file system. `storing` is the worker that has the storage's lock, so that the
others wait. `Stop` is the deferred Close after a signal and the HTTP server's
shutdown, `ServerExit` the return of main, `ServerCrash` a crash at any moment;
after both, queue, workers and callers are gone (`DispatcherGone`) and what was
answered, stored and published remains as history. `EventOf` says which
submissions are for the same event, which is how a producer's retry, before or
after a restart, comes in. Connections go on while the store is being closed,
for they are hijacked from the HTTP server.

`EventService` adds to `EventLedger` the durable events and `Die`: the process
ends, and what was in flight is lost. It persists an event at most once, by
one submission: `Store` succeeds for it once. That is not the number of its records on
disk, where an attempt whose sync failed may have left one more. The refinement
mapping is `ServicePhase`, with `durable` read
off the disk itself.

### RateLimiter

A request reads the clock (`ReadClock`), and some time later, at most `MaxDelay`
ticks, has the lock and is decided by the time it has read (`OpenWindow`,
`Count`, `Refuse`). Requests are numbered in the order in which they read the
clock, which is a choice of names and no restriction.

### EventProcessing, MemoryEventStore, MessagePath

Texts are a few classes by what the code does to them, maps and lists are trees
over such texts with keys that are sensitive, prohibited, both or neither.
`Sanitize` is, as in the code, `ReplaceSecrets` and then `SanitizeText`, so that a secret
split by a control character passes the first and is put together by the second.
`ProcessEvent` is, as in the code, the redaction, then the validation, then the
normalisation with the checks of depth and size. An error is the set of the
sentinels it wraps and of the words in it that `protocolError` looks for.

`MessagePath` handles a message of the one client in one step. What the queues,
the goroutines and the timeouts do to its answers is `ProducerConnection`'s and
`Dispatcher`'s matter; of the dispatcher only its refusal is left
(`RefuseSubmission`). The store is the in-memory one, as in the tests of the
handler. The specification of answers and of stored content (`AnswersAreTrue`), at the
end of the module, does not go through the code's steps: it speaks about the paths of
the event as it was sent. It asks for no error code but where an acceptable event is
refused; which codes the documents ask for is `RejectionsSayWhy`. A node is exposed
unless a sensitive
key is above it, an event is unacceptable if an exposed container is too deep or
an exposed key prohibited, and the stored map has exactly the exposed nodes.

## 3. Runs

| Run | States | Shows |
|---|---|---|
| `dispatcher` | 132 thousand | the safety properties and the refinement of `EventLedger`; every accepted job is answered and every Shutdown returns when the workers go on; Submit returns even if no worker ever moves again |
| `storage` | 2.4 million | until the first fault stored events are readable, once; always, the bytes of stored events stay for their retention and a failed event can be retried |
| `storage_torn` | finds | one short write or crash makes stored events unreadable |
| `storage_long_line` | finds | a stored record may be too long to be read |
| `monitor_safety` | 99 thousand | two workers, two monitors: order and completeness |
| `monitor_liveness` | 141 thousand | one monitor, four events: no holes, no closed channel used, publication returns, a slow monitor ends |
| `producer` | 356 thousand | replies and acknowledgements under retries, late outcomes and a full queue |
| `server` | 165 thousand | an event and its retry through crashes, exits and a restart: the refinement of `EventService`, durability, an answer as long as the process lives |
| `server_exit` | finds | main returns with accepted events unsettled and uncounted |
| `limiter` | 1.7 million | what passes the limiter at most, and when it may refuse |
| `messages` | 62 thousand | two messages of 271 kinds: what is acknowledged is acceptable and stored as it should be, what is refused has a cause; queries only grow |
| `messages_codes` | finds | a rejected event does not get the stable code for its defect |

A run that "finds" checks one statement of the documentation or of a comment
that the code does not keep; see section 6.

Why the bounds are enough for the cases that matter:

- *Dispatcher*: two submissions with a queue of one, so that the second finds it full,
  or both are with workers, and jobs overtake each other; two workers; two Shutdowns,
  so that the Once is contended; one job whose context can be cancelled. Safety is
  proved for any numbers (section 4); liveness is checked here only, without symmetry,
  and that is what keeps the submissions at two.
- *Storage*: a short, a long and a huge event (2, 3 and 6 units) and files of 5:
  a short and a long one fill a file to its last unit, the huge one never fits.
  Weeks of two ticks and a retention of one make files of several weeks exist
  together and expire. Two faults let a torn line be followed by a failing one;
  a restart shows what the load repairs. `LineLimit` is 6 where every line is
  readable, and 5 in `storage_long_line`.
- *Monitor*: buffers of one, so that both the channel and the queue fill; two
  workers publish two events at the same time to two monitors. In the liveness
  run four events go to one monitor: one for the queue, one in the reader's hand,
  one for the channel, and one that finds all three taken while the monitor is
  being torn down.
- *Producer*: three requests over two events, so that at least one event is sent
  twice; a queue of one.
- *Server*: two submissions of one event, two workers and a queue of one, so that
  the retry meets the first in the queue, at the lock, on disk, after a crash in the
  middle of a write and after a restart; one fault, two restarts, one change of week. `server_exit` has
  a third submission, of another event, and no faults: an orderly exit is enough.
- *Limiter*: windows of two ticks, two of which fit into the time, and no burst
  meets more; a limit of two; a wait for the lock of up to one tick; six
  requests, two more than may pass in a burst, under two keys.
- *Messages*: a hello and two messages, so that the second can repeat the first
  or meet a closed store; an event differs from a plain one in one or two things.
  Contexts have up to three levels, on both sides of `MaxMapDepth` = 2 (8 in the
  code): the depth is counted up by one for a map and for a list, so every
  combination of the two around the limit is there. `messages_codes`
  needs a hello and one event.

`CHECK_DEADLOCK FALSE` is in the configurations of the storage and of the server,
where the clock, the faults and the restarts are used up, in those of the
connections and messages, which end, and in that of the limiter, whose requests are
all decided in the end. The dispatcher is checked for deadlock: `Finished` is the only state in
which it may stand still.

### Fairness

- Goroutines that can run do run: weak fairness of `SubmitStep`, `ShutdownStep`
  and `WorkerStep`. Nothing obliges a caller to call, to read its result, or a
  deadline to pass. `StalledSpec`, with which the run checks, leaves the workers
  out, because a store may hang: `SubmitNeverBlocks` holds all the same, and
  `AcceptedIsAnswered` and `ShutdownReturns` say `WorkerFairness => ...`.
- In `Server` the workers are fair; whoever waits for the storage's lock gets its
  turn only by weak fairness, which is enough since the lock's owner is a worker
  whose calls of the file system return. Signals, crashes and starts are free.
- `Unsubscribe` has strong fairness: the write lock of an RWMutex keeps new
  readers out while somebody waits for it, so the waiter gets it although workers
  keep coming.
- The pump's steps are weakly fair: every write has a deadline, and a ping is
  sent every 54 seconds, so that writing to a client that is gone fails at last.
- A producer's reader fails when the client is gone (read deadline, extended
  by pongs only), and its wait for an outcome ends by the timer. Nothing is
  assumed of the dispatcher there.
- No fairness is given to the client or to the handshake.

## 4. Proofs

Every safety invariant and action property of a passing run, and both refinements,
is a theorem, for every value of the constants that the named assumptions allow;
`MessagePath` alone is the exception (see "Only model-checked" below). Hardly one of
the properties is inductive as it stands. What is proved to be inductive, and why it
has to say more than the properties, follows for each component. In each of the
modules `Init` establishes the invariant, each action preserves it by a lemma of its
own, and the properties follow from it at the end.

The assumptions say what the code checks or what its types give: sizes, limits and
durations are positive (the constructors refuse or replace others); there are
finitely many workers (`NewDispatcher` is given their number); callers of Submit and
of Shutdown are different goroutines; place holders such as `NoEvent` are no events
and no messages; a subscription is a monitor's connection; replies are neither the
error message nor the place holder for no message. One is about the machine: a request
waits for the limiter's lock, which is held for a few instructions, for less than a
window. Counters that only bound a run (`MaxTime`, `MaxFaults`,
`MaxRequests`, ...) may be any numbers. Two theorems have a hypothesis more, that no
record is longer than what the reader of files accepts (`LinesFit`): without it they
are false, which `storage_long_line` shows.

### Dispatcher

`DispatcherProofs` and `DispatcherRefinement` prove everything that
`dispatcher` checks of safety. `CoreInv` adds to the properties:

- `MutexInv`: who is in a critical section holds the mutex, and the flag a
  Submit has seen is still set while it is in there;
- `OnceInv`: the queue is closed exactly when the Once is finished, and never
  while the flag is set; with `MutexInv` this gives `NoPanic` for the queue;
- `VerdictInv`: only an accepted caller waits, and only a finished one has read
  a reply;
- `WorkerInv`: a worker holds a job from the receive to the close of its
  channel, and has left only when the queue is closed and empty;
- `PlaceInv`: a job is in one place at most;
- `EffectInv`: what has been stored, published and answered for a job follows
  from where the job is. This is what makes an acknowledgement mean something;
- `DrainInv`: a drained Shutdown has seen all workers leave.

`IInv` is `CoreInv` and that no accepted job is `Lost`. The two are apart because
in the service the process may end, which loses jobs and keeps `CoreInv`.

The queue's steps rest on two lemmas about `Append` and `Tail`. For the count that
an expired Shutdown returns (`PendingBounds`) the queue is counted by the bijection
from its places to its jobs, and the jobs in the hands of busy workers by the surjection
from those. The refinement theorem shows that each action, in a state of
`IInv`, is one step of `EventLedger` or leaves its variables alone: `SelectSend` is
`Accept`, a successful `Store` is `Persist`, `Publish` is `Announce`, `Reply` is
`Confirm` or `Report`, a failing `Process` or `Store` is `Reject`, `StopAccepting`
is `Close`, and `ReturnDrained` is `FallQuiet`.

### Storage

`StorageProofs` proves everything that the run `storage` checks. `StorageInv` adds
to the properties what `Store` relies on about the file it has open:

- the event it writes is unknown, hence not acknowledged: a crash that tears its
  record takes nothing from an acknowledged event (`WriterInv`, `TornFile`);
- the file had room, or was empty, when it was chosen, and nobody else has written
  to it since. That there always is such a file is a lemma of its own
  (`FileForWriteFits`): of as many numbers as there are files, and one more, one is
  not taken;
- until the sync the record is the last one of its file (`EndsWith`);
- while the process is up, acknowledged events are known, and known ones on disk or
  expired (`KnownInv`). After a crash only the first half remains, that the
  acknowledged events are on disk; the next start loads them and with them the
  second.

For `NoEarlyRemoval`, `FreshInv` follows each acknowledged event to a file that has
its record and was not written to before the event was. An event may be in several
files, because of failed attempts, and a rotation that stops early may leave it in
an older one; the invariant then says that the event itself is too old. For
`OnceUnlessFaulty`, `OnceInv` says that until the first fault a running process
knows all that is on disk, but for the record that waits for its sync
(`KnowsDisk`). For `ReadableUnlessFaulty`, `WholeInv` says that until then every
record of every file is whole, up to the one being written.

### Server

The storage inside the service is shown to be a behaviour of `JSONFileStorage`
(`ServiceStores`), so that `StorageInv` and what follows from it hold there without
being proved again; the service takes those steps one at a time on behalf of
the worker `storing`. The dispatcher inside the service is not a behaviour of
`Dispatcher`, for its process ends, but each of its other steps is, so that the
lemmas about `CoreInv` apply, and the end of the process keeps it. What joins the two
is `ServerInv`:

- `StoringInv`: the storage writes exactly for the worker that is in `Store` and has
  its lock, and the event of that worker's job;
- `LostInv`: a job that was lost with the process stays as far as it had come, and
  was stored before it was published or answered with success;
- `StoredInv`: the event of a stored job is acknowledged by the storage.

With the storage's theorems `StoredInv` gives `ToldOnDisk`, whatever fails, and
`ToldDurable` until the first fault. `ServiceRefinement` maps the steps as in the
dispatcher's refinement, with `durable` read off the disk: a worker's `Store`
persists an event when the storage does and no earlier job has, which is where
a retry could go wrong (`StoresOnce`), and every end of the process is `Die`
(`GoneIsDie`).

### Publisher and monitors

`MonitorProofs` proves that no event is sent on a closed channel, that no open
subscription that wants an event is left out, and that each subscription gets its
events once and in order. A worker's unvisited subscriptions are open, because
Close waits for the readers (`LoopInv`); each due subscription is unvisited,
served or was full (`DueInv`). For the order, an event is published by one worker
and never again, and a subscription that a worker has still to visit does
not have its event (`OrderInv`). So when an event is appended at a subscription, no
event that was published after it is there.

`ForwardProofs` follows the events through a monitor's connection. The messages
that have left its queue and those in it are numbered (`Taken`, `Total`), and
`PathInv` says that message number k, wherever it is on its way, is event number k
that the subscription gave, or an error after which there is nothing; and that none
is missing while the client can still be reached (`Live`). Once it cannot, the queue
may lose messages, and what has reached the client stays a first part
of them. `WireInOrder` and `ForwardsAll` are the two readings of this.

### Producers

`ProducerProofs` numbers the replies in the same way: message number k on its way
to a producer is the reply to its message number k (`Right`), and says
acknowledged only if that job was stored. A reply is missing only for the message the
reader is at (`QueueInv`). That a reply may be dropped for lack of room does not
make a hole, because the close frame that follows stops the writes, so that nothing
is `Live` after it.

### Limiter

Windows are not in the limiter's state, but for the start and the count of the
current one. `WindowInv` says that the served requests of a key can be split
(`Split`) into those of the current window, as many as its count and none older than
its start; those of the window before, at most the limit; and older ones, which were
decided at least a window, less the longest wait for the lock, before the start of the
current one. A stretch of time shorter than that meets only the first two. A
refusal has the first before it, and nothing undoes that later. `Settled` and
`ServedBy` are the lemmas: a decided request stays as it is, and is decided by the
clock of the moment.

### Only model-checked

- All liveness properties: `ENABLED` and fairness are outside the reach of the
  prover.
- `AnswersAreTrue` and `QueriesOnlyGrow` of `MessagePath`. `EventProcessing` is
  recursive over data, which the prover cannot do induction on, and a module with
  recursive operators cannot hold theorems.
- The four statements of the documentation that do not hold (section 6).

## 5. What does not hold, by design or otherwise

These are the limits of the properties above, and worth knowing:

- Until the first fault every event is on disk once. After a `Store` whose sync
  failed, the record is in the file but its ID is unknown, and a retry writes it
  again (`OnceUnlessFaulty`).
- An error reply does not mean that the event was not stored: after ten seconds
  `handleEvent` answers with an error while the job goes on. A retry is then
  refused as a duplicate. At the dispatcher's own interface an error is reliable
  (`ErrorMeansNotStored`).
- A monitor that vanishes silently, while no event comes, keeps its
  goroutine and its subscription: nobody reads from its socket, and when the pump
  has stopped nothing wakes the reader. Hence `SlowMonitorEnds` starts when the
  queue is full.
- A client that never sends its hello keeps its goroutine, for the hello is read
  without a deadline. Hence `GoneProducerEnds` starts after the handshake.
- Rotate leaves the IDs of the events it removes in `knownIDs` until the next
  start: they are refused as duplicates although `Get` does not find them
  (`KnownOnDiskOrExpired` excepts expired events and says nothing against it).
- Nothing but the tests calls `Rotate`: the service itself removes no file, and the
  retention setting has no effect in it. The models let it be called at any time.
- main never calls `Dispatcher.Shutdown`, and the HTTP server's Shutdown does not
  know hijacked connections. What the dispatcher guarantees about draining is
  therefore not used when the service ends (`server_exit`).
- The count that an expired Shutdown of the dispatcher returns leaves out the jobs
  that workers hold; `PendingOffByWorkersAtMost` says how far off it can be.
- A monitor whose channel in the publisher is full loses the event and stays
  connected with a gap it is not told of. It is disconnected only when its outbound
  queue is full (`SlowMonitorEnds`).
- An event without an ID that is sent again, because its answer was lost, is
  stored again under another ID.
- `protocolError` never sends `INVALID_EVENT` or `UNSUPPORTED_EVENT_LEVEL`
  (`messages_codes`). A duplicate is answered with `INTERNAL_ERROR`, not as the same
  event; the blueprint asks for that "where feasible" (BLUEPRINT.md:331). So is a
  failing store, which the blueprint allows (BLUEPRINT.md:330).
- The blueprint documents INVALID_EVENT for a missing level (BLUEPRINT.md:212-221) and
  lists MISSING_REQUIRED_FIELD as well, without saying for what. `RejectionsSayWhy`
  takes the example for the level and lets the other required fields have either code.
- The redaction recognises a secret only in one piece: `sanitize` looks for secrets
  before it drops control characters (redaction.go:70-84), so a secret whose name has one
  in it (`pass\u0000word=x`) is put together by the second step and stored as `password=x`,
  against the repository's README.md:33-34 and BLUEPRINT.md:361. `AnswersAreTrue` allows a stored secret in
  this case and no other. The same holds of keys, whose cleaning comes after the look at
  them; the models have clean keys.
- A monitor's subscription is never confirmed: the blueprint answers it with a
  `subscription_ack` (BLUEPRINT.md:256-264), and contracts/message.go:73 has its type, but
  `handleSubscribe` sends nothing before the first event (`Subscribe` has no reply).
- The limiter keeps the window of every key it has ever seen, and lets up to twice
  its limit pass around the boundary of two windows (`BurstBounded`).
- Two keys of a context that become equal when cleaned share one entry, and the
  order of Go's iteration decides whose value stays. The models have clean keys.

## 6. Findings

1. `storage_torn`: a short write, or a crash before the sync, leaves a part of a
   line that nothing removes. The next record is glued to it; `readEvents` then
   fails for the whole file, `Get` and `Query` fail for stored events and the
   next start fails.
2. `storage_long_line`: `Store` writes lines of any length, `readEvents` reads
   lines up to one MiB. One such record has the same effect without any fault.
3. `server_exit`: the blueprint drains the queue at the end, and has the events
   counted that cannot be persisted. main closes the store and returns, with
   accepted events in the queue or with the workers.
4. `messages_codes`: `protocolError` knows none of the event processor's errors. An
   invalid event or an unsupported level is an `INTERNAL_ERROR`, a missing level
   is a missing field because its text has "required" in it, and a level with such a
   word in it gets that word's code; the blueprint and `publicErrorMessage`
   have stable codes for these. In the trace it is an event from before the year 2000.

## 7. Not modelled

- `ServeHTTP` up to the upgrade: comparisons of headers with settings, without
  state. The routes, CORS, the health handlers, the logger: wiring and output.
- Configuration, contracts and ports: types, and values read once, which are the
  constants of the modules. The sample client is not part of the service.
- `ConnectionLimiter`: nothing in the service uses it.
- Which texts the regular expressions of the redaction match, and what control
  characters are: texts are classes of what is done to them. A class stands for what the
  steps do to a text in their order.
- Texts that are not valid UTF-8: the JSON decoder replaces what is not, so that
  `ErrInvalidUTF8` cannot come up over a connection.
- The HTTP server, TLS and the WebSocket library appear only through what the code
  can observe of them (a read or write fails, the close frame ends all writes).

## 8. Plan

The safety properties of the passing runs have their theorems, but for those of
`MessagePath`. What would add to the project, in this order:

1. *In-memory storage*: that `Store` and `Close` keep what queries have returned is
   not recursive; with a next-state relation of its own `MemoryEventStore` could have
   a theorem where `MessagePath` has a run.
2. *Producer and dispatcher*: `ProducerConnection` has a small dispatcher of its own.
   That the real one implements what `ProducerConnection` assumes of it follows from
   `ErrorMeansNotStored`, `AckOnlyAfterStore` and `NoResultLost`, but is stated
   nowhere as a refinement.
3. *Limiter and server*: the limiter stands before the WebSocket handler and
   decides who becomes a connection; the two are not composed.
