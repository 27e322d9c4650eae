# A TLA+ model of agentsmith

agentsmith follows a log file, extracts the addresses of offending hosts with a
regular expression, counts their occurrences, runs an *action script* for every
host that reaches a threshold, forgets hosts that have been quiet, and tells
other agentsmith instances about the hosts it has acted upon. This directory
holds TLA+ models of its components, TLC configurations that check them on
small instances, and TLAPS proofs.

All line numbers are those of `src/src/`, unless another path is given.

## 1. Inventory

| component | state | operations | talks to |
|---|---|---|---|
| host record store, `records.c` | `hr_vector`, its size and fill, `vector_mutex` | add an address, add a received record, remove, enumerate (now or in a detached thread), maintenance, destroy | called by everything below |
| action and maintenance threads, `threads.c` | thread ids, cancellation | `action_thread` (walk every 0.5 s, run the script, mark stale records, flush the client batch), `maintenance_thread` (free marked records), `threads_stop` | store, client, script |
| client, `network/cli/client.c`, `clientqueue.c` | the batch `temp_hr_vector`, one queue and one worker per peer | queue a record, flush, append, send, start, stop | action thread, peers |
| server, `network/srv/server.c` | listening sockets, `worker_semaphore` | select, accept, spawn, shutdown and clean-up | workers |
| server worker, `network/srv/worker.c` | one connection, one slot | wait, handshake, read commands, add records | store, semaphore |
| log follower, `follow.c` | stream, last position and size, `stop` | stat, reopen, read to the end, stop | log writers, regex |
| main, `main.c`; signals, `sighandler.c` | order of start and stop, pid file | SIGTERM/INT, SIGUSR1 (print), SIGUSR2 (purge), SIGHUP (reload exclusions) | all |
| exclude list, `exclude.c` | vector of networks, `exclude_mutex` | add, clear, look up, read the file in a detached thread, destroy | follower, worker, SIGHUP |
| wire format, `network/netshared.c` | none | encode and decode a command, write and read it in pieces | client, worker |
| regular expression, `regex.c` | the compiled expression | prepare, match a line and add the host it captures | follower, exclude list, store |
| configuration, `cfg.c` | `CONFIG` | defaults, one option per line, sanitise, check paths | read by all |
| SSL, `network/netssl.c`, `sslutils.c` | two contexts | initialise, handshake, free | main, client, worker |
| output, malloc | none | – | – |

What is hard here:

* five kinds of threads meet at `vector_mutex`, and a walk keeps it while
  scripts run; `records_destroy` does not take it at all;
* threads are stopped by cancellation, which takes effect inside `system()`
  and not inside `pthread_mutex_lock`;
* the vector is sparse: freed slots are reused, its fill moves and maintenance
  cuts it to whole chunks;
* a mark for removal is set by one thread and honoured by another later on,
  with sightings and records of peers in between;
* one batch, several queues and several workers with a condition variable;
* slots are counted by a semaphore that the listener reads and workers take;
* the log file is looked at with `stat` and read through a stream that may
  belong to another file, into a buffer that outlives both;
* the exclude list is cleared and refilled line by line while it is in use,
  perhaps by two readers at once;
* three kinds of threads are detached, and nobody waits for them before what
  they use is freed.

`PROJECT.json` lists the hazards line by line.

## 2. Modules

```
HostRecord ──> Enforcement ──> EnforcementProofs     ClientQueue ──> ClientQueueProofs
     └───────> RecordVector ─> RecordVectorProofs    Server ──> ServerProofs
                  └─ E == INSTANCE Enforcement       Follow ──> FollowProofs

ExcludeList ──┬──> Intake ──> IntakeProofs           Config ──┬──> Daemon ──┐
Wire ─────────┘                                      Shutdown ┘             ├─> DaemonProofs
                                                     Config ─> ConfigProofs ┘
```

RecordVectorProofs also takes `P == INSTANCE EnforcementProofs`, with the same
substitution, so that what is proved of the abstract store holds of the vector.
Each `MC*` module extends one module and gives values to its constants.

**HostRecord** – `hostrecord_t` and the pure changes to one record: first
sighting, further sighting, merge with a peer's record, threshold and expiry
test. A record carries the settings of the instance that made it; since these
change only together with the origin, they are functions of the origin.
`lastseen = 0` means "seen once", as in the code, so the clock starts at 1.

**Enforcement** – what the program promises: at most one record per host,
changed one host at a time, and what this makes the script see. `blocked[ip]`
is the number of `new` calls less the number of `remove` calls. An
inaccessible script (`access()` fails, threads.c:113) is a choice when
`AccessMayFail`; a script that fails after that counts as called.

**RecordVector** – the vector itself. Lookup, insertion with growth and a
failing `malloc`, further sightings and merges are one step each, since they hold the
mutex from end to end; a walk of the action thread, of maintenance or of
SIGUSR2 is one step per slot, with time passing in between. It implements
Enforcement: `store` is read off the slots (`Store`).

**ClientQueue** – a record is the number of its `client_queue_record` call.
`flush` is the loop variable of `client_queue_flush`; each append and each
taking of a queue is one step, because it holds the queue's mutex. Connect,
handshake and write fail at will. `sockfd` is the socket the worker holds,
`lost` counts those that a further attempt overwrites. Entries that nobody
frees are in `leaked`. `misuse` is set when the action thread uses what
`client_stop` has freed. A cancelled worker frees its queue in one step: an
append in the middle of that walks freed entries just as one after it, and both
are misuse.

**Server** – listener and workers. `conn[c]` says where a connection is, from
the kernel's backlog to its close: `closed` after its commands have been read,
`unserved` where the worker gave up before that, because a signal interrupted
its `sem_wait` (worker.c:132, no slot is taken or posted), nothing came in time
or the handshake failed. A worker holds a slot from `sem_wait` to `sem_post`.
`accept` and `pthread_create` may fail, and an error of the listener's `select`
ends the server thread (server.c:331).

**Shutdown** – `threads_stop` and `records_destroy` against the two threads and
detached walkers. Records are abstracted to none / new / processed. `blocked`
is what the scripts have done. `_do_action` returns without a word to its
caller when `access()` or `system()` fails: the record is then processed, or
freed, all the same, and a host that should have been unblocked is in `skipped`.
A thread
cancelled in `system()` ends with the script killed half-way (`interrupted`)
and the mutex locked. Error messages inside a walk are optional cancellation
points in POSIX; a thread cancelled there would leave the mutex locked as well
and is not modelled separately.

**Follow** – the loop of `follow()`, with pieces for bytes: a line is written
in two, at once or one after the other. `BUFF` keeps what `readtoeof` has read of
a line, from one call and one file to the next. A read error leaves the
stream's indicator set. The branch for a changed inode is left out, because
`curino` is assigned only once, before the loop (follow.c:166), so it cannot run.

**ExcludeList** – the vector of networks, with words as functions from bit
numbers to bits, masks computed as in the code (a shift for IPv4, bytes and a
rest for IPv6), and readers that open some version of the file, clear the list
and add line by line. Each function holds the mutex from end to end and is one
step. `loaded` records the lines added since the last clear, to compare
look-ups with; `ignored` the readers for one of whose lines memory ran out.
The shift of a 32 bit word by 32 (exclude.c:702) is undefined and may give either mask.

**Wire** – `net_command_to_buff` and `net_buff_to_command` as operators on
sequences of bytes, for either byte order.

**Intake** – the two ways of a host into memory, `regex_do` and a command from a
peer over a byte stream that moves any number of bytes at a time and may break,
each with the test against an ExcludeList that may be changing. The build
without SSL is modelled, since short counts are possible only there.

**Config** – `config_read`: open, one option per line with `_config_sanitize`
after it, path checks, default for `listen`. A path is what `access()` says of
it, a list of addresses is the outcomes of `getaddrinfo`.

**Daemon** – `main()` from the configuration to `exit()`, composed of Config and
Shutdown. The regular expression, the SSL contexts, the exclude list, the vector
and the client (its queues and batch) are members of `live` from their
initialisation to their end. `threads_start` creates one thread after the other
and ends the process when one cannot be created, with those before it running.
The action thread is in the client (`informing`) from its look at
`client_started` until its call returns; `client_stop` frees the client in one
step and clears `client_started` in the next, before `threads_stop`. A detached
worker, reader and walker may outlive what they use. Whoever uses what is not
live goes on or brings the process down, and `outcome` says who it was. The pid
file is removed at the end, or `unlink` fails and it is `left`. Signals come at
any time; before the handlers are set they kill the process.

## 3. Runs

| run | properties | states | shows |
|---|---|---|---|
| `enforcement` | TypeOK, ScriptsMatchMemory, RelayedAreLocalOffenders, OffenderNotForgotten, OffenderActedUpon, StaleHostPurged | 24 168 | calls of the script match memory through expiry, merge, SIGUSR2 and the end; only local offenders are relayed; no unpunished offender is marked, each is acted upon, silent hosts leave |
| `vector_structure` | TypeOK, FillCoversRecords, OneRecordPerHost, WholeChunks, MaintenanceGivesBack | 1 953 520 | every record stays where lookups find it, and memory is given back |
| `vector_refines` | ImplementsEnforcement | 543 281 | the vector with its lock and walks implements Enforcement, with a peer, with relaying of local offenders and with SIGUSR2 |
| `client` | TypeOK, NothingLostOrDoubled, ReceivedInOrder, DescriptorLossBounded, EveryRecordSettled, ClientStopReturns | 240 313 | every record is in one place for every peer, arrives in order and is settled; the loss of descriptors is bounded; the stop ends |
| `client_stop_race` | NoUseAfterFree (violated) | – | see 6 |
| `server` | TypeOK, SlotsConserved, EveryConnectionAccepted, ServerThreadStops, EveryConnectionServed | 62 224 | slots are conserved; stalling clients block neither the listener nor the stop; no worker waits for a slot for ever |
| `daemon` | DaemonTypeOK, ConfigSound, OneInVector, NothingUsedTooEarlyOrLate, CleanExit, TermEndsDaemon | 231 582 | the options are sane; what threads use exists, with three exceptions; an exit with 0 accounts for the pid file and every blocked host; SIGTERM is not lost, and the stop hangs in two ways only |
| `shutdown_hangs` | ShutdownCompletes (violated) | – | see 6 |
| `follow` | TypeOK, EachLineOnceInOrder, OneLineSpoiltPerChange, LinesInPlaceMatched, FollowReturns | 249 813 | no line twice, one spoilt per change of file at most, none of a file in place missed |
| `follow_rotated` | EveryLineMatched (violated) | – | see 6 |
| `intake` | IntakeTypeOK, LookupMatchesLines, LastReaderComplete, CommandsIntact, AssertionHolds, ListedPassOnlyInReload | 1 384 740 | look-ups agree with the lines read, also with two readers; commands arrive unchanged in pieces and between byte orders; a listed host passes only during a reload |
| `exclude_reload` | ExcludedNotRemembered (violated) | – | see 6 |

Every property has a mutant, a plausible slip in the code it is about, under
which TLC finds it violated (`Mut*` in the modules).

### Bounds

* *Enforcement*: one host and one peer. Hosts do not interact in this module
  except through the batch, which the theorems cover for any number. Four ticks
  with `time_interval = purge_after = 1` let a record age, be marked, be seen
  again and be purged; three occurrences exceed the local threshold of 2.
* *RecordVector*: four hosts and three chunks of two slots for the structure, so that
  holes, reuse below the fill, growth and a cut over more than one chunk
  happen. The refinement has two hosts, chunks of one slot and two ticks, since each step
  is checked against the abstract module; the structure is proved for all
  values. `MaxCalls = 2` leaves room for one call too many on either side.
  `records_remove` is called by the tests only (`TestApi`) and drops a record
  without the script, so it is in the structure run and not in the refinement.
* *ClientQueue*: two peers, a batch of one and two records, two connection attempts: a full batch, a
  forced flush with a pending record, and a queue that grows while its worker
  is sending.
* *Server*: three connections on two sockets for two slots, so one comes too
  many; `MaxWaitWorker = 2` instead of 10.
* *Daemon, Shutdown*: two hosts, so a walk is cut short between them, one
  detached walker, one worker, and seven configuration files: one that
  informs, one that serves, and one for each way in which the start is refused
  (certificates missing or unusable, a second `listen` line, no action script, a
  bad expression).
* *Follow*: two files, one read error, and four lines of two pieces: one is
  left half written, one is glued to it, the others must be whole again. The file is
  truncated at most once, and only where nothing else happens to it: two
  properties promise nothing after a truncation. With a third file
  EachLineOnceInOrder does not hold (see its comment).
* *Intake*: words of two bits and IPv6 addresses of two bytes, so that prefixes
  on and off a byte boundary, 0 and the full width occur; two readers and two
  versions of the file; vector chunks of one line, so that it grows; commands of 15 bytes,
  written and read in pieces of at most 8, so that each is cut in two.

The instances stop at their bounds, and the daemon itself waits for input for ever or ends, so
deadlock is not checked; that things go on is stated as liveness.

### Fairness

* *Enforcement*: weak fairness of the action callback and of the purge per host: both
  threads loop for ever and visit every record in each round.
* *ClientQueue*: weak fairness of each thread's steps; peers may refuse for
  ever, but calls to them return. The action thread flushes in every round.
  A cancellation stays pending until a cancellation point is reached, hence strong
  fairness of it.
* *Server*: weak fairness of the listener and of what workers do on their own;
  nothing is asked of clients. Strong fairness of an accept that succeeds: the
  process is not short of descriptors for ever. `EveryConnectionServed` has
  as its premise that clients go on (`ClientsGoOn`). Signals and errors are
  never required: a worker that waits for a slot has to get one.
* *Shutdown, Daemon*: main and the threads go on and scripts end; strong fairness of taking the mutex, since the
  threads sleep between rounds, and of a pending cancellation. Nothing is asked of
  detached threads except that a walk once begun ends, and nothing of the action
  thread while it uses a client that has been freed.
* *Follow*: weak fairness of the loop; a file that is there can in the end be opened.
* *Intake*: safety only.

## 4. Proofs

`tlapm` checks eight modules for all values of the constants. The assumptions
are the named ASSUMEs of the modules, which TLC evaluates in the runs. Every
safety invariant that a run checks is a theorem, the action properties of
RecordVector and Intake and the refinement too. Each inductive invariant was
model-checked on the instance of its run before it was proved.

**EnforcementProofs** – `EnforcementTypeOK`, `ScriptsMatchMemoryHolds` (for an
accessible script), `RelayedAreLocalOffendersHolds` and
`OffenderNotForgottenHolds`. The last one needs `time_interval <= purge_after`
at every origin and holds until SIGUSR2 asks for everything to be purged. By
itself "an offender that is marked has been processed" is not inductive, as a
marked host below the threshold might be seen again. `ExpiryInv` adds that the
window of a marked unprocessed record has closed, so no later sighting counts;
a record of a peer brings a cleared mark.

**RecordVectorProofs**

* *Structure*: `RecordVectorTypeOK`, `FillCoversRecordsHolds`,
  `OneRecordPerHostHolds`, `WholeChunksHolds`, `MaintenanceGivesBackHolds`. The
  invariant is TypeOK together with `Shape` (the three structural properties)
  and `WalkerCounted` (a SIGUSR2 walk that holds the mutex is among the walks
  started). One record per host needs the fill: an insertion follows a lookup
  that only sees slots below it. `ChunksForBounds` is the arithmetic of
  rounding up to chunks.
* *Refinement*: `RefinesEnforcement`, without the test-only `records_remove`.
  The store is read off the slots; as no host has two records, a host's record
  is that of *the* slot that has it (`StoreIs`), so that changing one slot
  changes one host (`StoreStep`, `StoreSlot`), an insertion adds one
  (`StoreInsert`) and growth or a cut none (`SameRecords`). Each kind of step then maps to
  one step of Enforcement, or to none (`StepRefines`).
* *Transferred*: `VectorScriptsMatchMemory`, `VectorRelaysLocalOffenders` and
  `VectorForgetsNoOffender` follow from the refinement and the theorems about
  Enforcement, under the same hypotheses.

**ClientQueueProofs** – `ClientTypeOK`, `NothingLostOrDoubledHolds`,
`ReceivedInOrderHolds`, `DescriptorLossBoundedHolds`. Neither "each record is in
one place" nor "received in order" is inductive alone: `QueuesOK` says that the
lists a record passes are rising, each before the one that flows into it, and
that lists and sets partition the calls made. `Control` ties the place of the
flush, of the workers and of main to each other; `SocketsCounted` counts what
the attempts of the current batch have lost so far.

**ServerProofs** – `ServerTypeOK` and `SlotsConservedHolds`, by `SlotInv`: that
`sem` stays within `maxinconnections` needs that whoever posts has taken a
slot, so both are proved together, with the cardinality of the holders.

**ConfigProofs** – `ConfigSoundHolds`, for every configuration file. "The
options are in range" is not inductive as it stands: before the first line
`server_backlog` is 0. `ConfigInv` says that the backlog matters only with
`server = 1`, which is set by a line and so followed by a sanitising; that types
survive every assignment (`AssignedTyped`) and that sanitising makes sane what
is typed (`SanitizeMakesSane`) are lemmas of their own.

**DaemonProofs** – `ShutdownOneInVector` (of Shutdown alone), and of the whole
process `DaemonTypes`, `DaemonOneInVector`, `DaemonConfigSound`,
`NothingUsedTooEarlyOrLateHolds` and `CleanExitHolds`. `VectorInv` holds in every
step of Shutdown, also of those that Daemon restricts: a host that is blocked has
a processed record, or its script was killed or not run (`BlockedAccounted`).
`PhaseInv` says what is live in each phase of main (`LiveInPhase`), when the
action thread can be in the client, and that it is dead once records are
destroyed (`ClientInPhase`), that nothing acts before the threads run
(`QuietBefore`), that the destruction leaves no record (`RecordsGone`), and that
only a daemon has a pid file.

**IntakeProofs** – `IntakeTypes`, `LookupMatchesLinesHolds`,
`LastReaderCompleteHolds`, `CommandsIntactHolds`, `AssertionHoldsAlways`,
`ListedPassOnlyInReloadHolds`.

* The masks, for any width of word and byte: `Masks4Compare` and
  `Mask6Compares` say that the two ways of computing a mask compare exactly the
  first bits of an address.
* The list: `Represents` relates each slot in use to a line and each line to a
  slot, below the fill; `ReadersInv` says that the reader that cleared last
  has added all that it has read.
* The wire: `RoundTrip`, decoding inverts encoding for fields of any size
  between machines of any byte order. It goes by nine statements that a field
  lies behind the part before it (`FieldBehindPart`).
* The connection: what is in the buffer, in the stream and still to be written
  is, put together, the encoding of the commands not handled yet (`Flow`).

**FollowProofs** – `FollowTypeOK`; `EachLineOnceInOrderHolds` for a file that
changes at most once (`MaxFiles <= 2`; TLC shows it violated with three files,
since `lastpos` may then be the size of neither file concerned);
`OneLineSpoiltPerChangeHolds` for any number of changes. `World`
says that the pieces of a file are consecutive and those of a newer file come later.
The order needs `Position`: once the second file is read, `lastpos` was its
size at some time, so it never seems to have shrunk. The bound on spoilt lines needs `Spending`: there are
files g and m, whose sizes `lastpos` and `curpos` do not exceed, and g - 1 pays
for the lines spoilt so far and the one being read. A file seems to have shrunk
only if m is newer than g, and then m pays for one line more.

One definition could not be reasoned about and was changed: the outcomes of
`AfterADD` (Intake) were a CASE whose guards overlapped, for which TLA+ leaves the choice
open; it is now in the order of the tests in worker.c.

Only model-checked: all liveness properties, since fairness and ENABLED are beyond the
prover. The four violated properties of section 6 are TLC's findings.

## 5. Not modelled

* output and the malloc replacement: no state.
* what OpenSSL, PCRE, the resolver and the kernel do: their outcomes are
  choices; certificate checks and the locking callbacks of `sslutils.c` are OpenSSL's business.
* log lines that exceed `BUFFSIZE`, which are cut into pieces by `readtoeof`.
* a change of the log file between the first `fopen`, `stat` and `fseek`
  (follow.c:154-171): Follow starts after them, with the three in agreement. In
  Daemon the file may be gone by then, which ends the process. If another file
  took its place just then, the position would be the size of that one.
* a look-up of a host with a `/`: `_records_find` asserts that it has none or
  the full prefix (exclude.c:451-456). Hosts come from the expression's capture
  or from a peer; the model has addresses, and what `inet_pton` refuses.
* `sem_wait` and `sem_post` on the semaphore after `sem_destroy` (server.c:254).
* locks of the C library inside signal handlers (sighandler.c:150).
* exits for want of memory, where no handling follows; `occurrences` and
  descriptor counters near 2^31, since no bounded instance gets there.
* an empty configuration file: `config_read` then parses a line it has never
  read (cfg.c:613).
* options that only print, daemonising: before any state exists.
* `records_get`, which reads one record for the tests.

## 6. Where code and text disagree

Shown by a run:

* `shutdown_hangs` – the manual says that SIGTERM terminates agentsmith gracefully. If the
  maintenance thread is cancelled while `system()` runs the script of a purge,
  `vector_mutex` stays locked; the action thread waits in
  `pthread_mutex_lock`, which is no cancellation point, and `main` waits in
  `pthread_join`. `TermEndsDaemon` says that this and the next one are the only
  ways.
* `client_stop_race` – `main` calls `client_stop` before `threads_stop`, so
  that the action thread may append to a freed queue or free the batch twice.
  `NothingUsedTooEarlyOrLate` says that, of the threads main waits for, it is
  the only one that can meet freed memory, and only there.
* `follow_rotated` – the manual says that each new line is matched. A rotated
  file is noticed only while its successor is shorter at some `stat`; otherwise
  the old file stays open.

* `exclude_reload` – the manual says that hosts in the exclude file are not
  remembered. SIGHUP clears the list and fills it line by line, so that a host
  in both the old and the new file may pass in between.
  `ListedPassOnlyInReload` says that it passes at no other time.

Met while modelling, described here without a run:

* the time window starts at the first sighting for as long as the record
  lives (records.c:390); the manual speaks of occurrences within a time span;
* a marked host that is seen again is purged all the same (records.c:381), and
  a record of a peer takes a mark away (records.c:490);
* hosts below the threshold are purged without a call of the script
  (threads.c:353), though the manual promises one for each purged host;
* after a failed handshake the taken entries are not freed
  (clientqueue.c:287);
* `maxinconnections` bounds workers with a slot, not connections
  (server.c:374), `server_timeout` covers only the wait before the handshake
  (worker.c:192), and the clean-up does not see a worker before its `sem_wait`
  (server.c:254);
* `records_destroy` runs without the mutex beside detached walks (records.c:260),
  and leaves `initialized` set; the exclude list and the SSL contexts are freed
  under detached threads likewise (main.c:278, 284);
* an interrupted `sem_wait` is not repeated: the connection is closed unserved
  (worker.c:132-138). A comment says that the listener's loop "will be left only by
  canceling the thread" (server.c:312); an error of `select` leaves it, too, and the
  daemon goes on without a server (server.c:333);
* a script that cannot be run is reported to the log only: an offender is then
  marked as processed and never acted upon, and a purged host, or one freed by the
  stop, stays blocked (threads.c:113-117, 162-165);
* a failed `unlink` leaves the pid file, and the daemon exits with 0 (main.c:288-292);
* `exit(1)` once a thread runs (threads.c:284-301, main.c:257) skips `records_destroy`, so that hosts
  reported by peers stay blocked;
* with OpenSSL before 1.1 the server branch of `netssl_initialize` assigns
  `ssl_ctx_client` (netssl.c:143);
* the manual asks for a CA file, a certificate and a key with `inform`
  (`doc/agentsmith.conf.man.in`:221); the code asks for a CRL file as well;
* a second `listen` or `inform_agent` line fails an assertion (cfg.c:236);
* an IPv4 prefix of 0 is an undefined shift (exclude.c:702);
* half a line left by the old log file is glued to the first line of the new one
  (follow.c:115), and after a read error `clearerr` is not called, so that every
  further call of `readtoeof` drops one character until the end of the file is met (follow.c:101).

## 7. Plan

Done, in this order: HostRecord and Enforcement, RecordVector and its
refinement, ClientQueue, Server, Shutdown, Follow; ExcludeList, Wire and
Intake; Config and Daemon; proofs of every safety invariant, of two action
properties and of the refinement. What is left:

1. Proofs: the safety part of the liveness arguments. Which step brings each
   goal nearer, and that no other step takes it back, are action properties
   that need no fairness (a record in a queue, a connection in the backlog, a
   stop under way).
2. A version of EachLineOnceInOrder for more than two files, with a history of
   which file each `stat` has seen.
3. Two instances that inform each other, composed from Enforcement and the
   delivery that ClientQueue promises: a host is not sent to and fro.

## 8. Running it

```
tlc -workers 2 -config server.cfg MCServer      # any run: config and module as in PROJECT.json
tlapm EnforcementProofs.tla                      # seconds
tlapm RecordVectorProofs.tla                     # the others: a minute or two each
tlapm ClientQueueProofs.tla
tlapm ServerProofs.tla
tlapm ConfigProofs.tla
tlapm DaemonProofs.tla
tlapm IntakeProofs.tla
tlapm FollowProofs.tla
```
