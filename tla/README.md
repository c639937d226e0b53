# A TLA+ model of dns2ipset

dns2ipset watches DNS responses on a host with two BPF programs and adds the
addresses of matching names to kernel ipsets, with the DNS TTL as the entries'
timeout. These modules model the daemon and its BPF programs: what each part
promises, how hooks and goroutines interleave, and what remains true across
reloads, failures and shutdown. TLC checks the properties on small instances; TLAPS proves the
safety properties for every value of the constants.

## 1. The system

```
 udp_sendmsg ┐  ring    Loader.Run   events (1024)   workers: dedup → parse →
 udp_recvmsg ┴─buffer──► (source) ───────────────►   lookup → ipset.Add ──► kernel
                                                        ▲
 rules.yaml ──inotify──► Watcher ─┐                     │ Store.Trie()
 SIGHUP ────► goroutine ──────────┴─► reload ──► Store ─┘
```

| Part | State | Operations | Interacts through |
|---|---|---|---|
| BPF probe (`internal/bpf/c`) | per-CPU scratch, ring buffer | two fentry hooks | ring buffer |
| Source (`internal/bpf/loader.go`) | reader, links | New, Run, Close, decode | `events` channel, context |
| Pipeline (`internal/pipeline`) | channel, workers | Run, worker, handle | everything below |
| Deduplicator (`internal/dedup`) | LRU of hash → time | Seen | called by all workers |
| DNS parser (`internal/dnsparse`) | none | Parse | called by handle |
| Rules (`internal/rules` loader, trie) | none after building | Load, BuildTrie, Insert, Lookup | called by reload and handle |
| Store (`internal/rules/store.go`) | atomic snapshot | Replace, Trie | reload writes, workers read |
| Watcher (`internal/rules/watcher.go`) | inotify queue | Run | calls the reload closure |
| ipset client (`internal/ipset`) | missing-set log times | Add, ClampTTL | netlink |
| main (`cmd/dns2ipset`) | start-up order, signals | reload closure, shutdown | everything |
| Metrics (`internal/metrics`) | counters, one gauge | Inc, Set | written by all |

What is hard here, and what correctness means for each part:

- **Deduplicator.** `Seen` reads the clock, calls `Get`, then `Add`; each cache
  call is locked, the sequence is not. Correct: nothing is suppressed without an
  earlier response within the window, of which one was let through; a
  duplicate that comes after the first has returned is recognised.
- **Pipeline.** A source, a pool of workers and `Run` shut down through a
  channel that only one of them may close, at any moment. Correct: no send on a
  closed channel, no event lost or handled twice, `Run` returns, and only after
  everything accepted was handled; one failing write stops nothing; one event
  is matched against one snapshot of the rules.
- **Reload.** The watcher and SIGHUP goroutines run an unlocked closure against
  a file that may change, be half written or vanish. Correct: only valid rules
  take effect, never older ones after newer ones, and the last valid file wins.
- **Rules.** Correct: `Lookup` is label-aligned suffix matching, the shortest
  suffix first, the last duplicate winning; overridden rules are warned of.
- **Parse and dispatch.** Correct: every address of a usable response goes to
  the sets of all rules that match its names, and nothing else does, whatever
  the order of map iteration, with a timeout in the configured range.

- **Probe.** Hooks run on every CPU at once, on some kernels several on one CPU,
  and share a scratch buffer per CPU and one ring buffer that may be full.
  Correct: a record is all of one call, nothing but DNS is seen, and what found
  room in the ring buffer reaches the pipeline once and in order.
- **Loader and main.** `bpf.New` opens four things in order and may fail at each;
  at the end a goroutine, `Loader.Run` and main's deferred calls close them.
  Correct: `New` leaves nothing open on failure, nothing is closed in use, and a
  signal ends the process.
- **ipset client.** Workers share a map of times under a mutex. Correct: one line
  per set and minute, but never none; every call counted once; the mutex always
  given back.

The `hazards` of PROJECT.json list these at their lines.

## 2. Modules

| Module | Models | Composed of |
|---|---|---|
| `Dedup` | `Dedup.Seen` as three atomic steps, over an LRU cache (external) | |
| `SeenCalls` | any worker calling `Seen` at any time | `Dedup` |
| `Delivery` | abstract: accepted events are handled once, then stop | |
| `Pipeline` | `Loader.Run`, `Pipeline.Run`, workers, `handle`, store replacement | `Dedup`; implements `Delivery` |
| `Reload` | start-up, watcher, SIGHUP, reload closure, store, gauge | |
| `Rules` | `loadFromBytes`, `BuildTrie`, `Insert`, `Lookup` | |
| `Handle` | `Parse`, `uniqueNames`, dispatch, `ClampTTL`, `Netlink.Add` for one payload | |
| `Ipset` | `Netlink.Add` and its log limiter, called by several workers; the counting in `handle` | |
| `Probe` | the BPF hooks, scratch buffers and ring buffer | |
| `Capture` | `bpf.New`, `Loader.Run`, `Loader.Close`, `decode`, main's shutdown, the metrics server | `Probe` |
| `*Proofs` | the theorems about the module of that name | |
| `MC*` | instances for TLC | |

Definitions whose comment begins "Mutant of" are never part of a
specification: each is a plausible bug, used to see that a property notices it.

**Dedup.** `items` and `order` are the cache and its recency list, `call[w]` the
locals of the call worker `w` is in, `log` the history of returns. `SeenBegin`
hashes and reads the clock, `SeenGet` is the `Get` with its comparison,
`SeenAdd` the `Add` and the return (both branches of the code add the same
entry). The hash `Fnv` may collide. The clock is monotonic, as Go's is.

**Pipeline.** One action per step of a goroutine that another can observe:
`ReadEvent`, `ReadGarbage`, `ReadError`, `SendEvent`, `AbandonEvent` of the
source, `CloseReader` of its helper goroutine, `CloseEvents` and `RunReturn` of
`Run`, and `Recv` … `Add`, `WorkerReturn` of a worker. `Plan[rules][payload]` is
the list of entries that the loops of `handle` add; `Handle` and `Rules` are
about what is in it. `kernel` maps an entry to the arrival number of the
response that last set its timeout. `accepted`, `done`, `tried` and `since` are
history. The bounds are `MaxReads` (records) and `MaxTime` (clock).

**Reload.** `contents` is the history of the rules file, so a rule set in memory
is named by the version it was read from. The operator may rename a file onto
it, write it in place in several chunks (each may leave an inotify event, the
last one does), remove it, or touch other files. The kernel queue is bounded
and drops what does not fit, leaving an overflow mark. A reload is three steps,
`Load`, `Replace`, `SetGauge`, of one of two reloaders. Before `signal.Notify` a
SIGHUP ends the process, as is the default. Reading the file is one step: a
reader sees one of the file's versions, the leftovers of a partial write among
them. `due` is history: a SIGHUP came after the SIGHUP goroutine's last read of
the file. Bounds: `MaxChanges`, `MaxHups`, `QCap`.

**Rules.** A name is its labels, the number of final dots and whether white
space surrounds it; `Lower` is `strings.ToLower` on labels. The trie is a function
from the nodes (suffixes) to the index of a rule. Each iteration of the loops
of `loadFromBytes` and `BuildTrie` is a step. YAML syntax is reduced to a file
that unmarshals or does not. Names have at most two final dots: more would
leave empty labels after the two `TrimSuffix` calls. Labels contain no dots.

**Handle.** A message is what `Unpack` yields. The range over the CNAME map is a
choice of any owner not yet visited (`Mirror`, with `cnameOwner` the one chosen), and
the loop over the addresses inside it is `MirrorAddr` and `EndMirror`. `Match` stands for `Trie.Lookup`. Times are
milliseconds until `Timeout` cuts them to seconds. TTLs are 32 bits, so their
conversion to a duration does not overflow; flags beyond 136 years, which
would overflow the `uint32`, are left out, and so are negative ones, although
the flag parser accepts them (`Flags` holds natural numbers). The flags are chosen at the start from
`Flags`, in either order. `kernel` here is the timeout itself.

**Ipset.** `job[w]` is the call of worker `w`: its set, the error it met and the
time the limiter read. `Lock`, `Quiet` or `Loud`, `Store` and `Warn` are the steps of
`rateLimitedMissLog`; the deferred unlock is part of `Quiet` and `Warn`. The code
tells a missing set from other failures by phrases in the error's text, in two
places and by different phrases, so an error is modelled by the phrases in its
text and a set by the phrases in its name. `exists` is the kernel's sets, which
the operator may toggle at any time. `warned` and `calls` are history. Bounds:
`MaxCalls`, `MaxTime`.

**Probe.** `call[t]` is the call of `udp_sendmsg` or `udp_recvmsg` that task `t` is in,
on a CPU; `Enter`, `Sendmsg`, `Recvmsg` and `Receive` are the kernel, the actions of
`Hook` are the steps of `handle` in the C program: `Ignore` (port or family),
`WriteHeader`, `NoIov` and `ReadFails` (the early returns), `ReadAgain`, `ReadPayload`,
`SetLength`, `Output`. Each store to the scratch buffer is a step of its own, in the
order of the source, so that hooks which alternate on a CPU may do so between any
two of them; `WriteHeader` is the five stores of the header, one at a time. Copying
the payload, and copying the record into the ring buffer, are one step each. Ports are
kept in network byte order up to `bpf_ntohs`; the time stamp is left out. A task's
buffer has contents, which `udp_sendmsg` finds there and `udp_recvmsg` puts there after
its hook has run. `MaxDepth` is the number of hooks that may be on one CPU at once: 1
where BPF programs are not preempted. History: `peers` of a call is the other hooks
that have been on the CPU with it; `output` is the records offered to the ring buffer,
each with the hook it is of (`own`) and that hook's peers; `accepted` is the records
that found room. `ProbeSpec` is the hooks by themselves, `Capture` has the daemon
around them. Bounds: `MaxCalls`, `MaxDepth`, `RingCap`.

**Capture.** `phase` is where main is, `res` what `bpf.New` has opened. `Open` is one of its
four steps, which succeeds or fails; `Start`, `RunReturns`, `StopListening`,
`ShutdownReturns`, `CancelContext`, `CloseLoader` and `MainReturns` are main from
`NotifyContext` to its end, the deferred calls in their order. `pl.Run` is reduced to
the source it runs: the workers are those of `Pipeline`. `delivered` is the history
of events sent. Bound: `MaxConns`. The kernel's steps are left out after the
process has ended.

## 3. Runs

| Run | Checks | Instance |
|---|---|---|
| `seen_calls` | `DedupTypeOK`, `SuppressionJustified`, `DuplicateRecognised` | 3 workers, a cache smaller than the keys, clock past the window |
| `pipeline` | `TypeOK`, `NoSendOnClosed`, `ExactlyOnce`, `DrainedAtReturn`, `DuplicateHasTwin`, `FreshSnapshot`, `DispatchComplete`, `ShutdownCompletes`, `EventuallyHandled`, `Delivers` | 2 workers, 2 records, 1 slot, 2 rule sets, a response and a malformed payload, clock past the window |
| `pipeline_stale` ✗ | `FreshestWins` | two responses for one entry |
| `reload` | `TypeOK`, `StoreValid`, `GaugeAgrees`, `NeverRegresses`, `WatcherConverges`, `HupServed` | both reloaders, 2 valid files and a broken one, another file in the directory, overflow, 2 changes, 2 SIGHUPs |
| `reload_race` ✗ | `Converges` | one SIGHUP and edits |
| `rules` | `TypeOK`, `LookupExact`, `WarningsExact` | files of up to 3 rules out of 11, all names of up to 3 labels |
| `handle` | `TypeOK`, `DispatchExact`, `TimeoutInRange` | answers of up to 3 records, two rules, any write failing, three pairs of TTL flags |
| `handle_chain` ✗ | `ChainLookedUp` | chains of 0 to 3 CNAMEs from the question to the address |
| `ipset` | `TypeOK`, `LogSpacing`, `MissReported`, `Accounted`, `CallsReturn` | 2 workers, 2 sets that come and go, 3 errors, clock past the minute, 3 calls |
| `probe` | `RecordIntact`, `FieldsOfDns` | `ProbeSpec`: 2 CPUs, 2 tasks, 2 DNS sockets with the port at either end and a third socket, 3 calls, up to 2 hooks on a CPU |
| `capture` | `TypeOK`, `DeliveredInOrder`, `NewAllOrNothing`, `ClosedAfterUse`, `SignalStops`, `EventuallyDelivered` | 2 tasks on one CPU, 3 calls, room for 2 records, a scrape |
| `capture_recv` ✗ | `ReplyCaptured` | one call of `udp_recvmsg` |

✗ marks a run in which TLC finds a violation; each is a finding:

- **pipeline_stale**: with several workers an older response may overwrite the
  timeout that a newer one set, against "freshest resolution data".
- **reload_race**: the SIGHUP goroutine can read the file, be overtaken by the
  watcher's load of a newer one, and store the older rules last. They stay
  until the next edit.
- **handle_chain**: the parser mirrors addresses along one CNAME link, so for a
  chain a → b → c → d with the question a, the owner b is never looked up.
- **capture_recv**: the receive hook sits at the entry of `udp_recvmsg`, before the
  kernel has put the datagram into the caller's buffer. Its record has the
  buffer's length and whatever was in the buffer before: nothing, or an earlier
  datagram. An upstream reply is not captured by the call that receives it,
  against "uncached upstream replies appear on `udp_recvmsg`".

The passing properties state their exceptions, which are limits of the code:

- `DuplicateRecognised`: calls of `Seen` that overlap. The two views of one response,
  handled at once by two workers, may both be let through, although ARCHITECTURE.md
  says "Userspace dedupes the overlap"; the cost is a second identical write. The window
  counts from the time the last call to return has stored: one that read the clock
  earlier and stores later shortens it.
- `WatcherConverges`: a last edit that left no event, which includes one between the
  initial load and `fw.Add`, and one that met a full queue: the overflow error is
  ignored. It takes effect with the next edit or SIGHUP.
- `TimeoutInRange`: with a TTL flag below one second the timeout may be 0, which means
  "never", because the conversion to seconds follows the clamping.
- `WarningsExact`: domains with two final dots, on which loader and trie disagree.
- `RecordIntact`: another hook of a DNS socket on the CPU at the same time. The
  scratch buffer is per CPU and not per hook, so where the kernel preempts BPF
  programs a record may have some fields of each, and then neither of its ports
  need be 53: a hook of port 53, not connected, that is preempted between storing
  `src_port` and `dst_port` by one that is connected to port 53 hands over the other's
  source port with its own destination 0. `FieldsOfDns` says what remains: each field
  is that of a DNS hook which was there, or was zeroed by one.
- `SignalStops`: a request to the metrics server in progress, since `srv.Shutdown`
  has no deadline (a 30 s profile delays the exit by as much).
- `Accounted`: says nothing of failures that are not misses; one on a set whose name
  contains "missing" is counted as one.

Read in passing, not checked: `Load` collects warnings of duplicates, but nothing
logs them, although ARCHITECTURE.md says "warning logged".

**Why the bounds are enough.** Two workers suffice for every race in the pipeline,
since a worker shares with the others only the channel, the cache, the store
and the kernel, and each race is between two of them; the deduplicator has three
in `seen_calls`, so that an eviction can fall between two steps of a third. One
slot makes the channel both full and empty; two records fill it with the source
blocked behind it, or leave one in it with the other in a worker's hands, or keep
both workers busy with one response; larger numbers are left to the proofs. In
Reload a file that
becomes broken and whole again, a queue that overflows, and two reloads that
overlap all fit in the changes allowed. Three rules allow a parent, a child and
a duplicate of either in any order. Three answers allow two aliases and their
address, or two addresses of one target; `handle_chain` has the longer chains.
In Ipset the limiter's races are between two workers at one mutex; three calls
and a clock past the minute allow a line, a silence and a second line. In
`probe` two hooks meet on one CPU or on two, and a third call finds what they left
there. In `capture` a ring buffer for two records holds two whose order can be
told apart (one sent, one received, or with other contents), and the third call
finds it full; a receive buffer longer than a record reaches the limit of `decode`.
One CPU is enough there, since what CPUs can do to each other's records is in
`probe`, and so is what hooks that alternate can.

**Fairness.** Pipeline: weak fairness of each goroutine's next step: the Go
scheduler runs what is runnable, netlink calls return, and `Read` of a closed
reader returns. The select between a full channel and a done context is one
fair choice. Nothing forces a record, a signal, a reload or time. Reload: weak
fairness of the watcher's and the SIGHUP goroutine's steps, none of the
operator's, and none of `WatcherReturn` or `Exit`. Ipset: weak fairness of each
worker's next step (netlink and the logger return) and strong fairness of
`Lock`, since Go's mutex hands itself to a waiter that has waited long enough.
Capture: weak fairness of main's steps and of the goroutines of `Loader.Run`; the
send is fair because the workers of `Pipeline` always make room. No fairness for
hooks, signals, or the clients of the metrics server. `CHECK_DEADLOCK` stays on
except where a run's bound on calls ends it; a finished process stutters.

## 4. Proofs

For every set of workers, payloads, rules and files, and every bound:

| Theorem | Statement |
|---|---|
| `SeenCallsProofs!TypeCorrect` | `Spec => []DedupTypeOK` |
| `SeenCallsProofs!SuppressionAlwaysJustified` | `Spec => []SuppressionJustified` |
| `SeenCallsProofs!AlwaysRecognised` | `Spec => DuplicateRecognised` |
| `PipelineProofs!TypeCorrect` | `Safety => []TypeOK` |
| `PipelineProofs!NeverSendsOnClosed` | `Safety => []NoSendOnClosed` |
| `PipelineProofs!AlwaysExactlyOnce` | `Safety => []ExactlyOnce` |
| `PipelineProofs!AlwaysDrained` | `Safety => []DrainedAtReturn` |
| `PipelineProofs!AlwaysTwin` | `Safety => []DuplicateHasTwin` |
| `PipelineProofs!AlwaysFresh` | `Safety => []FreshSnapshot` |
| `PipelineProofs!AlwaysComplete` | `Safety => []DispatchComplete` |
| `PipelineProofs!RefinesDelivery` | `Safety => Abstract!Safety` |
| `ReloadProofs!TypeCorrect` | `Safety => []TypeOK` |
| `ReloadProofs!StoreAlwaysValid` | `Safety => []StoreValid` |
| `ReloadProofs!WatcherNeverRegresses` | `Safety => NeverRegresses` |
| `ReloadProofs!WatcherGaugeAgrees` | `Safety => []GaugeAgrees` |
| `IpsetProofs!TypeCorrect` | `Safety => []TypeOK` |
| `IpsetProofs!LogAlwaysSpaced` | `Safety => []LogSpacing` |
| `IpsetProofs!MissAlwaysReported` | `Safety => []MissReported` |
| `IpsetProofs!AlwaysAccounted` | `Safety => []Accounted` |
| `RulesProofs!TypeCorrect` | `Spec => []TypeOK` |
| `RulesProofs!LookupAlwaysExact` | `Spec => []LookupExact` |
| `RulesProofs!AlwaysWarned` | `Spec => []WarningsExact` |
| `HandleProofs!TypeCorrect` | `Spec => []TypeOK` |
| `HandleProofs!AlwaysInRange` | `Spec => []TimeoutInRange` |
| `HandleProofs!AlwaysExact` | `Spec => []DispatchExact` |
| `CaptureProofs!TypeCorrect` | `Safety => []TypeOK` |
| `CaptureProofs!AlwaysIntact` | `Safety => []RecordIntact` |
| `CaptureProofs!AlwaysOfDns` | `Safety => []FieldsOfDns` |
| `CaptureProofs!AlwaysInOrder` | `Safety => []DeliveredInOrder` |
| `CaptureProofs!AlwaysAllOrNothing` | `Safety => []NewAllOrNothing` |
| `CaptureProofs!AlwaysClosedAfterUse` | `Safety => []ClosedAfterUse` |

They use the modules' named assumptions and nothing else. TLC has checked each
inductive invariant on the instance of the component's run. That of Capture it has
also checked with two calls that alternate on a CPU.

- *Deduplicator.* What is suppressed depends on what is in the cache, so
  `DedupInv` adds that the recency list and the cache hold the same keys
  (`LruConsistent`), that every time in the cache was stored by a call in the log,
  and that a key in the log has a call that returned false. The lemmas on the
  cache say what `Get` and `Add` keep; the steps of `Seen` are proved once, in
  `DedupProofs`, and used for `SeenCalls` and for `Pipeline`. That duplicates are
  recognised is about eviction, so `LastHeld` follows the place of a key in the
  recency list: the entry of a key's last return is cached and every key before
  it has been used since, or at least as many keys as the cache holds have
  been. Nothing but the key of the call comes before another key in a step
  (`LruGetBefore`, `LruAddBefore`), and a key is evicted from behind `Size` others
  (`Evicted`), which are counted by the pigeonhole theorem for finite sets.
- *Pipeline.* `NoSendOnClosed` needs the order of shutdown (`Stopping`: the source
  returned before the close, the close came before any worker returned, and a
  returned worker leaves an empty channel behind). `ExactlyOnce` needs that arrival
  numbers tell events apart (`Ordered`: what was accepted has been read, and the
  event the source holds is newer than all of it). `AlwaysDrained` follows from both: when all
  workers have returned, the channel is empty and nobody holds an event. Three
  further properties have invariants of their own. `Current`: the rules in the
  store are always among those a busy worker has seen there. `Dispatching`: what
  has been tried for an event, with what is left of its list, is its plan.
  `Twins`: a call of `Seen` that returned false sent its worker on to the parser,
  so its hash stays with a worker or with a handled event, and by
  `FirstMissed` of the deduplicator there is such a call for each duplicate. The
  refinement maps `pending` to accepted events not handled; a `SendEvent` is an
  `Accept`, a `Finish` a `Handle`, `RunReturn` a `Stop`, everything else stutters.
- *Reload.* What a reloader carries was valid when it was read (`HeldValid`), and
  the history of the file only grows. As long as no SIGHUP has been sent the
  version the watcher carries is not older than the store's (`Alone`), and
  SIGHUPs are only counted up (`HupsGrow`).
- *Ipset.* The mutex is held by exactly the worker past `Lock` (`MutexHeld`), so what it
  checked is still so when it stores (`Claimed`); `missLog` is the time of the last line
  or of the one its holder is about to write (`Logged`), so a worker that keeps
  quiet under the mutex does so for a line that is written. For `Accounted`, the
  calls in flight are counted as a finite set that each call joins once and
  leaves once; `Certain` says that a worker in the limiter has met a missing set, and
  `CountedAsMissing` that the counter's phrases recognise what the limiter's did.
- *Rules.* The invariant `TrieInv` says that the nodes are closed under suffixes,
  that a terminal node holds a rule inserted for exactly that suffix, and that
  each rule inserted has its node, which holds it or a later one. The walk then
  stops first at the shortest suffix that is terminal; where it falls out of
  the trie no longer suffix can be a node. That the walk has a first stop uses
  the well-foundedness of the natural numbers. For the warnings, `SeenInv` says
  that the map of `Load` holds the last rule of each domain, so that each warning
  is about the nearest earlier one; names with at most one final dot are equal
  once normalised exactly when the trie splits them alike (`NormalizedIs`,
  `SameDomainIs`).
- *Handle.* The properties are about the message and the model walks it in five
  loops, so `DispatchInv` says for each loop what it has computed of the message so
  far: the addresses and the CNAME map (`Collected`), the records mirrored for the
  owners visited, in whatever order (`Mirroring`), the records as a set
  (`Parsed`), the names, and the offers made for the pairs of name and record
  passed (`Offered`). `TypeInv` adds that indices stay within what they index.
- *Capture.* Hooks that are on one CPU are each other's peers (`Together`), so whatever
  another hook stores in the scratch buffer is a peer's. `Stored` says, for each place
  of a hook, which fields it has stored and that each of these is still its own or
  that of a DNS peer which stored it since; `Scratch` says it of the hooks that are
  running, with the fact that one past the filter is of a DNS socket, and `Handed`
  of the records handed over. Both properties of records follow from `Handed`. The
  proof has one case per store. `Life` says for each phase of main what is open and
  where `Loader.Run` is; the two properties on resources follow from it.
  `DeliveredInOrder` is inductive once records and events are typed (`InOrder`).

Only model-checked: liveness (`ShutdownCompletes`, `EventuallyHandled`,
`WatcherConverges`, `HupServed`, `CallsReturn`, `SignalStops`, `EventuallyDelivered`, and the
fairness part of `Delivers`), which is out of the prover's reach. Every invariant
and every action property that a passing run checks is a theorem.

## 5. Not modelled

- Metrics other than `rules_active` and the ipset counters, the contents of the
  metrics pages, the parsing of flags, and logging other than that of missing
  sets: increments and output without control. `ringbuf_drops_total` is never
  incremented, as the comment in `loader.go` says.
- Bytes of payloads between the probe and the parser: a record carries the
  contents of a buffer as a whole. Only the first segment of an iovec is read,
  by the code and by the model.
- IPv6 sockets reach other kernel functions (`udpv6_sendmsg`, `udpv6_recvmsg`), which
  the program does not hook; the model has the two it does.
- DNS wire format, YAML syntax, netlink, fsnotify, the LRU library: external, and
  modelled by what the code sees of them.
- The fake source, the stress harness, packaging: not part of the daemon.

## 6. Plan

1. Composition of `Reload` and `Pipeline`, so that the rules an event is matched
   against are versions of a file. Today they meet in `Store`: `Pipeline` lets it be
   replaced at any moment by any rule set, which includes what `Reload` does.
2. Proofs: the safety that liveness rests on, such as what `WatcherConverges` and
   `HupServed` need of the state in which nothing is left to do.
