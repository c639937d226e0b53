------------------------------ MODULE Pipeline ------------------------------
(***************************************************************************)
(* The pipeline (internal/pipeline/pipeline.go) with its event source      *)
(* (Loader.Run of internal/bpf/loader.go): a source goroutine feeds the    *)
(* bounded events channel, a pool of workers drains it through dedup, DNS  *)
(* parse, rule lookup and ipset.Add, and Run shuts them down in order.     *)
(* Meanwhile the rule store may be replaced under the workers.             *)
(*                                                                         *)
(* The data is abstract: a payload either fails to parse (Malformed) or is *)
(* dispatched, and Plan[rules][payload] lists the ipset entries (set, IP)  *)
(* that handle() adds for it under a rule set, in the order of its loops.  *)
(***************************************************************************)
EXTENDS Dedup, FiniteSets

CONSTANTS
  Malformed,  \* payloads for which dnsparse.Parse returns an error
  RuleSets,   \* the rule sets the store may hold
  Entries,    \* (ipset, IP) pairs
  Plan,       \* [RuleSets -> [Payloads -> Seq(Entries)]]
  Cap,        \* capacity of the events channel (1024 in Run)
  MaxReads    \* bound on the records read from the ring buffer

ASSUME PipelineAssumption ==
  /\ Malformed \subseteq Payloads
  /\ RuleSets # {}
  /\ Plan \in [RuleSets -> [Payloads -> Seq(Entries)]]
  /\ Cap \in Nat \ {0}
  /\ MaxReads \in Nat
  /\ IsFiniteSet(Workers) /\ Workers # {}    \* New: at least 1

VARIABLES
  ctxDone,    \* the context is cancelled (SIGTERM or SIGINT)
  rdClosed,   \* the ring buffer reader is closed
  reads,      \* records read so far; the NanoTS of the last one
  src,        \* source goroutine: at Read, at the select, or returned
  held,       \* the event the source holds at the select
  srcErr,     \* the error Source.Run returned: TRUE if not nil
  events,     \* the events channel
  closed,     \* the events channel is closed
  run,        \* Run: waiting for the source, draining, or returned
  pc,         \* each worker: at the channel, in handle, or returned
  cur,        \* the event a worker handles
  snap,       \* the rule set whose trie a worker holds
  todo,       \* the entries a worker has still to add
  store,      \* the rule set in the store
  kernel,     \* NanoTS of the response that last set an entry's timeout, 0: absent
  accepted,   \* history: events sent to the channel
  done,       \* history: events handled, how, and under which rule set
  tried,      \* history: <<event, entry>> of the calls of ipset.Add
  since       \* history: rule sets in the store since the worker took its event

srcVars  == <<reads, src, held, srcErr>>
chanVars == <<events, closed, accepted>>
workVars == <<pc, cur, snap, todo, kernel, done, tried, since>>
vars     == <<dedupVars, ctxDone, rdClosed, srcVars, chanVars, run, workVars, store>>

Event   == [ts : 1 .. MaxReads, payload : Payloads]
Outcome == {"dup", "bad", "dispatched"}
InHand  == {"seen", "parse", "add"}

Init ==
  /\ DedupInit
  /\ ctxDone = FALSE /\ rdClosed = FALSE
  /\ reads = 0 /\ src = "read" /\ held = None /\ srcErr = FALSE
  /\ events = <<>> /\ closed = FALSE /\ accepted = {}
  /\ run = "wait"
  /\ pc = [w \in Workers |-> "recv"]
  /\ cur = [w \in Workers |-> None]
  /\ store \in RuleSets
  /\ snap = [w \in Workers |-> None]
  /\ todo = [w \in Workers |-> <<>>]
  /\ kernel = [e \in Entries |-> 0]
  /\ done = {} /\ tried = {}
  /\ since = [w \in Workers |-> {}]

----------------------------------------------------------------------------
(* Environment: signals and the rule store.                                *)

Cancel ==
  /\ ~ctxDone
  /\ ctxDone' = TRUE
  /\ UNCHANGED <<dedupVars, rdClosed, srcVars, chanVars, run, workVars, store>>

\* Store.Replace: one atomic store of a snapshot with its trie already built.
Replace(rs) ==
  /\ store' = rs
  /\ since' = [w \in Workers |-> IF pc[w] \in InHand THEN since[w] \cup {rs} ELSE since[w]]
  /\ UNCHANGED <<dedupVars, ctxDone, rdClosed, srcVars, chanVars, run,
                 pc, cur, snap, todo, kernel, done, tried>>

PassTime ==
  /\ Tick
  /\ UNCHANGED <<ctxDone, rdClosed, srcVars, chanVars, run, workVars, store>>

----------------------------------------------------------------------------
(* The source: Loader.Run.                                                 *)

\* Mutant of CloseReader: the reader stays open.
CloseReaderNot ==
  /\ ctxDone /\ ~rdClosed
  /\ UNCHANGED vars

\* The goroutine that waits for the context and closes the reader.
CloseReader ==
  /\ ctxDone /\ ~rdClosed
  /\ rdClosed' = TRUE
  /\ UNCHANGED <<dedupVars, ctxDone, srcVars, chanVars, run, workVars, store>>

SourceStep == UNCHANGED <<dedupVars, ctxDone, rdClosed, run, workVars, store>>

\* Read returns a record that decodes to an event.
ReadEvent(p) ==
  /\ src = "read" /\ ~rdClosed /\ reads < MaxReads
  /\ reads' = reads + 1
  /\ held' = [ts |-> reads + 1, payload |-> p]
  /\ src' = "send"
  /\ UNCHANGED <<srcErr, chanVars>>
  /\ SourceStep

\* Read returns a record that decode rejects: the loop goes on.
ReadGarbage ==
  /\ src = "read" /\ ~rdClosed /\ reads < MaxReads
  /\ reads' = reads + 1
  /\ UNCHANGED <<src, held, srcErr, chanVars>>
  /\ SourceStep

\* Read returns an error: nil is returned for ErrClosed, any other is fatal.
ReadError(fatal) ==
  /\ src = "read"
  /\ fatal \/ rdClosed
  /\ src' = "returned"
  /\ srcErr' = fatal
  /\ UNCHANGED <<reads, held, chanVars>>
  /\ SourceStep

\* Mutant of SendEvent: the channel has no bound.
SendEventUnbounded ==
  /\ src = "send"
  /\ events' = Append(events, held)
  /\ accepted' = accepted \cup {held}
  /\ held' = None
  /\ src' = "read"
  /\ UNCHANGED <<reads, srcErr, closed>>
  /\ SourceStep

\* Mutant of SendEvent: the event sent is kept and sent again.
SendEventAgain ==
  /\ src = "send" /\ Len(events) < Cap
  /\ events' = Append(events, held)
  /\ accepted' = accepted \cup {held}
  /\ UNCHANGED <<held, src, reads, srcErr, closed>>
  /\ SourceStep

\* The select of Loader.Run: when the context is done and the channel has
\* room, either branch may be taken.
SendEvent ==
  /\ src = "send" /\ Len(events) < Cap
  /\ events' = Append(events, held)
  /\ accepted' = accepted \cup {held}
  /\ held' = None
  /\ src' = "read"
  /\ UNCHANGED <<reads, srcErr, closed>>
  /\ SourceStep

AbandonEvent ==
  /\ src = "send" /\ ctxDone
  /\ held' = None
  /\ src' = "returned"
  /\ UNCHANGED <<reads, srcErr, chanVars>>
  /\ SourceStep

----------------------------------------------------------------------------
(* Pipeline.Run.                                                           *)

RunStep == UNCHANGED <<dedupVars, ctxDone, rdClosed, srcVars, workVars, store>>

\* Mutant of CloseEvents: the channel is closed when the context is done.
CloseEventsOnCancel ==
  /\ run = "wait" /\ ctxDone
  /\ closed' = TRUE
  /\ run' = "drain"
  /\ UNCHANGED <<events, accepted>>
  /\ RunStep

\* err := <-srcDone; close(events)
CloseEvents ==
  /\ run = "wait" /\ src = "returned"
  /\ closed' = TRUE
  /\ run' = "drain"
  /\ UNCHANGED <<events, accepted>>
  /\ RunStep

\* Mutant of RunReturn: the workers are not waited for.
RunReturnNoWait ==
  /\ run = "drain"
  /\ run' = "returned"
  /\ UNCHANGED chanVars
  /\ RunStep

\* One token of workerDone per worker has arrived.
RunReturn ==
  /\ run = "drain"
  /\ \A w \in Workers : pc[w] = "returned"
  /\ run' = "returned"
  /\ UNCHANGED chanVars
  /\ RunStep

----------------------------------------------------------------------------
(* The workers.                                                            *)

WorkerStep == UNCHANGED <<ctxDone, rdClosed, srcVars, run, closed, accepted, store>>

\* The worker is done with its event and goes back to the channel.
Finish(w, how, rs) ==
  /\ pc' = [pc EXCEPT ![w] = "recv"]
  /\ cur' = [cur EXCEPT ![w] = None]
  /\ done' = done \cup {[ev |-> cur[w], how |-> how, rules |-> rs]}
  /\ since' = [since EXCEPT ![w] = {}]

\* for ev := range events: take the oldest event, enter handle and Seen.
Recv(w) ==
  /\ pc[w] = "recv" /\ events # <<>>
  /\ cur' = [cur EXCEPT ![w] = Head(events)]
  /\ events' = Tail(events)
  /\ pc' = [pc EXCEPT ![w] = "seen"]
  /\ since' = [since EXCEPT ![w] = {store}]
  /\ SeenBegin(w, Head(events).payload)
  /\ UNCHANGED <<snap, todo, kernel, done, tried>>
  /\ WorkerStep

\* Mutant of WorkerReturn: the worker watches the context too.
WorkerReturnOnCancel(w) ==
  /\ pc[w] = "recv" /\ (ctxDone \/ (events = <<>> /\ closed))
  /\ pc' = [pc EXCEPT ![w] = "returned"]
  /\ UNCHANGED <<dedupVars, events, cur, snap, todo, kernel, done, tried, since>>
  /\ WorkerStep

\* The range loop ends on a closed and empty channel.
WorkerReturn(w) ==
  /\ pc[w] = "recv" /\ events = <<>> /\ closed
  /\ pc' = [pc EXCEPT ![w] = "returned"]
  /\ UNCHANGED <<dedupVars, events, cur, snap, todo, kernel, done, tried, since>>
  /\ WorkerStep

CacheGet(w) ==
  /\ pc[w] = "seen"
  /\ SeenGet(w)
  /\ UNCHANGED <<events, workVars>>
  /\ WorkerStep

\* Mutant of CacheAdd: the two outcomes of Seen are swapped.
CacheAddSwapped(w) ==
  /\ pc[w] = "seen"
  /\ SeenAdd(w)
  /\ IF ~call[w].hit THEN Finish(w, "dup", None)
     ELSE pc' = [pc EXCEPT ![w] = "parse"] /\ UNCHANGED <<cur, done, since>>
  /\ UNCHANGED <<events, snap, todo, kernel, tried>>
  /\ WorkerStep

\* Seen returns: a duplicate is dropped, anything else goes on to the parser.
CacheAdd(w) ==
  /\ pc[w] = "seen"
  /\ SeenAdd(w)
  /\ IF call[w].hit THEN Finish(w, "dup", None)
     ELSE pc' = [pc EXCEPT ![w] = "parse"] /\ UNCHANGED <<cur, done, since>>
  /\ UNCHANGED <<events, snap, todo, kernel, tried>>
  /\ WorkerStep

ParseError(w) ==
  /\ pc[w] = "parse" /\ cur[w].payload \in Malformed
  /\ Finish(w, "bad", None)
  /\ UNCHANGED <<dedupVars, events, snap, todo, kernel, tried>>
  /\ WorkerStep

\* Mutant of Lookup: a trie taken once and for all instead of the store's.
LookupFixedTrie(w) ==
  /\ pc[w] = "parse" /\ cur[w].payload \notin Malformed
  /\ LET rs   == CHOOSE r \in RuleSets : TRUE
         plan == Plan[rs][cur[w].payload]
     IN  IF plan = <<>>
         THEN Finish(w, "dispatched", rs) /\ UNCHANGED <<snap, todo>>
         ELSE /\ snap' = [snap EXCEPT ![w] = rs]
              /\ todo' = [todo EXCEPT ![w] = plan]
              /\ pc' = [pc EXCEPT ![w] = "add"]
              /\ UNCHANGED <<cur, done, since>>
  /\ UNCHANGED <<dedupVars, events, kernel, tried>>
  /\ WorkerStep

\* tr := Store.Trie(), once per event, and the entries that the loops over
\* names and records will add from it.  With none, handle returns.
Lookup(w) ==
  /\ pc[w] = "parse" /\ cur[w].payload \notin Malformed
  /\ LET plan == Plan[store][cur[w].payload]
     IN  IF plan = <<>>
         THEN Finish(w, "dispatched", store) /\ UNCHANGED <<snap, todo>>
         ELSE /\ snap' = [snap EXCEPT ![w] = store]
              /\ todo' = [todo EXCEPT ![w] = plan]
              /\ pc' = [pc EXCEPT ![w] = "add"]
              /\ UNCHANGED <<cur, done, since>>
  /\ UNCHANGED <<dedupVars, events, kernel, tried>>
  /\ WorkerStep

\* Mutant of Add: an error ends the handling of the event.
AddStopsOnError(w, ok) ==
  LET entry == Head(todo[w])
  IN  /\ pc[w] = "add"
      /\ kernel' = IF ok THEN [kernel EXCEPT ![entry] = cur[w].ts] ELSE kernel
      /\ tried' = tried \cup {<<cur[w], entry>>}
      /\ todo' = [todo EXCEPT ![w] = IF ok THEN Tail(@) ELSE <<>>]
      /\ IF Len(todo[w]) = 1 \/ ~ok
         THEN Finish(w, "dispatched", snap[w]) /\ snap' = [snap EXCEPT ![w] = None]
         ELSE UNCHANGED <<pc, cur, done, since, snap>>
      /\ UNCHANGED <<dedupVars, events>>
      /\ WorkerStep

\* IPSet.Add for the next entry.  An error is counted and the loop continues.
Add(w, ok) ==
  LET entry == Head(todo[w])
  IN  /\ pc[w] = "add"
      /\ kernel' = IF ok THEN [kernel EXCEPT ![entry] = cur[w].ts] ELSE kernel
      /\ tried' = tried \cup {<<cur[w], entry>>}
      /\ todo' = [todo EXCEPT ![w] = Tail(@)]
      /\ IF Len(todo[w]) = 1
         THEN Finish(w, "dispatched", snap[w]) /\ snap' = [snap EXCEPT ![w] = None]
         ELSE UNCHANGED <<pc, cur, done, since, snap>>
      /\ UNCHANGED <<dedupVars, events>>
      /\ WorkerStep

----------------------------------------------------------------------------

\* The process exits once Run has returned.
Terminated == run = "returned" /\ UNCHANGED vars

Source ==
  \/ \E p \in Payloads : ReadEvent(p)
  \/ ReadGarbage
  \/ \E fatal \in BOOLEAN : ReadError(fatal)
  \/ SendEvent
  \/ AbandonEvent

Worker(w) ==
  \/ Recv(w)
  \/ WorkerReturn(w)
  \/ CacheGet(w)
  \/ CacheAdd(w)
  \/ ParseError(w)
  \/ Lookup(w)
  \/ \E ok \in BOOLEAN : Add(w, ok)

Next ==
  \/ Cancel
  \/ \E rs \in RuleSets : Replace(rs)
  \/ PassTime
  \/ CloseReader
  \/ Source
  \/ CloseEvents
  \/ RunReturn
  \/ \E w \in Workers : Worker(w)
  \/ Terminated

\* Every runnable goroutine is eventually scheduled, netlink calls return,
\* and a closed reader makes Read return.  Nothing forces a record to arrive,
\* a signal to be sent or the rules to change.
Fairness ==
  /\ WF_vars(CloseReader)
  /\ WF_vars(SendEvent \/ AbandonEvent)
  /\ WF_vars(ReadError(FALSE))
  /\ WF_vars(CloseEvents)
  /\ WF_vars(RunReturn)
  /\ \A w \in Workers : WF_vars(Worker(w))

Safety == Init /\ [][Next]_vars

Spec == Safety /\ Fairness

----------------------------------------------------------------------------
(* Type invariant.                                                         *)
TypeOK ==
  /\ DedupTypeOK
  /\ ctxDone \in BOOLEAN /\ rdClosed \in BOOLEAN
  /\ reads \in 0 .. MaxReads
  /\ src \in {"read", "send", "returned"}
  /\ held \in Event \cup {None} /\ (src = "send" => held \in Event)
  /\ srcErr \in BOOLEAN
  /\ events \in Seq(Event) /\ Len(events) <= Cap
  /\ closed \in BOOLEAN
  /\ run \in {"wait", "drain", "returned"}
  /\ pc \in [Workers -> {"recv", "seen", "parse", "add", "returned"}]
  /\ cur \in [Workers -> Event \cup {None}]
  /\ \A w \in Workers : pc[w] \in InHand => cur[w] \in Event
  /\ snap \in [Workers -> RuleSets \cup {None}]
  /\ todo \in [Workers -> Seq(Entries)]
  /\ \A w \in Workers : pc[w] = "add" => todo[w] # <<>>
  /\ store \in RuleSets
  /\ kernel \in [Entries -> 0 .. MaxReads]
  /\ accepted \subseteq Event
  /\ done \subseteq [ev : Event, how : Outcome, rules : RuleSets \cup {None}]
  /\ tried \subseteq Event \X Entries
  /\ since \in [Workers -> SUBSET RuleSets]

(* The source never sends on a closed channel, which would panic: Run      *)
(* closes events only when the source has returned, whether it returned    *)
(* for a cancelled context, a closed reader or a fatal error.              *)
NoSendOnClosed == closed => src = "returned"

Handled == {d.ev : d \in done}
Queued  == {events[i] : i \in 1 .. Len(events)}
Busy    == {w \in Workers : pc[w] \in InHand}

(* Every event the channel accepted is in exactly one place: once in the   *)
(* channel, in the hands of one worker, or handled, with one outcome.      *)
ExactlyOnce ==
  /\ accepted = Queued \cup {cur[w] : w \in Busy} \cup Handled
  /\ \A i, j \in 1 .. Len(events) : events[i] = events[j] => i = j
  /\ \A v, w \in Busy : cur[v] = cur[w] => v = w
  /\ \A w \in Busy : cur[w] \notin Queued \cup Handled
  /\ Queued \cap Handled = {}
  /\ \A d, e \in done : d.ev = e.ev => d = e

(* pipeline.go:50, "Workers are drained before Run returns": when Run has  *)
(* returned, every event it accepted has been handled.                     *)
DrainedAtReturn == run = "returned" => accepted = Handled

(* A response dropped as a duplicate is not lost: another event with the   *)
(* same hash got past the deduplicator, and has been or is being handled.  *)
DuplicateHasTwin ==
  \A d \in done : d.how = "dup" =>
    \/ \E e \in done : e.how # "dup" /\ Fnv[e.ev.payload] = Fnv[d.ev.payload]
    \/ \E w \in Workers : pc[w] \in {"parse", "add"} /\ Fnv[cur[w].payload] = Fnv[d.ev.payload]

(* An event is matched against one snapshot of the rules that was current  *)
(* at some moment since the worker took it, whatever reloads happened      *)
(* meanwhile (ARCHITECTURE.md, "In-flight events finish on the prior       *)
(* trie").                                                                 *)
FreshSnapshot == \A w \in Workers : pc[w] = "add" => snap[w] \in since[w]

(* One failed ipset.Add stops nothing: a dispatched event has been tried   *)
(* on all entries of its plan under one rule set, and on no other entry.   *)
DispatchComplete ==
  \A d \in done : d.how = "dispatched" =>
    LET plan == Plan[d.rules][d.ev.payload]
    IN  {t[2] : t \in {x \in tried : x[1] = d.ev}} = {plan[i] : i \in 1 .. Len(plan)}

(* ARCHITECTURE.md says the daemon "keeps the configured ipsets populated  *)
(* with the freshest resolution data": an entry's timeout is never         *)
(* overwritten from a response older than the one that set it.             *)
FreshestWins == [][\A e \in Entries : kernel'[e] >= kernel[e]]_vars

(* Once the context is cancelled Run returns: the source cannot stay at    *)
(* Read or at the select, and the workers drain what is left.              *)
ShutdownCompletes == ctxDone ~> run = "returned"

(* An event in the channel is eventually handled, by one worker or another.*)
EventuallyHandled == \A e \in Event : e \in accepted ~> e \in Handled

(* The pipeline implements Delivery.                                       *)
Abstract == INSTANCE Delivery WITH
  pending <- accepted \ Handled, handled <- Handled, stopped <- run = "returned"

Delivers == Abstract!Spec
=============================================================================
