--------------------------- MODULE PipelineProofs ---------------------------
(***************************************************************************)
(* Proofs about the pipeline, for every number of workers, every channel   *)
(* and cache capacity, every set of payloads, rules and entries, and every *)
(* number of records read.                                                 *)
(***************************************************************************)
EXTENDS Pipeline, DedupProofs

Pc == {"recv", "seen", "parse", "add", "returned"}

(* A worker is in a call of Seen, for its event, exactly at "seen".        *)
CallOfWorker ==
  \A w \in Workers :
    /\ pc[w] = "seen" => call[w].pc # "idle" /\ call[w].key = Fnv[cur[w].payload]
    /\ pc[w] # "seen" => call[w].pc = "idle"

TypeInv == TypeOK /\ DedupInv /\ CallOfWorker

----------------------------------------------------------------------------
(* Types.                                                                  *)

(* The initial state is well typed: no worker has taken an event.          *)
LEMMA TypeInit == Init => TypeInv
<1> SUFFICES ASSUME Init PROVE TypeInv
  OBVIOUS
<1> USE PipelineAssumption DEF Init
<1>1. DedupInv
  BY DedupInitInv
<1>2. CallOfWorker
  BY DEF CallOfWorker, DedupInit, Idle
<1>3. /\ reads \in 0 .. MaxReads
      /\ kernel \in [Entries -> 0 .. MaxReads]
  OBVIOUS
<1>4. events \in Seq(Event) /\ Len(events) <= Cap
  OBVIOUS
<1>5. /\ pc \in [Workers -> Pc]
      /\ cur \in [Workers -> Event \cup {None}]
      /\ snap \in [Workers -> RuleSets \cup {None}]
      /\ todo \in [Workers -> Seq(Entries)]
      /\ since \in [Workers -> SUBSET RuleSets]
      /\ \A w \in Workers : pc[w] = "recv"
  BY DEF Pc
<1>6. TypeOK
  BY <1>1, <1>3, <1>4, <1>5 DEF TypeOK, DedupInv, Pc, InHand
<1> QED BY <1>1, <1>2, <1>6 DEF TypeInv

(* Signals, reloads and time.                                              *)
LEMMA TypeEnvironment ==
  ASSUME TypeInv,
         \/ Cancel \/ CloseReader \/ PassTime \/ Terminated \/ UNCHANGED vars
         \/ \E rs \in RuleSets : Replace(rs)
  PROVE  TypeInv'
<1> USE PipelineAssumption DEF TypeInv
<1>1. CASE Cancel \/ CloseReader \/ PassTime \/ Terminated \/ UNCHANGED vars
  <2>1. UNCHANGED <<srcVars, chanVars, run, workVars, store, call>>
    BY <1>1 DEF Cancel, CloseReader, PassTime, Terminated, Tick, vars, dedupVars
  <2>2. ctxDone' \in BOOLEAN /\ rdClosed' \in BOOLEAN
    BY <1>1 DEF Cancel, CloseReader, PassTime, Terminated, vars, TypeOK
  <2>3. DedupInv'
    BY <1>1, TickInv DEF Cancel, CloseReader, PassTime, Terminated, vars
  <2>4. CallOfWorker'
    BY <2>1 DEF CallOfWorker, workVars
  <2>5. TypeOK'
    BY <2>1, <2>2, <2>3 DEF TypeOK, DedupInv, srcVars, chanVars, workVars
  <2> QED BY <2>3, <2>4, <2>5
<1>2. ASSUME NEW rs \in RuleSets, Replace(rs) PROVE TypeInv'
  <2>1. DedupInv'
    BY <1>2, TickInv DEF Replace
  <2>2. CallOfWorker'
    BY <1>2 DEF CallOfWorker, Replace, dedupVars
  <2>3. since' \in [Workers -> SUBSET RuleSets]
    BY <1>2 DEF Replace, TypeOK
  <2>4. TypeOK'
    BY <1>2, <2>1, <2>3 DEF Replace, TypeOK, DedupInv, srcVars, chanVars
  <2> QED BY <2>1, <2>2, <2>4
<1> QED BY <1>1, <1>2

(* The source and Run touch no worker and no cache.                        *)
LEMMA TypeSource ==
  ASSUME TypeInv, Source \/ CloseEvents \/ RunReturn
  PROVE  TypeInv'
<1> USE PipelineAssumption DEF TypeInv
<1>1. UNCHANGED <<dedupVars, ctxDone, rdClosed, workVars, store>>
  BY DEF Source, ReadEvent, ReadGarbage, ReadError, SendEvent, AbandonEvent, SourceStep,
         CloseEvents, RunReturn, RunStep
<1>2. DedupInv' /\ CallOfWorker'
  BY <1>1, TickInv DEF CallOfWorker, dedupVars, workVars
<1>3. ASSUME NEW p \in Payloads, ReadEvent(p) PROVE TypeOK'
  <2>1. reads + 1 \in 1 .. MaxReads
    BY <1>3 DEF ReadEvent, TypeOK
  <2>2. held' \in Event /\ src' = "send" /\ reads' \in 0 .. MaxReads
    BY <1>3, <2>1 DEF ReadEvent, Event
  <2> QED BY <1>1, <1>2, <1>3, <2>2 DEF ReadEvent, TypeOK, DedupInv, SourceStep, chanVars, workVars
<1>4. CASE ReadGarbage
  BY <1>1, <1>2, <1>4 DEF ReadGarbage, TypeOK, DedupInv, SourceStep, chanVars, workVars
<1>5. ASSUME NEW fatal \in BOOLEAN, ReadError(fatal) PROVE TypeOK'
  BY <1>1, <1>2, <1>5 DEF ReadError, TypeOK, DedupInv, SourceStep, chanVars, workVars
<1>6. CASE SendEvent
  <2>1. held \in Event /\ events' \in Seq(Event) /\ Len(events') <= Cap /\ accepted' \subseteq Event
    BY <1>6 DEF SendEvent, TypeOK
  <2> QED BY <1>1, <1>2, <1>6, <2>1 DEF SendEvent, TypeOK, DedupInv, SourceStep, workVars
<1>7. CASE AbandonEvent
  BY <1>1, <1>2, <1>7 DEF AbandonEvent, TypeOK, DedupInv, SourceStep, chanVars, workVars
<1>8. CASE CloseEvents \/ RunReturn
  BY <1>1, <1>2, <1>8 DEF CloseEvents, RunReturn, RunStep, TypeOK, DedupInv, srcVars, chanVars, workVars
<1> QED BY <1>2, <1>3, <1>4, <1>5, <1>6, <1>7, <1>8 DEF Source

(* A worker that is done with an event records it and is back at the       *)
(* channel.                                                                *)
LEMMA FinishTyped ==
  ASSUME TypeOK, NEW w \in Workers, cur[w] \in Event, NEW how \in Outcome,
         NEW rs \in RuleSets \cup {None}, Finish(w, how, rs)
  PROVE  /\ pc' \in [Workers -> Pc] /\ pc'[w] = "recv"
         /\ cur' \in [Workers -> Event \cup {None}]
         /\ \A v \in Workers \ {w} : pc'[v] = pc[v] /\ cur'[v] = cur[v] /\ since'[v] = since[v]
         /\ done' \subseteq [ev : Event, how : Outcome, rules : RuleSets \cup {None}]
         /\ since' \in [Workers -> SUBSET RuleSets]
BY DEF TypeOK, Finish, Pc

(* Taking an event from the channel and entering Seen.                     *)
LEMMA TypeRecv ==
  ASSUME TypeInv, NEW w \in Workers, Recv(w)
  PROVE  TypeInv'
<1> USE PipelineAssumption DEF TypeInv
<1>1. /\ Head(events) \in Event /\ Head(events).payload \in Payloads
      /\ events' \in Seq(Event) /\ Len(events') <= Cap
  <2>1. events \in Seq(Event) /\ events # <<>> /\ Len(events) <= Cap /\ events' = Tail(events)
    BY DEF Recv, TypeOK
  <2>2. Head(events) \in Event /\ events' \in Seq(Event) /\ Len(events') = Len(events) - 1
    BY <2>1
  <2> QED BY <2>1, <2>2 DEF Event
<1>2. SeenBegin(w, Head(events).payload)
  BY DEF Recv
<1>3. DedupInv'
  BY <1>1, <1>2, SeenBeginInv
<1>4. /\ call'[w].pc = "get" /\ call'[w].key = Fnv[Head(events).payload]
      /\ \A v \in Workers \ {w} : call'[v] = call[v]
  BY <1>2 DEF SeenBegin, DedupInv, DedupTypeOK
<1>5. /\ pc' \in [Workers -> Pc] /\ pc'[w] = "seen"
      /\ cur' \in [Workers -> Event \cup {None}] /\ cur'[w] = Head(events)
      /\ \A v \in Workers \ {w} : pc'[v] = pc[v] /\ cur'[v] = cur[v]
      /\ since' \in [Workers -> SUBSET RuleSets]
  BY <1>1 DEF Recv, TypeOK, Pc
<1>6. CallOfWorker'
  BY <1>4, <1>5 DEF CallOfWorker
<1>7. TypeOK'
  <2>1. \A v \in Workers : /\ pc'[v] \in InHand => cur'[v] \in Event
                           /\ pc'[v] = "add" => todo[v] # <<>>
    BY <1>1, <1>5 DEF TypeOK, InHand
  <2> QED BY <1>1, <1>3, <1>5, <2>1 DEF Recv, WorkerStep, TypeOK, DedupInv, Pc, srcVars
<1> QED BY <1>3, <1>6, <1>7

(* The two steps of Seen.                                                  *)
LEMMA TypeSeen ==
  ASSUME TypeInv, NEW w \in Workers, CacheGet(w) \/ CacheAdd(w)
  PROVE  TypeInv'
<1> USE PipelineAssumption DEF TypeInv
<1>1. CASE CacheGet(w)
  <2>1. SeenGet(w)
    BY <1>1 DEF CacheGet
  <2>2. DedupInv'
    BY <2>1, SeenGetInv
  <2>3. /\ call'[w].pc = "add" /\ call'[w].key = call[w].key
        /\ \A v \in Workers \ {w} : call'[v] = call[v]
    BY <2>1 DEF SeenGet, DedupInv, DedupTypeOK, Call
  <2>4. CallOfWorker'
    BY <1>1, <2>3 DEF CallOfWorker, CacheGet, workVars
  <2>5. TypeOK'
    BY <1>1, <2>2 DEF CacheGet, WorkerStep, TypeOK, DedupInv, srcVars, workVars
  <2> QED BY <2>2, <2>4, <2>5
<1>2. CASE CacheAdd(w)
  <2>1. SeenAdd(w) /\ pc[w] = "seen" /\ cur[w] \in Event
    BY <1>2 DEF CacheAdd, TypeOK, InHand
  <2>2. DedupInv'
    BY <2>1, SeenAddInv
  <2>3. call'[w].pc = "idle" /\ \A v \in Workers \ {w} : call'[v] = call[v]
    BY <2>1 DEF SeenAdd, DedupInv, DedupTypeOK, Idle
  <2>4. /\ pc' \in [Workers -> Pc] /\ pc'[w] \in {"recv", "parse"}
        /\ cur' \in [Workers -> Event \cup {None}]
        /\ \A v \in Workers \ {w} : pc'[v] = pc[v] /\ cur'[v] = cur[v]
        /\ pc'[w] = "parse" => cur'[w] = cur[w]
        /\ done' \subseteq [ev : Event, how : Outcome, rules : RuleSets \cup {None}]
        /\ since' \in [Workers -> SUBSET RuleSets]
    <3>1. CASE call[w].hit
      BY <1>2, <2>1, <3>1, FinishTyped DEF CacheAdd, Outcome
    <3>2. CASE ~call[w].hit
      BY <1>2, <2>1, <3>2 DEF CacheAdd, TypeOK, Pc
    <3> QED BY <3>1, <3>2
  <2>5. CallOfWorker'
    BY <2>3, <2>4 DEF CallOfWorker
  <2>6. \A v \in Workers : /\ pc'[v] \in InHand => cur'[v] \in Event
                           /\ pc'[v] = "add" => todo[v] # <<>>
    BY <2>1, <2>4 DEF TypeOK, InHand
  <2>7. TypeOK'
    BY <1>2, <2>2, <2>4, <2>6 DEF CacheAdd, WorkerStep, TypeOK, DedupInv, Pc, srcVars
  <2> QED BY <2>2, <2>5, <2>7
<1> QED BY <1>1, <1>2

(* Parsing, matching and adding leave the deduplicator alone.              *)
LEMMA TypeDispatch ==
  ASSUME TypeInv, NEW w \in Workers,
         WorkerReturn(w) \/ ParseError(w) \/ Lookup(w) \/ \E ok \in BOOLEAN : Add(w, ok)
  PROVE  TypeInv'
<1> USE PipelineAssumption DEF TypeInv
<1>1. DedupInv' /\ UNCHANGED call
  BY TickInv DEF WorkerReturn, ParseError, Lookup, Add, dedupVars
<1>2. SUFFICES /\ TypeOK'
               /\ \A v \in Workers \ {w} : pc'[v] = pc[v] /\ cur'[v] = cur[v]
               /\ pc'[w] # "seen" /\ pc[w] # "seen"
  BY <1>1, <1>2 DEF CallOfWorker
<1>3. CASE WorkerReturn(w)
  BY <1>1, <1>3 DEF WorkerReturn, WorkerStep, TypeOK, DedupInv, InHand, srcVars
<1>4. CASE ParseError(w)
  <2>1. cur[w] \in Event /\ Finish(w, "bad", None)
    BY <1>4 DEF ParseError, TypeOK, InHand
  <2>2. /\ pc' \in [Workers -> Pc] /\ pc'[w] = "recv"
        /\ cur' \in [Workers -> Event \cup {None}]
        /\ \A v \in Workers \ {w} : pc'[v] = pc[v] /\ cur'[v] = cur[v]
        /\ done' \subseteq [ev : Event, how : Outcome, rules : RuleSets \cup {None}]
        /\ since' \in [Workers -> SUBSET RuleSets]
    BY <2>1, FinishTyped DEF Outcome
  <2>3. \A v \in Workers : /\ pc'[v] \in InHand => cur'[v] \in Event
                           /\ pc'[v] = "add" => todo[v] # <<>>
    BY <2>1, <2>2 DEF TypeOK, InHand
  <2> QED BY <1>1, <1>4, <2>2, <2>3 DEF ParseError, WorkerStep, TypeOK, DedupInv, Pc, srcVars
<1>5. CASE Lookup(w)
  <2> DEFINE plan == Plan[store][cur[w].payload]
  <2>1. cur[w] \in Event /\ store \in RuleSets /\ plan \in Seq(Entries)
    BY <1>5 DEF Lookup, TypeOK, InHand, Event
  <2>2. CASE plan = <<>>
    <3>1. Finish(w, "dispatched", store) /\ UNCHANGED <<snap, todo>>
      BY <1>5, <2>2 DEF Lookup
    <3>2. /\ pc' \in [Workers -> Pc] /\ pc'[w] = "recv"
          /\ cur' \in [Workers -> Event \cup {None}]
          /\ \A v \in Workers \ {w} : pc'[v] = pc[v] /\ cur'[v] = cur[v]
          /\ done' \subseteq [ev : Event, how : Outcome, rules : RuleSets \cup {None}]
          /\ since' \in [Workers -> SUBSET RuleSets]
      BY <2>1, <3>1, FinishTyped DEF Outcome
    <3>3. \A v \in Workers : /\ pc'[v] \in InHand => cur'[v] \in Event
                             /\ pc'[v] = "add" => todo'[v] # <<>>
      BY <3>1, <3>2 DEF TypeOK, InHand
    <3> QED BY <1>1, <1>5, <3>1, <3>2, <3>3 DEF Lookup, WorkerStep, TypeOK, DedupInv, Pc, srcVars
  <2>3. CASE plan # <<>>
    <3>1. /\ snap' = [snap EXCEPT ![w] = store]
          /\ todo' = [todo EXCEPT ![w] = plan]
          /\ pc' = [pc EXCEPT ![w] = "add"]
          /\ UNCHANGED <<cur, done, since>>
      BY <1>5, <2>3 DEF Lookup
    <3> HIDE DEF plan
    <3>2. /\ pc' \in [Workers -> Pc] /\ pc'[w] = "add"
          /\ \A v \in Workers \ {w} : pc'[v] = pc[v] /\ todo'[v] = todo[v]
          /\ snap' \in [Workers -> RuleSets \cup {None}]
          /\ todo' \in [Workers -> Seq(Entries)] /\ todo'[w] # <<>>
      BY <2>1, <2>3, <3>1 DEF TypeOK, Pc
    <3>3. \A v \in Workers : /\ pc'[v] \in InHand => cur'[v] \in Event
                             /\ pc'[v] = "add" => todo'[v] # <<>>
      BY <2>1, <3>1, <3>2 DEF TypeOK, InHand
    <3> QED BY <1>1, <1>5, <3>1, <3>2, <3>3 DEF Lookup, WorkerStep, TypeOK, DedupInv, Pc, srcVars
  <2> QED BY <2>2, <2>3
<1>6. ASSUME NEW ok \in BOOLEAN, Add(w, ok)
      PROVE  /\ TypeOK'
             /\ \A v \in Workers \ {w} : pc'[v] = pc[v] /\ cur'[v] = cur[v]
             /\ pc'[w] # "seen" /\ pc[w] # "seen"
  <2>1. /\ cur[w] \in Event /\ todo[w] \in Seq(Entries) /\ todo[w] # <<>> /\ pc[w] = "add"
        /\ snap[w] \in RuleSets \cup {None}
    BY <1>6 DEF Add, TypeOK, InHand
  <2>2. Head(todo[w]) \in Entries /\ Tail(todo[w]) \in Seq(Entries) /\ Len(Tail(todo[w])) = Len(todo[w]) - 1
    BY <2>1
  <2>3. cur[w].ts \in 0 .. MaxReads
    BY <2>1 DEF Event
  <2>4. /\ kernel' \in [Entries -> 0 .. MaxReads]
        /\ tried' \subseteq Event \X Entries
        /\ todo' \in [Workers -> Seq(Entries)] /\ todo'[w] = Tail(todo[w])
        /\ \A v \in Workers \ {w} : todo'[v] = todo[v]
    BY <1>6, <2>1, <2>2, <2>3 DEF Add, TypeOK
  <2>5. CASE Len(todo[w]) = 1
    <3>1. Finish(w, "dispatched", snap[w]) /\ snap' = [snap EXCEPT ![w] = None]
      BY <1>6, <2>5 DEF Add
    <3>2. /\ pc' \in [Workers -> Pc] /\ pc'[w] = "recv"
          /\ cur' \in [Workers -> Event \cup {None}]
          /\ \A v \in Workers \ {w} : pc'[v] = pc[v] /\ cur'[v] = cur[v]
          /\ done' \subseteq [ev : Event, how : Outcome, rules : RuleSets \cup {None}]
          /\ since' \in [Workers -> SUBSET RuleSets]
      BY <2>1, <3>1, FinishTyped DEF Outcome
    <3>3. \A v \in Workers : /\ pc'[v] \in InHand => cur'[v] \in Event
                             /\ pc'[v] = "add" => todo'[v] # <<>>
      BY <2>4, <3>2 DEF TypeOK, InHand
    <3>4. snap' \in [Workers -> RuleSets \cup {None}]
      BY <3>1 DEF TypeOK
    <3> QED BY <1>1, <1>6, <2>1, <2>4, <3>2, <3>3, <3>4 DEF Add, WorkerStep, TypeOK, DedupInv, Pc, srcVars
  <2>6. CASE Len(todo[w]) # 1
    <3>1. UNCHANGED <<pc, cur, done, since, snap>>
      BY <1>6, <2>6 DEF Add
    <3>2. Tail(todo[w]) # <<>>
      <4>1. Len(todo[w]) \in Nat /\ Len(todo[w]) # 0
        BY <2>1, EmptySeq
      <4>2. Len(Tail(todo[w])) # 0
        BY <2>2, <2>6, <4>1
      <4>3. Len(<<>>) = 0
        OBVIOUS
      <4> QED BY <4>2, <4>3, Zenon
    <3>3. \A v \in Workers : pc'[v] = "add" => todo'[v] # <<>>
      BY <2>4, <3>1, <3>2 DEF TypeOK
    <3> QED BY <1>1, <1>6, <2>1, <2>4, <3>1, <3>3 DEF Add, WorkerStep, TypeOK, DedupInv, srcVars
  <2> QED BY <2>5, <2>6
<1> QED BY <1>3, <1>4, <1>5, <1>6 DEF WorkerReturn, ParseError, Lookup

(* Every step keeps the types.                                             *)
LEMMA TypeNext == TypeInv /\ [Next]_vars => TypeInv'
BY TypeEnvironment, TypeSource, TypeRecv, TypeSeen, TypeDispatch DEF Next, Worker

(* The pipeline's variables stay in their types.                           *)
THEOREM TypeCorrect == Safety => []TypeOK
BY TypeInit, TypeNext, PTL DEF Safety, TypeInv

----------------------------------------------------------------------------
(* The order of the shutdown.                                              *)

(* Run closes the channel when the source has returned; a worker returns   *)
(* only from a closed and empty channel, and Run only after all of them.   *)
Stopping ==
  /\ closed <=> run # "wait"
  /\ NoSendOnClosed
  /\ \A w \in Workers : pc[w] = "returned" => closed /\ events = <<>>
  /\ run = "returned" => \A w \in Workers : pc[w] = "returned"

(* A worker in hand of an event has not returned: its steps leave the      *)
(* channel as it is.                                                       *)
WorkerAt(w) ==
  /\ UNCHANGED <<closed, run, src>>
  /\ \A v \in Workers \ {w} : pc'[v] = pc[v]
  /\ pc[w] # "returned"

(* What the steps of a worker do to its place and to the channel.          *)
LEMMA WorkerMoves ==
  ASSUME TypeOK, NEW w \in Workers, Worker(w)
  PROVE  /\ WorkerAt(w)
         /\ \/ pc'[w] # "returned" /\ (events' = events \/ events # <<>>)
            \/ pc'[w] = "returned" /\ closed /\ events = <<>> /\ events' = events
<1>1. pc \in [Workers -> Pc]
  BY DEF TypeOK, Pc
<1>2. UNCHANGED <<closed, run, src>>
  BY DEF Worker, Recv, WorkerReturn, CacheGet, CacheAdd, ParseError, Lookup, Add, WorkerStep, srcVars
<1>3. CASE Recv(w)
  BY <1>1, <1>2, <1>3 DEF Recv, WorkerAt
<1>4. CASE WorkerReturn(w)
  BY <1>1, <1>2, <1>4 DEF WorkerReturn, WorkerAt
<1>5. CASE CacheGet(w)
  BY <1>1, <1>2, <1>5 DEF CacheGet, WorkerAt, workVars
<1>6. CASE CacheAdd(w)
  BY <1>1, <1>2, <1>6 DEF CacheAdd, Finish, WorkerAt
<1>7. CASE ParseError(w)
  BY <1>1, <1>2, <1>7 DEF ParseError, Finish, WorkerAt
<1>8. CASE Lookup(w)
  BY <1>1, <1>2, <1>8 DEF Lookup, Finish, WorkerAt
<1>9. ASSUME NEW ok \in BOOLEAN, Add(w, ok)
      PROVE  WorkerAt(w) /\ pc'[w] # "returned" /\ events' = events
  BY <1>1, <1>2, <1>9 DEF Add, Finish, WorkerAt
<1> QED BY <1>3, <1>4, <1>5, <1>6, <1>7, <1>8, <1>9 DEF Worker

(* The shutdown order is inductive.                                        *)
LEMMA StoppingNext == TypeInv /\ Stopping /\ [Next]_vars => Stopping'
<1> SUFFICES ASSUME TypeInv, Stopping, [Next]_vars PROVE Stopping'
  OBVIOUS
<1>0. TypeOK
  BY DEF TypeInv
<1>1. CASE \/ Cancel \/ CloseReader \/ PassTime \/ Terminated \/ UNCHANGED vars
           \/ \E rs \in RuleSets : Replace(rs)
  <2>1. UNCHANGED <<closed, run, src, pc, events>>
    BY <1>1 DEF Cancel, CloseReader, PassTime, Terminated, Replace, vars, srcVars, chanVars, workVars
  <2> QED BY <2>1 DEF Stopping, NoSendOnClosed
<1>2. CASE Source
  <2>1. src # "returned" /\ UNCHANGED <<closed, run, pc>>
    BY <1>2 DEF Source, ReadEvent, ReadGarbage, ReadError, SendEvent, AbandonEvent, SourceStep,
                chanVars, workVars
  <2>2. ~closed
    BY <2>1 DEF Stopping, NoSendOnClosed
  <2>3. \A w \in Workers : pc[w] # "returned"
    BY <2>2 DEF Stopping
  <2> QED BY <2>1, <2>2, <2>3 DEF Stopping, NoSendOnClosed
<1>3. CASE CloseEvents
  BY <1>0, <1>3 DEF CloseEvents, RunStep, Stopping, NoSendOnClosed, srcVars, workVars
<1>4. CASE RunReturn
  BY <1>0, <1>4 DEF RunReturn, RunStep, Stopping, NoSendOnClosed, srcVars, chanVars, workVars
<1>5. ASSUME NEW w \in Workers, Worker(w) PROVE Stopping'
  <2>1. /\ WorkerAt(w)
        /\ \/ pc'[w] # "returned" /\ (events' = events \/ events # <<>>)
           \/ pc'[w] = "returned" /\ closed /\ events = <<>> /\ events' = events
    BY <1>0, <1>5, WorkerMoves
  <2>2. run # "returned"
    BY <2>1 DEF Stopping, WorkerAt
  <2> QED BY <2>1, <2>2 DEF Stopping, NoSendOnClosed, WorkerAt
<1> QED BY <1>1, <1>2, <1>3, <1>4, <1>5 DEF Next

(* The channel is never written after it is closed.                        *)
THEOREM NeverSendsOnClosed == Safety => []NoSendOnClosed
<1>1. Init => Stopping
  BY DEF Init, Stopping, NoSendOnClosed
<1> QED BY <1>1, TypeInit, TypeNext, StoppingNext, PTL DEF Safety, Stopping

----------------------------------------------------------------------------
(* Every accepted event is in exactly one place.                           *)

(* The source numbers what it reads: the event it holds is newer than all  *)
(* those it has sent.                                                      *)
Ordered ==
  /\ \A e \in accepted : e.ts <= reads
  /\ src = "send" => held.ts = reads /\ \A e \in accepted : e.ts < reads

(* The numbering is inductive.                                             *)
LEMMA OrderedNext == TypeInv /\ Ordered /\ [Next]_vars => Ordered'
<1> SUFFICES ASSUME TypeInv, Ordered, [Next]_vars PROVE Ordered'
  OBVIOUS
<1>0. /\ reads \in Nat /\ accepted \subseteq Event
      /\ \A e \in Event : e.ts \in Nat
      /\ src = "send" => held \in Event
  BY PipelineAssumption DEF TypeInv, TypeOK, Event
<1>1. ASSUME NEW p \in Payloads, ReadEvent(p) PROVE Ordered'
  <2>1. reads' = reads + 1 /\ held'.ts = reads + 1 /\ accepted' = accepted
    BY <1>1 DEF ReadEvent, chanVars
  <2>2. \A e \in accepted : e.ts \in Nat /\ e.ts <= reads
    BY <1>0 DEF Ordered
  <2> QED BY <1>0, <2>1, <2>2 DEF Ordered
<1>2. CASE ReadGarbage
  <2>1. reads' = reads + 1 /\ src' = "read" /\ accepted' = accepted
    BY <1>2 DEF ReadGarbage, chanVars
  <2>2. \A e \in accepted : e.ts \in Nat /\ e.ts <= reads
    BY <1>0 DEF Ordered
  <2> QED BY <1>0, <2>1, <2>2 DEF Ordered
<1>3. CASE SendEvent
  BY <1>0, <1>3 DEF SendEvent, Ordered
<1>4. CASE AbandonEvent \/ \E fatal \in BOOLEAN : ReadError(fatal)
  BY <1>4 DEF AbandonEvent, ReadError, Ordered, chanVars
<1>5. CASE ~Source
  <2>1. UNCHANGED <<accepted, reads, src, held>>
    BY <1>5 DEF Next, Source, Cancel, Replace, PassTime, CloseReader, CloseEvents, RunReturn, RunStep,
       Worker, Recv, WorkerReturn, CacheGet, CacheAdd, ParseError, Lookup, Add, WorkerStep,
       Terminated, vars, srcVars, chanVars
  <2> QED BY <2>1 DEF Ordered
<1> QED BY <1>1, <1>2, <1>3, <1>4, <1>5 DEF Source

(* A step that neither moves an event nor changes who holds one.           *)
Quiet ==
  /\ UNCHANGED <<events, accepted, done>>
  /\ \A v \in Workers : pc'[v] \in InHand <=> pc[v] \in InHand
  /\ \A v \in Workers : pc[v] \in InHand => cur'[v] = cur[v]

(* Quiet steps change nothing that ExactlyOnce speaks of.                  *)
LEMMA QuietOnce ==
  ASSUME ExactlyOnce, Quiet
  PROVE  ExactlyOnce' /\ UNCHANGED Handled
<1>1. Queued' = Queued /\ Handled' = Handled /\ Busy' = Busy
  BY DEF Quiet, Queued, Handled, Busy
<1>2. {cur'[v] : v \in Busy'} = {cur[v] : v \in Busy}
  BY <1>1 DEF Quiet, Busy
<1>3. \A v \in Busy : cur'[v] = cur[v]
  BY DEF Quiet, Busy
<1> QED BY <1>1, <1>2, <1>3 DEF ExactlyOnce, Quiet

(* A new event enters the channel.                                         *)
LEMMA SendOnce ==
  ASSUME TypeInv, Ordered, ExactlyOnce, SendEvent
  PROVE  ExactlyOnce' /\ UNCHANGED Handled /\ held \notin accepted
<1>1. held \in Event /\ events \in Seq(Event) /\ events' = Append(events, held) /\ accepted' = accepted \cup {held}
  BY DEF SendEvent, TypeInv, TypeOK
<1>2. held \notin accepted
  <2>1. \A e \in accepted : e.ts < held.ts /\ e.ts \in Nat
    BY DEF SendEvent, Ordered, TypeInv, TypeOK, Event
  <2> QED BY <2>1
<1>3. UNCHANGED <<pc, cur, done>>
  BY DEF SendEvent, SourceStep, workVars
<1>4. Busy' = Busy /\ Handled' = Handled
  BY <1>3 DEF Busy, Handled
<1>5. /\ Len(events) \in Nat /\ Len(events') = Len(events) + 1 /\ events'[Len(events) + 1] = held
      /\ \A i \in 1 .. Len(events) : events'[i] = events[i]
  BY <1>1
<1>6. Queued' = Queued \cup {held}
  BY <1>5 DEF Queued
<1>7. held \notin Queued \cup Handled /\ \A v \in Busy : cur[v] # held
  BY <1>2 DEF ExactlyOnce
<1>8. \A i, j \in 1 .. Len(events') : events'[i] = events'[j] => i = j
  <2> SUFFICES ASSUME NEW i \in 1 .. Len(events) + 1, NEW j \in 1 .. Len(events) + 1, events'[i] = events'[j]
               PROVE  i = j
    BY <1>5
  <2>1. \A m \in 1 .. Len(events) : events'[m] # held
    BY <1>5, <1>7 DEF Queued
  <2>2. CASE i = Len(events) + 1 \/ j = Len(events) + 1
    BY <1>5, <2>1, <2>2
  <2>3. CASE i \in 1 .. Len(events) /\ j \in 1 .. Len(events)
    BY <1>5, <2>3 DEF ExactlyOnce
  <2> QED BY <1>5, <2>2, <2>3
<1>9. accepted' = Queued' \cup {cur'[v] : v \in Busy'} \cup Handled'
  BY <1>1, <1>3, <1>4, <1>6 DEF ExactlyOnce
<1> QED BY <1>2, <1>3, <1>4, <1>6, <1>7, <1>8, <1>9 DEF ExactlyOnce

(* The head of the channel goes to one worker.                             *)
LEMMA RecvOnce ==
  ASSUME TypeInv, ExactlyOnce, NEW w \in Workers, Recv(w)
  PROVE  ExactlyOnce' /\ UNCHANGED <<Handled, accepted>>
<1> DEFINE h == Head(events)
           n == Len(events)
<1>1. events \in Seq(Event) /\ events # <<>> /\ events' = Tail(events) /\ UNCHANGED <<accepted, done>>
  BY DEF Recv, WorkerStep, TypeInv, TypeOK
<1>2. n \in Nat /\ n >= 1
  BY <1>1, EmptySeq
<1>3. h = events[1] /\ Len(events') = n - 1 /\ \A i \in 1 .. n - 1 : events'[i] = events[i + 1]
  BY <1>1, <1>2
<1>4. /\ w \notin Busy /\ Busy' = Busy \cup {w} /\ cur'[w] = h
      /\ \A v \in Busy : cur'[v] = cur[v]
  BY DEF Recv, TypeInv, TypeOK, Busy, InHand
<1>5. Handled' = Handled
  BY <1>1 DEF Handled
<1> HIDE DEF h, n
<1>6. h \in Queued /\ \A i \in 1 .. n : events[i] = h => i = 1
  BY <1>2, <1>3 DEF Queued, ExactlyOnce, n
<1>7. Queued' = Queued \ {h}
  <2>1. Queued' \subseteq Queued \ {h}
    <3> SUFFICES ASSUME NEW i \in 1 .. n - 1 PROVE events'[i] \in Queued \ {h}
      BY <1>3 DEF Queued
    <3>1. i + 1 \in 1 .. n /\ i + 1 # 1
      BY <1>2
    <3> QED BY <1>3, <1>6, <3>1 DEF Queued, n
  <2>2. Queued \ {h} \subseteq Queued'
    <3> SUFFICES ASSUME NEW i \in 1 .. n, events[i] # h PROVE events[i] \in Queued'
      BY DEF Queued, n
    <3>1. i - 1 \in 1 .. n - 1 /\ (i - 1) + 1 = i
      BY <1>2, <1>3
    <3>2. events'[i - 1] = events[i]
      BY <1>3, <3>1
    <3> QED BY <1>3, <3>1, <3>2 DEF Queued
  <2> QED BY <2>1, <2>2
<1>8. \A i, j \in 1 .. Len(events') : events'[i] = events'[j] => i = j
  <2> SUFFICES ASSUME NEW i \in 1 .. n - 1, NEW j \in 1 .. n - 1, events'[i] = events'[j] PROVE i = j
    BY <1>3
  <2>1. i + 1 \in 1 .. n /\ j + 1 \in 1 .. n /\ events[i + 1] = events[j + 1]
    BY <1>2, <1>3
  <2>2. i + 1 = j + 1
    BY <2>1 DEF ExactlyOnce, n
  <2> QED BY <1>2, <2>2
<1>9. {cur'[v] : v \in Busy'} = {cur[v] : v \in Busy} \cup {h}
  BY <1>4
<1>10. accepted' = Queued' \cup {cur'[v] : v \in Busy'} \cup Handled'
  <2>1. accepted = Queued \cup {cur[v] : v \in Busy} \cup Handled
    BY DEF ExactlyOnce
  <2>2. accepted' = accepted
    BY <1>1
  <2> QED BY <1>5, <1>6, <1>7, <1>9, <2>1, <2>2
<1>11. h \notin Handled /\ \A v \in Busy : cur[v] # h
  BY <1>6 DEF ExactlyOnce
<1>12. /\ \A u, v \in Busy' : cur'[u] = cur'[v] => u = v
       /\ \A v \in Busy' : cur'[v] \notin Queued' \cup Handled'
       /\ Queued' \cap Handled' = {}
  BY <1>4, <1>5, <1>7, <1>11 DEF ExactlyOnce
<1>13. \A d, e \in done' : d.ev = e.ev => d = e
  BY <1>1 DEF ExactlyOnce
<1> QED BY <1>1, <1>5, <1>8, <1>10, <1>12, <1>13 DEF ExactlyOnce

(* A worker finishes its event: it goes from the worker to the handled.    *)
LEMMA FinishOnce ==
  ASSUME TypeInv, ExactlyOnce, NEW w \in Workers, pc[w] \in InHand, NEW how, NEW rs, Finish(w, how, rs),
         UNCHANGED <<events, accepted>>
  PROVE  ExactlyOnce' /\ Handled' = Handled \cup {cur[w]} /\ cur[w] \in accepted \ Handled
<1> DEFINE d0 == [ev |-> cur[w], how |-> how, rules |-> rs]
<1>1. /\ w \in Busy /\ Busy' = Busy \ {w}
      /\ \A v \in Busy' : cur'[v] = cur[v]
  BY DEF Finish, TypeInv, TypeOK, Busy, InHand
<1>2. done' = done \cup {d0} /\ d0.ev = cur[w]
  BY DEF Finish
<1>3. Handled' = Handled \cup {cur[w]} /\ Queued' = Queued
  BY <1>2 DEF Handled, Queued
<1> HIDE DEF d0
<1>4. cur[w] \in accepted /\ cur[w] \notin Queued \cup Handled
  BY <1>1 DEF ExactlyOnce
<1>5. {cur'[v] : v \in Busy'} \cup {cur[w]} = {cur[v] : v \in Busy}
  BY <1>1
<1>6. accepted' = Queued' \cup {cur'[v] : v \in Busy'} \cup Handled'
  BY <1>3, <1>5 DEF ExactlyOnce
<1>7. /\ \A u, v \in Busy' : cur'[u] = cur'[v] => u = v
      /\ \A v \in Busy' : cur'[v] \notin Queued' \cup Handled'
      /\ Queued' \cap Handled' = {}
  BY <1>1, <1>3, <1>4 DEF ExactlyOnce
<1>8. \A d \in done : d.ev # cur[w]
  BY <1>4 DEF Handled
<1>9. \A d, e \in done' : d.ev = e.ev => d = e
  BY <1>2, <1>8 DEF ExactlyOnce
<1>10. \A i, j \in 1 .. Len(events') : events'[i] = events'[j] => i = j
  BY DEF ExactlyOnce
<1> QED BY <1>3, <1>4, <1>6, <1>7, <1>9, <1>10 DEF ExactlyOnce

(* The event a worker finishes in a step, if it does.                      *)
FinishStep(w) ==
  /\ pc[w] \in InHand
  /\ \E how \in Outcome, rs \in RuleSets \cup {None} : Finish(w, how, rs)
  /\ UNCHANGED <<events, accepted>>

(* Every step is quiet, sends, receives or finishes.                       *)
LEMMA Kinds ==
  ASSUME TypeInv, [Next]_vars
  PROVE  Quiet \/ SendEvent \/ \E w \in Workers : Recv(w) \/ FinishStep(w)
<1>0. pc \in [Workers -> Pc] /\ snap \in [Workers -> RuleSets \cup {None}] /\ store \in RuleSets
  BY DEF TypeInv, TypeOK, Pc
<1>1. CASE \/ Cancel \/ CloseReader \/ PassTime \/ Terminated \/ UNCHANGED vars
           \/ CloseEvents \/ RunReturn \/ \E rs \in RuleSets : Replace(rs)
  BY <1>1 DEF Quiet, Cancel, CloseReader, PassTime, Terminated, Replace, CloseEvents, RunReturn, RunStep,
              vars, chanVars, workVars
<1>2. CASE Source
  BY <1>2 DEF Quiet, Source, ReadEvent, ReadGarbage, ReadError, AbandonEvent, SourceStep, chanVars, workVars
<1>3. ASSUME NEW w \in Workers, Worker(w)
      PROVE  Quiet \/ Recv(w) \/ FinishStep(w)
  <2>1. CASE WorkerReturn(w)
    BY <1>0, <2>1 DEF WorkerReturn, WorkerStep, Quiet, InHand
  <2>2. CASE CacheGet(w)
    BY <2>2 DEF CacheGet, WorkerStep, Quiet, workVars
  <2>3. CASE CacheAdd(w)
    BY <1>0, <2>3 DEF CacheAdd, WorkerStep, Quiet, FinishStep, InHand, Outcome
  <2>4. CASE ParseError(w)
    BY <1>0, <2>4 DEF ParseError, WorkerStep, FinishStep, InHand, Outcome
  <2>5. CASE Lookup(w)
    BY <1>0, <2>5 DEF Lookup, WorkerStep, Quiet, FinishStep, InHand, Outcome
  <2>6. ASSUME NEW ok \in BOOLEAN, Add(w, ok) PROVE Quiet \/ FinishStep(w)
    BY <1>0, <2>6 DEF Add, WorkerStep, Quiet, FinishStep, InHand, Outcome
  <2> QED BY <1>3, <2>1, <2>2, <2>3, <2>4, <2>5, <2>6 DEF Worker
<1> QED BY <1>1, <1>2, <1>3 DEF Next

(* No step loses an event or handles one twice.                            *)
LEMMA OnceNext == TypeInv /\ Ordered /\ ExactlyOnce /\ [Next]_vars => ExactlyOnce'
BY Kinds, QuietOnce, SendOnce, RecvOnce, FinishOnce DEF FinishStep

Inv == TypeInv /\ Stopping /\ Ordered /\ ExactlyOnce

(* Initially nothing is accepted.                                          *)
LEMMA InvInit == Init => Inv
<1> SUFFICES ASSUME Init PROVE Inv
  OBVIOUS
<1>1. Stopping /\ Ordered
  BY DEF Init, Stopping, NoSendOnClosed, Ordered
<1>2. Queued = {} /\ Busy = {} /\ Handled = {} /\ Len(events) = 0
  BY DEF Init, Queued, Busy, Handled, InHand
<1>3. ExactlyOnce
  BY <1>2 DEF ExactlyOnce, Init
<1> QED BY <1>1, <1>3, TypeInit DEF Inv

(* Every step preserves the invariant.                                     *)
LEMMA InvNext == Inv /\ [Next]_vars => Inv'
BY TypeNext, StoppingNext, OrderedNext, OnceNext DEF Inv

(* When all workers have returned nobody holds an event and the channel    *)
(* is empty.                                                               *)
LEMMA Drained ==
  ASSUME Inv, \A w \in Workers : pc[w] = "returned"
  PROVE  accepted = Handled
<1>1. Busy = {}
  BY DEF Busy, InHand
<1>2. events = <<>>
  BY PipelineAssumption DEF Inv, Stopping
<1>3. Queued = {}
  BY <1>2 DEF Queued
<1> QED BY <1>1, <1>3 DEF Inv, ExactlyOnce

(* Every event the channel accepted is in one place, and handled once.     *)
THEOREM AlwaysExactlyOnce == Safety => []ExactlyOnce
BY InvInit, InvNext, PTL DEF Safety, Inv

(* Run does not return before every accepted event is handled.             *)
THEOREM AlwaysDrained == Safety => []DrainedAtReturn
<1>1. Inv => DrainedAtReturn
  BY Drained DEF DrainedAtReturn, Inv, Stopping
<1> QED BY <1>1, InvInit, InvNext, PTL DEF Safety

----------------------------------------------------------------------------
(* The pipeline implements Delivery, but for its liveness.                 *)

(* Sending accepts an event, finishing handles one, returning stops, and   *)
(* every other step leaves what Delivery sees unchanged.                   *)
LEMMA StepRefines ==
  ASSUME Inv, [Next]_vars
  PROVE  [Abstract!Next]_(Abstract!vars)
<1>0. TypeInv /\ Ordered /\ ExactlyOnce /\ accepted \subseteq Event
  BY DEF Inv, TypeInv, TypeOK
<1>1. CASE RunReturn
  <2>1. run' = "returned" /\ UNCHANGED <<accepted, done>> /\ accepted = Handled
    BY <1>1, Drained DEF RunReturn, RunStep, chanVars, workVars
  <2>2. Handled' = Handled
    BY <2>1 DEF Handled
  <2>3. accepted \ Handled = {} /\ accepted' \ Handled' = accepted \ Handled
    BY <2>1, <2>2
  <2>4. (run' = "returned") = TRUE
    BY <2>1
  <2>5. Abstract!Stop
    BY <2>2, <2>3, <2>4, Zenon DEF Abstract!Stop
  <2> QED BY <2>5 DEF Abstract!Next
<1>2. CASE ~RunReturn
  <2>1. run' = "returned" <=> run = "returned"
    BY <1>2 DEF Next, Source, ReadEvent, ReadGarbage, ReadError, SendEvent, AbandonEvent, SourceStep,
       Cancel, Replace, PassTime, CloseReader, CloseEvents, Worker, Recv, WorkerReturn, CacheGet,
       CacheAdd, ParseError, Lookup, Add, WorkerStep, Terminated, vars
  <2>2. CASE Quiet
    <3>1. UNCHANGED <<accepted, Handled>>
      BY <2>2 DEF Quiet, Handled
    <3> QED BY <2>1, <3>1 DEF Abstract!vars
  <2>3. CASE SendEvent
    <3>1. /\ held \in Event /\ held \notin accepted /\ accepted' = accepted \cup {held} /\ Handled' = Handled
      BY <1>0, <2>3, SendOnce DEF SendEvent, TypeInv, TypeOK
    <3>2. Handled \subseteq accepted
      BY <1>0 DEF ExactlyOnce
    <3>3. run # "returned"
      BY <2>3 DEF SendEvent, Inv, Stopping, NoSendOnClosed
    <3>4. Abstract!Accept(held)
      BY <2>1, <3>1, <3>2, <3>3 DEF Abstract!Accept
    <3> QED BY <3>1, <3>4 DEF Abstract!Next
  <2>4. ASSUME NEW w \in Workers, Recv(w) PROVE UNCHANGED Abstract!vars
    <3>1. UNCHANGED <<accepted, Handled>>
      BY <1>0, <2>4, RecvOnce
    <3> QED BY <2>1, <3>1 DEF Abstract!vars
  <2>5. ASSUME NEW w \in Workers, FinishStep(w) PROVE Abstract!Next
    <3>1. Handled' = Handled \cup {cur[w]} /\ cur[w] \in accepted \ Handled /\ accepted' = accepted
      BY <1>0, <2>5, FinishOnce DEF FinishStep
    <3>2. run # "returned"
      BY <2>5 DEF FinishStep, Inv, Stopping, InHand
    <3>3. Abstract!Handle(cur[w]) /\ cur[w] \in Event
      BY <1>0, <2>1, <3>1, <3>2 DEF Abstract!Handle
    <3> QED BY <3>3 DEF Abstract!Next
  <2> QED BY <1>0, <2>2, <2>3, <2>4, <2>5, Kinds
<1> QED BY <1>1, <1>2

(* Every behaviour of the pipeline is, as far as accepted and handled      *)
(* events go, one of Delivery's.                                           *)
THEOREM RefinesDelivery == Safety => Abstract!Safety
<1>1. Init => Abstract!Init
  BY DEF Init, Abstract!Init, Handled
<1> QED BY <1>1, InvInit, InvNext, StepRefines, PTL DEF Safety, Abstract!Safety

----------------------------------------------------------------------------
(* What a worker's step does to the other workers: nothing.                *)

OthersStay(w) ==
  \A v \in Workers \ {w} :
    /\ pc'[v] = pc[v] /\ cur'[v] = cur[v] /\ since'[v] = since[v]
    /\ snap'[v] = snap[v] /\ todo'[v] = todo[v]

(* The steps of a worker touch its own place, event, rules and entries.    *)
LEMMA WorkerAlone ==
  ASSUME TypeOK, NEW w \in Workers, Worker(w)
  PROVE  OthersStay(w) /\ UNCHANGED store
<1>1. /\ pc \in [Workers -> Pc] /\ cur \in [Workers -> Event \cup {None}]
      /\ since \in [Workers -> SUBSET RuleSets] /\ snap \in [Workers -> RuleSets \cup {None}]
      /\ todo \in [Workers -> Seq(Entries)]
  BY DEF TypeOK, Pc
<1>2. UNCHANGED store
  BY DEF Worker, Recv, WorkerReturn, CacheGet, CacheAdd, ParseError, Lookup, Add, WorkerStep
<1>3. CASE Recv(w)
  BY <1>1, <1>2, <1>3 DEF Recv, OthersStay
<1>4. CASE WorkerReturn(w)
  BY <1>1, <1>2, <1>4 DEF WorkerReturn, OthersStay
<1>5. CASE CacheGet(w)
  BY <1>1, <1>2, <1>5 DEF CacheGet, workVars, OthersStay
<1>6. CASE CacheAdd(w)
  BY <1>1, <1>2, <1>6 DEF CacheAdd, Finish, OthersStay
<1>7. CASE ParseError(w)
  BY <1>1, <1>2, <1>7 DEF ParseError, Finish, OthersStay
<1>8. CASE Lookup(w)
  BY <1>1, <1>2, <1>8 DEF Lookup, Finish, OthersStay
<1>9. ASSUME NEW ok \in BOOLEAN, Add(w, ok) PROVE OthersStay(w)
  BY <1>1, <1>9 DEF Add, Finish, OthersStay
<1> QED BY <1>2, <1>3, <1>4, <1>5, <1>6, <1>7, <1>8, <1>9 DEF Worker

(* Signals, time, the source and Run do nothing to a worker.               *)
Outside ==
  \/ Cancel \/ CloseReader \/ PassTime \/ Terminated \/ UNCHANGED vars
  \/ Source \/ CloseEvents \/ RunReturn

(* Their steps leave the workers, the store and the returned calls alone.  *)
LEMMA OutsideStays == Outside => UNCHANGED <<workVars, store, log>>
BY DEF Outside, Cancel, CloseReader, PassTime, Tick, Terminated, CloseEvents, RunReturn, RunStep,
       Source, ReadEvent, ReadGarbage, ReadError, SendEvent, AbandonEvent, SourceStep, vars, dedupVars

(* Every step is one of those, a reload or a worker's.                     *)
LEMMA Actors ==
  ASSUME [Next]_vars
  PROVE  Outside \/ (\E rs \in RuleSets : Replace(rs)) \/ \E w \in Workers : Worker(w)
BY DEF Next, Outside

----------------------------------------------------------------------------
(* Rules are matched against a snapshot that was current.                  *)

(* The rules in the store are among those a busy worker has seen in it,    *)
(* and so are the rules it took.                                           *)
Current ==
  /\ \A w \in Workers : pc[w] \in InHand => store \in since[w]
  /\ FreshSnapshot

(* Reloads add to what a busy worker has seen; Lookup takes the newest.    *)
LEMMA CurrentNext == TypeInv /\ Current /\ [Next]_vars => Current'
<1> SUFFICES ASSUME TypeInv, Current, [Next]_vars PROVE Current'
  OBVIOUS
<1> USE DEF FreshSnapshot
<1>0. /\ TypeOK /\ pc \in [Workers -> Pc]
      /\ since \in [Workers -> SUBSET RuleSets] /\ snap \in [Workers -> RuleSets \cup {None}]
  BY DEF TypeInv, TypeOK, Pc
<1>1. CASE Outside
  <2>1. UNCHANGED <<pc, store, since, snap>>
    BY <1>1, OutsideStays DEF workVars
  <2> QED BY <2>1 DEF Current
<1>2. ASSUME NEW rs \in RuleSets, Replace(rs) PROVE Current'
  BY <1>2 DEF Replace, Current, InHand
<1>3. ASSUME NEW w \in Workers, Worker(w) PROVE Current'
  <2>1. OthersStay(w) /\ UNCHANGED store
    BY <1>0, <1>3, WorkerAlone
  <2>2. SUFFICES /\ pc'[w] \in InHand => store \in since'[w]
                 /\ pc'[w] = "add" => snap'[w] \in since'[w]
    BY <2>1, <2>2 DEF Current, OthersStay
  <2>3. CASE Recv(w)
    BY <1>0, <2>3 DEF Recv
  <2>4. CASE WorkerReturn(w)
    BY <1>0, <2>4 DEF WorkerReturn, InHand
  <2>5. CASE CacheGet(w)
    BY <2>5 DEF CacheGet, workVars, Current
  <2>6. CASE CacheAdd(w)
    BY <1>0, <2>6 DEF CacheAdd, Finish, Current, InHand
  <2>7. CASE ParseError(w)
    BY <1>0, <2>7 DEF ParseError, Finish, InHand
  <2>8. CASE Lookup(w)
    BY <1>0, <2>8 DEF Lookup, Finish, Current, InHand
  <2>9. ASSUME NEW ok \in BOOLEAN, Add(w, ok)
        PROVE  /\ pc'[w] \in InHand => store \in since'[w]
               /\ pc'[w] = "add" => snap'[w] \in since'[w]
    BY <1>0, <2>9 DEF Add, Finish, Current, InHand
  <2> QED BY <1>3, <2>3, <2>4, <2>5, <2>6, <2>7, <2>8, <2>9 DEF Worker
<1> QED BY <1>1, <1>2, <1>3, Actors

(* An event is matched against rules that were in the store at some moment *)
(* since its worker took it.                                               *)
THEOREM AlwaysFresh == Safety => []FreshSnapshot
<1>1. Init => Current
  BY DEF Init, Current, FreshSnapshot, InHand
<1> QED BY <1>1, TypeInit, TypeNext, CurrentNext, PTL DEF Safety, Current

----------------------------------------------------------------------------
(* A dispatched event has been tried on its entries, on all and only them. *)

TriedOf(e) == {t[2] : t \in {x \in tried : x[1] = e}}

Listed(s) == {s[i] : i \in 1 .. Len(s)}

(* What has been tried for an event in dispatch, with what is left, is its *)
(* plan, and nothing is tried for an event before its dispatch begins.     *)
Dispatching ==
  /\ \A w \in Workers : pc[w] = "add" =>
       TriedOf(cur[w]) \cup Listed(todo[w]) = Listed(Plan[snap[w]][cur[w].payload])
  /\ \A x \in tried : x[1] \in Handled \/ \E w \in Workers : pc[w] = "add" /\ cur[w] = x[1]
  /\ \A d \in done : d.how = "dispatched" => TriedOf(d.ev) = Listed(Plan[d.rules][d.ev.payload])

(* The entries left are the next one and those after it.                   *)
LEMMA ListedTail ==
  ASSUME NEW S, NEW s \in Seq(S), s # <<>>
  PROVE  Listed(s) = {Head(s)} \cup Listed(Tail(s))
<1>1. Len(s) \in Nat /\ Len(s) >= 1
  BY EmptySeq
<1>2. Head(s) = s[1] /\ Len(Tail(s)) = Len(s) - 1 /\ \A i \in 1 .. Len(s) - 1 : Tail(s)[i] = s[i + 1]
  BY <1>1
<1>3. ASSUME NEW i \in 1 .. Len(s) PROVE s[i] \in {Head(s)} \cup Listed(Tail(s))
  <2>1. CASE i = 1
    BY <1>2, <2>1
  <2>2. CASE i # 1
    <3>1. i - 1 \in 1 .. Len(s) - 1 /\ (i - 1) + 1 = i
      BY <1>1, <2>2
    <3>2. Tail(s)[i - 1] = s[i]
      BY <1>2, <3>1
    <3> QED BY <1>2, <3>1, <3>2 DEF Listed
  <2> QED BY <2>1, <2>2
<1>4. ASSUME NEW i \in 1 .. Len(s) - 1 PROVE Tail(s)[i] \in Listed(s)
  <2>1. i + 1 \in 1 .. Len(s)
    BY <1>1
  <2> QED BY <1>2, <2>1 DEF Listed
<1>5. Head(s) \in Listed(s)
  BY <1>1, <1>2 DEF Listed
<1> QED BY <1>2, <1>3, <1>4, <1>5 DEF Listed

(* A step that tries nothing, leaves the dispatches under way alone and    *)
(* hands over no dispatched event keeps Dispatching.                       *)
LEMMA NothingTried ==
  ASSUME Dispatching, UNCHANGED tried, done \subseteq done',
         \A d \in done' \ done : d.how # "dispatched",
         \A w \in Workers : pc'[w] = "add" <=> pc[w] = "add",
         \A w \in Workers : pc[w] = "add" => UNCHANGED <<cur[w], todo[w], snap[w]>>
  PROVE  Dispatching'
<1>1. \A e : TriedOf(e)' = TriedOf(e)
  BY DEF TriedOf
<1>2. Handled \subseteq Handled'
  BY DEF Handled
<1>3. \A d \in done' : d.how = "dispatched" => d \in done
  OBVIOUS
<1> QED BY <1>1, <1>2, <1>3 DEF Dispatching

(* Nothing has been tried for an event that its worker has just parsed.    *)
LEMMA NotTriedYet ==
  ASSUME TypeInv, ExactlyOnce, Dispatching, NEW w \in Workers, pc[w] = "parse"
  PROVE  TriedOf(cur[w]) = {}
<1>1. w \in Busy /\ \A v \in Workers : pc[v] = "add" => v \in Busy /\ v # w
  BY DEF Busy, InHand
<1>2. \A x \in tried : x[1] # cur[w]
  BY <1>1 DEF Dispatching, ExactlyOnce
<1> QED BY <1>2 DEF TriedOf

(* Lookup starts a dispatch with nothing tried, or ends it at once.        *)
LEMMA LookupDispatching ==
  ASSUME TypeInv, ExactlyOnce, Dispatching, NEW w \in Workers, Lookup(w)
  PROVE  Dispatching'
<1> DEFINE plan == Plan[store][cur[w].payload]
<1>1. /\ pc[w] = "parse" /\ UNCHANGED tried /\ TriedOf(cur[w]) = {}
      /\ pc \in [Workers -> Pc] /\ snap \in [Workers -> RuleSets \cup {None}]
      /\ todo \in [Workers -> Seq(Entries)] /\ cur \in [Workers -> Event \cup {None}]
  BY NotTriedYet DEF Lookup, TypeInv, TypeOK, Pc
<1>2. \A e : TriedOf(e)' = TriedOf(e)
  BY <1>1 DEF TriedOf
<1>3. CASE plan = <<>>
  <2> DEFINE d0 == [ev |-> cur[w], how |-> "dispatched", rules |-> store]
  <2>1. /\ done' = done \cup {d0} /\ UNCHANGED <<snap, todo>>
        /\ pc' = [pc EXCEPT ![w] = "recv"] /\ cur' = [cur EXCEPT ![w] = None]
    BY <1>3 DEF Lookup, Finish
  <2>2. Listed(plan) = {}
    BY <1>3 DEF Listed
  <2>3. TriedOf(d0.ev) = Listed(Plan[d0.rules][d0.ev.payload])
    BY <1>1, <2>2
  <2>4. Handled \subseteq Handled'
    BY <2>1 DEF Handled
  <2> HIDE DEF d0, plan
  <2>5. \A d \in done' : d.how = "dispatched" => TriedOf(d.ev) = Listed(Plan[d.rules][d.ev.payload])
    BY <2>1, <2>3 DEF Dispatching
  <2>6. \A v \in Workers : (pc'[v] = "add" <=> pc[v] = "add") /\ (pc[v] = "add" => cur'[v] = cur[v])
    BY <1>1, <2>1
  <2> QED BY <1>1, <1>2, <2>1, <2>4, <2>5, <2>6 DEF Dispatching
<1>4. CASE plan # <<>>
  <2>1. /\ snap' = [snap EXCEPT ![w] = store] /\ todo' = [todo EXCEPT ![w] = plan]
        /\ pc' = [pc EXCEPT ![w] = "add"] /\ UNCHANGED <<cur, done>>
    BY <1>4 DEF Lookup
  <2>2. /\ pc'[w] = "add" /\ snap'[w] = store /\ todo'[w] = plan
        /\ \A v \in Workers \ {w} : pc'[v] = pc[v] /\ snap'[v] = snap[v] /\ todo'[v] = todo[v]
    BY <1>1, <2>1
  <2>3. TriedOf(cur[w]) \cup Listed(todo'[w]) = Listed(Plan[snap'[w]][cur[w].payload])
    BY <1>1, <2>2
  <2>4. Handled' = Handled
    BY <2>1 DEF Handled
  <2> HIDE DEF plan
  <2>5. \A v \in Workers : pc'[v] = "add" =>
          TriedOf(cur[v]) \cup Listed(todo'[v]) = Listed(Plan[snap'[v]][cur[v].payload])
    BY <2>2, <2>3 DEF Dispatching
  <2>6. \A x \in tried : x[1] \in Handled \/ \E v \in Workers : pc'[v] = "add" /\ cur[v] = x[1]
    BY <2>2 DEF Dispatching
  <2> QED BY <1>1, <1>2, <2>1, <2>4, <2>5, <2>6 DEF Dispatching
<1> QED BY <1>3, <1>4

(* Add moves one entry from those left to those tried, whether it          *)
(* succeeds or not, and disturbs no other event.                           *)
LEMMA AddDispatching ==
  ASSUME TypeInv, ExactlyOnce, Dispatching, NEW w \in Workers, NEW ok \in BOOLEAN, Add(w, ok)
  PROVE  Dispatching'
<1> DEFINE entry == Head(todo[w])
           plan  == Plan[snap[w]][cur[w].payload]
<1>1. /\ pc[w] = "add" /\ tried' = tried \cup {<<cur[w], entry>>}
      /\ todo' = [todo EXCEPT ![w] = Tail(todo[w])]
      /\ pc \in [Workers -> Pc] /\ snap \in [Workers -> RuleSets \cup {None}]
      /\ todo \in [Workers -> Seq(Entries)] /\ cur \in [Workers -> Event \cup {None}]
      /\ todo[w] \in Seq(Entries) /\ todo[w] # <<>>
  BY DEF Add, TypeInv, TypeOK, Pc
<1>2. Listed(todo[w]) = {entry} \cup Listed(Tail(todo[w]))
  BY <1>1, ListedTail
<1>3. /\ w \in Busy
      /\ \A v \in Workers : pc[v] = "add" /\ v # w => cur[v] # cur[w]
      /\ \A d \in done : d.ev # cur[w]
  BY <1>1 DEF ExactlyOnce, Busy, InHand, Handled
<1> HIDE DEF entry
<1>4. \A e : e # cur[w] => {t[2] : t \in {x \in tried' : x[1] = e}} = TriedOf(e)
  BY <1>1 DEF TriedOf
<1>5. {t[2] : t \in {x \in tried' : x[1] = cur[w]}} = TriedOf(cur[w]) \cup {entry}
  <2> DEFINE t0 == <<cur[w], entry>>
  <2>1. tried' = tried \cup {t0} /\ t0[1] = cur[w] /\ t0[2] = entry
    BY <1>1
  <2> HIDE DEF t0
  <2>2. {x \in tried' : x[1] = cur[w]} = {x \in tried : x[1] = cur[w]} \cup {t0}
    BY <2>1
  <2> QED BY <2>1, <2>2 DEF TriedOf
<1>6. TriedOf(cur[w]) \cup Listed(todo[w]) = Listed(plan)
  BY <1>1 DEF Dispatching
<1>7. \A v \in Workers \ {w} : todo'[v] = todo[v]
  BY <1>1
<1> DEFINE Now(e) == {t[2] : t \in {x \in tried' : x[1] = e}}
<1>8. \A e : e # cur[w] => Now(e) = TriedOf(e)
  BY <1>4
<1>9. Now(cur[w]) \cup Listed(Tail(todo[w])) = Listed(plan)
  BY <1>2, <1>5, <1>6
<1> SUFFICES
      /\ \A v \in Workers : pc'[v] = "add" =>
           Now(cur'[v]) \cup Listed(todo'[v]) = Listed(Plan[snap'[v]][cur'[v].payload])
      /\ \A x \in tried' : x[1] \in Handled' \/ \E v \in Workers : pc'[v] = "add" /\ cur'[v] = x[1]
      /\ \A d \in done' : d.how = "dispatched" => Now(d.ev) = Listed(Plan[d.rules][d.ev.payload])
  BY DEF Dispatching, TriedOf
<1> HIDE DEF Now
<1>10. \A x \in tried' : x[1] = cur[w] \/ x \in tried
  BY <1>1
<1>11. CASE Len(todo[w]) = 1
  <2> DEFINE d0 == [ev |-> cur[w], how |-> "dispatched", rules |-> snap[w]]
  <2>1. /\ done' = done \cup {d0} /\ snap' = [snap EXCEPT ![w] = None]
        /\ pc' = [pc EXCEPT ![w] = "recv"] /\ cur' = [cur EXCEPT ![w] = None]
    BY <1>11 DEF Add, Finish
  <2>2. Listed(Tail(todo[w])) = {}
    <3>1. Len(Tail(todo[w])) = 0
      BY <1>1, <1>11
    <3>2. \A i \in 1 .. 0 : FALSE
      OBVIOUS
    <3> QED BY <3>1, <3>2, Zenon DEF Listed
  <2>3. Now(d0.ev) = Listed(Plan[d0.rules][d0.ev.payload]) /\ d0.ev = cur[w]
    BY <1>9, <2>2
  <2> HIDE DEF d0, plan
  <2>4. Handled' = Handled \cup {cur[w]}
    BY <2>1, <2>3 DEF Handled
  <2>5. \A v \in Workers \ {w} : pc'[v] = pc[v] /\ snap'[v] = snap[v] /\ cur'[v] = cur[v]
    BY <1>1, <2>1
  <2>6. pc'[w] # "add"
    BY <1>1, <2>1
  <2>7. \A d \in done' : d.how = "dispatched" => Now(d.ev) = Listed(Plan[d.rules][d.ev.payload])
    BY <1>3, <1>8, <2>1, <2>3 DEF Dispatching
  <2>8. \A v \in Workers : pc'[v] = "add" =>
           Now(cur'[v]) \cup Listed(todo'[v]) = Listed(Plan[snap'[v]][cur'[v].payload])
    BY <1>3, <1>7, <1>8, <2>5, <2>6 DEF Dispatching
  <2>9. \A x \in tried' : x[1] \in Handled' \/ \E v \in Workers : pc'[v] = "add" /\ cur'[v] = x[1]
    BY <1>10, <2>4, <2>5 DEF Dispatching
  <2> QED BY <2>7, <2>8, <2>9
<1>12. CASE Len(todo[w]) # 1
  <2>1. UNCHANGED <<pc, cur, done, snap>>
    BY <1>12 DEF Add
  <2>2. todo'[w] = Tail(todo[w])
    BY <1>1
  <2>3. Handled' = Handled
    BY <2>1 DEF Handled
  <2>4. Now(cur'[w]) \cup Listed(todo'[w]) = Listed(Plan[snap'[w]][cur'[w].payload])
    BY <1>9, <2>1, <2>2
  <2>5. \A v \in Workers : pc'[v] = "add" =>
           Now(cur'[v]) \cup Listed(todo'[v]) = Listed(Plan[snap'[v]][cur'[v].payload])
    BY <1>3, <1>7, <1>8, <2>1, <2>4 DEF Dispatching
  <2>6. \A d \in done' : d.how = "dispatched" => Now(d.ev) = Listed(Plan[d.rules][d.ev.payload])
    BY <1>3, <1>8, <2>1 DEF Dispatching
  <2>7. \A x \in tried' : x[1] \in Handled' \/ \E v \in Workers : pc'[v] = "add" /\ cur'[v] = x[1]
    BY <1>1, <1>10, <2>1, <2>3 DEF Dispatching
  <2> QED BY <2>5, <2>6, <2>7
<1> QED BY <1>11, <1>12

(* No step tries an entry out of plan or forgets one.                      *)
LEMMA DispatchingNext == TypeInv /\ ExactlyOnce /\ Dispatching /\ [Next]_vars => Dispatching'
<1> SUFFICES ASSUME TypeInv, ExactlyOnce, Dispatching, [Next]_vars PROVE Dispatching'
  OBVIOUS
<1>0. TypeOK /\ pc \in [Workers -> Pc]
  BY DEF TypeInv, TypeOK, Pc
<1>1. CASE Outside
  <2>1. UNCHANGED <<pc, cur, todo, snap, tried, done>>
    BY <1>1, OutsideStays DEF workVars
  <2> QED BY <2>1, NothingTried
<1>2. ASSUME NEW rs \in RuleSets, Replace(rs) PROVE Dispatching'
  <2>1. UNCHANGED <<pc, cur, todo, snap, tried, done>>
    BY <1>2 DEF Replace
  <2> QED BY <2>1, NothingTried
<1>3. ASSUME NEW w \in Workers, Recv(w) \/ WorkerReturn(w) \/ CacheGet(w) \/ CacheAdd(w) \/ ParseError(w)
      PROVE  Dispatching'
  <2>1. OthersStay(w)
    BY <1>0, <1>3, WorkerAlone DEF Worker
  <2>2. pc[w] # "add" /\ pc'[w] # "add" /\ UNCHANGED tried
    BY <1>0, <1>3 DEF Recv, WorkerReturn, CacheGet, CacheAdd, ParseError, Finish, workVars
  <2>3. done \subseteq done' /\ \A d \in done' \ done : d.how # "dispatched"
    BY <1>3 DEF Recv, WorkerReturn, CacheGet, CacheAdd, ParseError, Finish, workVars
  <2> QED BY <2>1, <2>2, <2>3, NothingTried DEF OthersStay
<1> QED BY <1>1, <1>2, <1>3, LookupDispatching, AddDispatching, Actors DEF Worker

(* A dispatched event has been offered to all the entries of its plan and  *)
(* to no other, whichever calls of ipset.Add failed.                       *)
THEOREM AlwaysComplete == Safety => []DispatchComplete
<1>1. Init => Dispatching
  BY DEF Init, Dispatching
<1>2. Dispatching => DispatchComplete
  BY DEF Dispatching, DispatchComplete, TriedOf, Listed
<1> QED BY <1>1, <1>2, InvInit, InvNext, DispatchingNext, PTL DEF Safety, Inv

----------------------------------------------------------------------------
(* A response dropped as a duplicate has a twin that is not dropped.       *)

(* The hashes of events that were, or are, handled past the deduplicator.  *)
Twinned ==
  {Fnv[e.ev.payload] : e \in {d \in done : d.how # "dup"}}
    \cup {Fnv[cur[w].payload] : w \in {v \in Workers : pc[v] \in {"parse", "add"}}}

(* Each call of Seen that returned false sent its worker on to the parser, *)
(* and each event dropped had a call of Seen to itself.                    *)
Twins ==
  /\ \A j \in 1 .. Len(log) : ~log[j].seen => log[j].key \in Twinned
  /\ \A d \in done : d.how = "dup" => \E j \in 1 .. Len(log) : log[j].key = Fnv[d.ev.payload]

(* An event past the deduplicator stays with its worker until it is        *)
(* handled, and then it is not a duplicate.                                *)
LEMMA TwinStays ==
  ASSUME TypeInv, [Next]_vars
  PROVE  Twinned \subseteq Twinned'
<1>0. /\ TypeOK /\ pc \in [Workers -> Pc] /\ cur \in [Workers -> Event \cup {None}]
  BY DEF TypeInv, TypeOK, Pc
<1>1. CASE Outside \/ \E rs \in RuleSets : Replace(rs)
  <2>1. UNCHANGED <<pc, cur, done>>
    BY <1>1, OutsideStays DEF workVars, Replace
  <2> QED BY <2>1 DEF Twinned
<1>2. ASSUME NEW w \in Workers, Worker(w) PROVE Twinned \subseteq Twinned'
  <2>1. OthersStay(w)
    BY <1>0, <1>2, WorkerAlone
  <2>2. done \subseteq done'
    BY <1>2 DEF Worker, Recv, WorkerReturn, CacheGet, CacheAdd, ParseError, Lookup, Add, Finish, workVars
  <2>3. \A e \in done : e.how # "dup" => Fnv[e.ev.payload] \in Twinned'
    BY <2>2 DEF Twinned
  <2>4. \A v \in Workers \ {w} : pc[v] \in {"parse", "add"} => Fnv[cur[v].payload] \in Twinned'
    BY <2>1 DEF Twinned, OthersStay
  <2>5. ASSUME pc[w] \in {"parse", "add"} PROVE Fnv[cur[w].payload] \in Twinned'
    <3>1. ASSUME NEW how \in Outcome \ {"dup"}, NEW rs, Finish(w, how, rs)
          PROVE  Fnv[cur[w].payload] \in Twinned'
      <4> DEFINE d0 == [ev |-> cur[w], how |-> how, rules |-> rs]
      <4>1. d0 \in done' /\ d0.how # "dup" /\ d0.ev = cur[w]
        BY <3>1 DEF Finish
      <4> HIDE DEF d0
      <4> QED BY <4>1 DEF Twinned
    <3>2. ASSUME pc'[w] \in {"parse", "add"}, cur'[w] = cur[w] PROVE Fnv[cur[w].payload] \in Twinned'
      BY <3>2 DEF Twinned
    <3>3. {"bad", "dispatched"} \subseteq Outcome \ {"dup"}
      BY DEF Outcome
    <3>4. CASE ParseError(w)
      BY <3>1, <3>3, <3>4 DEF ParseError
    <3>5. CASE Lookup(w)
      BY <1>0, <3>1, <3>2, <3>3, <3>5 DEF Lookup
    <3>6. ASSUME NEW ok \in BOOLEAN, Add(w, ok) PROVE Fnv[cur[w].payload] \in Twinned'
      BY <2>5, <3>1, <3>2, <3>3, <3>6 DEF Add
    <3> QED BY <1>2, <2>5, <3>2, <3>4, <3>5, <3>6 DEF Worker, Recv, WorkerReturn, CacheGet, CacheAdd
  <2> QED BY <2>3, <2>4, <2>5 DEF Twinned
<1> QED BY <1>1, <1>2, Actors

(* The calls of Seen and the events dropped stay matched.                  *)
LEMMA TwinsNext == TypeInv /\ Twins /\ [Next]_vars => Twins'
<1> SUFFICES ASSUME TypeInv, Twins, [Next]_vars PROVE Twins'
  OBVIOUS
<1>0. /\ TypeOK /\ pc \in [Workers -> Pc] /\ cur \in [Workers -> Event \cup {None}]
      /\ log \in Seq(Return)
  BY DEF TypeInv, TypeOK, Pc, DedupTypeOK
<1>1. \A j \in 1 .. Len(log) : ~log[j].seen => log[j].key \in Twinned'
  BY TwinStays DEF Twins
<1>2. ASSUME UNCHANGED log, \A d \in done' : d.how = "dup" => d \in done PROVE Twins'
  BY <1>1, <1>2 DEF Twins
<1>3. CASE Outside \/ \E rs \in RuleSets : Replace(rs)
  <2>1. UNCHANGED <<log, done>>
    BY <1>3, OutsideStays DEF workVars, Replace, dedupVars
  <2> QED BY <1>2, <2>1
<1>4. ASSUME NEW w \in Workers, Worker(w), ~CacheAdd(w) PROVE Twins'
  <2>1. UNCHANGED log
    BY <1>4 DEF Worker, Recv, SeenBegin, WorkerReturn, CacheGet, SeenGet, ParseError, Lookup, Add, dedupVars
  <2>2. \A d \in done' : d.how = "dup" => d \in done
    BY <1>4 DEF Worker, Recv, WorkerReturn, CacheGet, ParseError, Lookup, Add, Finish, workVars
  <2> QED BY <1>2, <2>1, <2>2
<1>5. ASSUME NEW w \in Workers, CacheAdd(w) PROVE Twins'
  <2> DEFINE r == [key |-> call[w].key, now |-> call[w].now, seen |-> call[w].hit]
             n == Len(log)
  <2>1. log' = Append(log, r) /\ pc[w] = "seen"
    BY <1>5 DEF CacheAdd, SeenAdd
  <2>2. call[w] \in Call /\ call[w].key \in Keys /\ call[w].key = Fnv[cur[w].payload]
    BY <2>1 DEF TypeInv, CallOfWorker, DedupInv, DedupTypeOK, KeyInHand
  <2>3. r \in Return /\ r.key = Fnv[cur[w].payload] /\ r.seen = call[w].hit
    BY <2>2 DEF Call, Return
  <2> HIDE DEF r
  <2>4. /\ n \in Nat /\ Len(log') = n + 1 /\ log'[n + 1] = r
        /\ \A j \in 1 .. n : log'[j] = log[j]
    BY <1>0, <2>1, <2>3
  <2> HIDE DEF n
  <2>5. CASE call[w].hit
    <3> DEFINE d0 == [ev |-> cur[w], how |-> "dup", rules |-> None]
    <3>1. done' = done \cup {d0} /\ d0.ev = cur[w]
      BY <1>5, <2>5 DEF CacheAdd, Finish
    <3> HIDE DEF d0
    <3>2. \A j \in 1 .. Len(log') : ~log'[j].seen => log'[j].key \in Twinned'
      <4> SUFFICES ASSUME NEW j \in 1 .. n + 1, ~log'[j].seen PROVE log'[j].key \in Twinned'
        BY <2>4
      <4>1. j # n + 1
        BY <2>3, <2>4, <2>5
      <4>2. j \in 1 .. n
        BY <2>4, <4>1
      <4> QED BY <1>1, <2>4, <4>2 DEF n
    <3>3. ASSUME NEW d \in done', d.how = "dup"
          PROVE  \E j \in 1 .. Len(log') : log'[j].key = Fnv[d.ev.payload]
      <4>1. CASE d = d0
        <5>1. n + 1 \in 1 .. Len(log')
          BY <2>4
        <5> QED BY <2>3, <2>4, <3>1, <4>1, <5>1
      <4>2. CASE d \in done
        <5>1. PICK j \in 1 .. n : log[j].key = Fnv[d.ev.payload]
          BY <3>3, <4>2 DEF Twins, n
        <5>2. j \in 1 .. Len(log')
          BY <2>4
        <5> QED BY <2>4, <5>1, <5>2
      <4> QED BY <3>1, <4>1, <4>2
    <3> QED BY <3>2, <3>3 DEF Twins
  <2>6. CASE ~call[w].hit
    <3>1. pc' = [pc EXCEPT ![w] = "parse"] /\ UNCHANGED <<cur, done>>
      BY <1>5, <2>6 DEF CacheAdd
    <3>2. r.key \in Twinned'
      BY <1>0, <2>3, <3>1 DEF Twinned
    <3>3. \A j \in 1 .. Len(log') : ~log'[j].seen => log'[j].key \in Twinned'
      <4> SUFFICES ASSUME NEW j \in 1 .. n + 1, ~log'[j].seen PROVE log'[j].key \in Twinned'
        BY <2>4
      <4>1. CASE j = n + 1
        BY <2>4, <3>2, <4>1
      <4>2. CASE j \in 1 .. n
        BY <1>1, <2>4, <4>2 DEF n
      <4> QED BY <2>4, <4>1, <4>2
    <3>4. \A d \in done' : d.how = "dup" => \E j \in 1 .. Len(log') : log'[j].key = Fnv[d.ev.payload]
      <4> SUFFICES ASSUME NEW d \in done, d.how = "dup" PROVE \E j \in 1 .. Len(log') : log'[j].key = Fnv[d.ev.payload]
        BY <3>1
      <4>1. PICK j \in 1 .. n : log[j].key = Fnv[d.ev.payload]
        BY DEF Twins, n
      <4>2. j \in 1 .. Len(log')
        BY <2>4
      <4> QED BY <2>4, <4>1, <4>2
    <3> QED BY <3>3, <3>4 DEF Twins
  <2> QED BY <2>5, <2>6
<1> QED BY <1>3, <1>4, <1>5, Actors

(* No response is lost to deduplication: an event that was dropped has a   *)
(* twin of the same hash that was, or is being, handled.                   *)
THEOREM AlwaysTwin == Safety => []DuplicateHasTwin
<1>1. Init => Twins
  <2> SUFFICES ASSUME Init PROVE Twins
    OBVIOUS
  <2>1. log = <<>> /\ done = {}
    BY DEF Init, DedupInit
  <2> QED BY <2>1 DEF Twins
<1>2. TypeInv /\ Twins => DuplicateHasTwin
  <2> SUFFICES ASSUME TypeInv, Twins, NEW d \in done, d.how = "dup"
               PROVE  Fnv[d.ev.payload] \in Twinned
    BY DEF DuplicateHasTwin, Twinned
  <2>1. PICK j \in 1 .. Len(log) : log[j].key = Fnv[d.ev.payload]
    BY DEF Twins
  <2>2. PICK m \in 1 .. j : log[m].key = log[j].key /\ ~log[m].seen
    BY DEF TypeInv, DedupInv, FirstMissed
  <2>3. m \in 1 .. Len(log)
    <3>1. Len(log) \in Nat
      BY DEF TypeInv, DedupInv, DedupTypeOK
    <3> QED BY <3>1
  <2> QED BY <2>1, <2>2, <2>3 DEF Twins
<1> QED BY <1>1, <1>2, TypeInit, TypeNext, TwinsNext, PTL DEF Safety
=============================================================================
