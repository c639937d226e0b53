------------------------------ MODULE Capture -------------------------------
(***************************************************************************)
(* The life of the daemon around the BPF programs: bpf.New attaches them   *)
(* and opens the ring buffer (internal/bpf/loader.go), Loader.Run reads    *)
(* their records and hands them to the pipeline, and main                  *)
(* (cmd/dns2ipset/main.go) runs until a signal or an error and then        *)
(* undoes, in its deferred calls, what it set up: the metrics server, the  *)
(* context and the loader.                                                 *)
(*                                                                         *)
(* Composed with module Probe: a hook is entered while its link is open.   *)
(* Module Pipeline is about what happens to an event after it is sent.     *)
(***************************************************************************)
EXTENDS Probe

CONSTANTS MaxConns   \* bound on the requests the metrics server serves at once

ASSUME CaptureAssumption == MaxConns \in Nat

VARIABLES
  phase,       \* what main does
  res,         \* what bpf.New opens: the objects, the two links and the reader
  ctxDone,     \* the context is cancelled
  src,         \* Loader.Run: not started, at Read, at the select, or returned
  held,        \* the events Loader.Run holds: none or one
  srcErr,      \* Loader.Run returned an error
  http,        \* the metrics server
  conns,       \* requests it is serving
  status,      \* the exit status
  delivered    \* history: the events sent to the pipeline

srcVars  == <<src, held, srcErr, delivered>>
httpVars == <<http, conns>>
mainVars == <<phase, res, ctxDone, status>>
vars     == <<probeVars, srcVars, httpVars, mainVars>>

Resources == {"objs", "send", "recv", "rd"}
NoStatus  == "none"

Event == [direction : {DIR_SEND, DIR_RECV}, family : {0, 4, 6}, src_port : UInt16,
          dst_port : UInt16, payload : Contents, len : 0 .. MAX_PAYLOAD]

Init ==
  /\ ProbeInit
  /\ phase = "rlimit"
  /\ res = [r \in Resources |-> "none"]
  /\ ctxDone = FALSE /\ status = NoStatus
  /\ src = "none" /\ held = <<>> /\ srcErr = FALSE /\ delivered = <<>>
  /\ http \in {"off", "set"}      \* --metrics-addr
  /\ conns = 0

----------------------------------------------------------------------------
(* bpf.New.                                                                *)

Closed(rs) == [r \in Resources |-> IF r \in rs /\ res[r] = "open" THEN "closed" ELSE res[r]]

\* New returns an error.
NewFails(rs) ==
  /\ phase' = "failed"
  /\ res' = Closed(rs)

\* rlimit.RemoveMemlock
RemoveMemlock(ok) ==
  /\ phase = "rlimit"
  /\ IF ok THEN phase' = "objs" /\ UNCHANGED res ELSE NewFails({})
  /\ UNCHANGED <<probeVars, srcVars, httpVars, ctxDone, status>>

\* Mutant of CloseOnError: the second link stays open without a reader.
CloseOnErrorKeepsRecv(r) ==
  CASE r = "objs" -> {}
    [] r = "send" -> {"objs"}
    [] r = "recv" -> {"send", "objs"}
    [] r = "rd"   -> {"send", "objs"}

\* What New closes when it cannot open a resource.
CloseOnError(r) ==
  CASE r = "objs" -> {}
    [] r = "send" -> {"objs"}
    [] r = "recv" -> {"send", "objs"}
    [] r = "rd"   -> {"send", "recv", "objs"}

Following(r) == CASE r = "objs" -> "send" [] r = "send" -> "recv" [] r = "recv" -> "rd" [] r = "rd" -> "start"

\* LoadBpfObjects, the two AttachTracing, and ringbuf.NewReader.
Open(r, ok) ==
  /\ phase = r
  /\ IF ok THEN phase' = Following(r) /\ res' = [res EXCEPT ![r] = "open"]
     ELSE NewFails(CloseOnError(r))
  /\ UNCHANGED <<probeVars, srcVars, httpVars, ctxDone, status>>

\* log.Error("bpf load"); os.Exit(2)
ExitFailed ==
  /\ phase = "failed"
  /\ phase' = "exited" /\ status' = "2"
  /\ UNCHANGED <<probeVars, srcVars, httpVars, res, ctxDone>>

----------------------------------------------------------------------------
(* The rest of main.                                                       *)

\* NotifyContext, the metrics server if it is wanted (if it cannot listen it
\* is as good as closed), and pl.Run, which starts Loader.Run.
Start(listens) ==
  /\ phase = "start"
  /\ phase' = "running"
  /\ src' = "read"
  /\ http' = IF http = "set" THEN (IF listens THEN "up" ELSE "closed") ELSE http
  /\ UNCHANGED <<probeVars, held, srcErr, delivered, conns, res, ctxDone, status>>

\* SIGTERM or SIGINT.  Before NotifyContext, and after the deferred cancel,
\* it ends the process; in between it cancels the context, once.
Sigterm ==
  /\ phase # "exited"
  /\ IF phase \in {"running", "shutdown", "cancel"}
     THEN ctxDone' = TRUE /\ UNCHANGED <<phase, status>>
     ELSE phase' = "exited" /\ status' = "killed" /\ UNCHANGED ctxDone
  /\ UNCHANGED <<probeVars, srcVars, httpVars, res>>

\* pl.Run returns when the source has returned and the workers have drained
\* (module Pipeline): with an error os.Exit(1), which runs no deferred call.
RunReturns ==
  /\ phase = "running" /\ src = "returned"
  /\ IF srcErr THEN phase' = "exited" /\ status' = "1"
     ELSE phase' = (IF http = "off" THEN "cancel" ELSE "shutdown") /\ UNCHANGED status
  /\ UNCHANGED <<probeVars, srcVars, httpVars, res, ctxDone>>

\* srv.Shutdown(context.Background()): no new request is taken; it returns
\* when the last one has been served, however long that takes.
StopListening ==
  /\ phase = "shutdown" /\ http # "closed"
  /\ http' = "closed"
  /\ UNCHANGED <<probeVars, srcVars, conns, mainVars>>

ShutdownReturns ==
  /\ phase = "shutdown" /\ http = "closed" /\ conns = 0
  /\ phase' = "cancel"
  /\ UNCHANGED <<probeVars, srcVars, httpVars, res, ctxDone, status>>

\* defer cancel()
CancelContext ==
  /\ phase = "cancel"
  /\ ctxDone' = TRUE
  /\ phase' = "closeReader"
  /\ UNCHANGED <<probeVars, srcVars, httpVars, res, status>>

\* Mutant of CloseLoader: the objects go first.
CloseLoaderObjsFirst ==
  /\ \/ phase = "running" /\ ctxDone /\ res' = Closed({"objs"}) /\ UNCHANGED phase
     \/ phase = "closeReader" /\ res' = Closed({"rd"}) /\ phase' = "closeLinks"
     \/ phase = "closeLinks" /\ res' = Closed({"send", "recv"}) /\ phase' = "closeObjs"
     \/ phase = "closeObjs" /\ res' = Closed({"objs"}) /\ phase' = "return"
  /\ UNCHANGED <<probeVars, srcVars, httpVars, ctxDone, status>>

\* defer loader.Close(): the reader, which the goroutine of Loader.Run may be
\* closing too, then the links, then the objects.
CloseLoader ==
  /\ \/ phase = "closeReader" /\ res' = Closed({"rd"}) /\ phase' = "closeLinks"
     \/ phase = "closeLinks" /\ res' = Closed({"send", "recv"}) /\ phase' = "closeObjs"
     \/ phase = "closeObjs" /\ res' = Closed({"objs"}) /\ phase' = "return"
  /\ UNCHANGED <<probeVars, srcVars, httpVars, ctxDone, status>>

MainReturns ==
  /\ phase = "return"
  /\ phase' = "exited" /\ status' = "0"
  /\ UNCHANGED <<probeVars, srcVars, httpVars, res, ctxDone>>

----------------------------------------------------------------------------
(* The metrics server: requests come, and end when the client lets them.   *)

Alive == phase # "exited"

Scrape ==
  /\ Alive /\ http = "up" /\ conns < MaxConns
  /\ conns' = conns + 1
  /\ UNCHANGED <<probeVars, srcVars, http, mainVars>>

Scraped ==
  /\ Alive /\ conns > 0
  /\ conns' = conns - 1
  /\ UNCHANGED <<probeVars, srcVars, http, mainVars>>

----------------------------------------------------------------------------
(* Loader.Run.                                                             *)

SourceStep == Alive /\ UNCHANGED <<buf, call, scratch, calls, output, accepted, httpVars, phase, status>>

\* Mutant of CloseReader: the reader is closed when Run has returned.
CloseReaderLate ==
  /\ src = "returned" /\ ctxDone /\ res["rd"] = "open"
  /\ res' = Closed({"rd"})
  /\ UNCHANGED <<srcVars, ring, ctxDone>>
  /\ SourceStep

\* The goroutine that waits for the context and closes the reader.
CloseReader ==
  /\ src # "none" /\ ctxDone /\ res["rd"] = "open"
  /\ res' = Closed({"rd"})
  /\ UNCHANGED <<srcVars, ring, ctxDone>>
  /\ SourceStep

\* decode: a record whose length is out of bounds is rejected.
Decodes(rec) == rec.payload_len <= MAX_PAYLOAD

Decode(rec) == [direction |-> rec.direction, family |-> rec.family, src_port |-> rec.src_port,
                dst_port |-> rec.dst_port, payload |-> rec.payload, len |-> rec.payload_len]

\* Mutant of Read: the newest record is taken.
ReadNewest ==
  /\ src = "read" /\ res["rd"] = "open" /\ ring # <<>>
  /\ ring' = SubSeq(ring, 1, Len(ring) - 1)
  /\ held' = <<Decode(ring[Len(ring)])>> /\ src' = "send"
  /\ UNCHANGED <<srcErr, delivered, res, ctxDone>>
  /\ SourceStep

\* Read returns the oldest record.
Read ==
  /\ src = "read" /\ res["rd"] = "open" /\ ring # <<>>
  /\ ring' = Tail(ring)
  /\ IF Decodes(Head(ring)) THEN held' = <<Decode(Head(ring))>> /\ src' = "send"
     ELSE UNCHANGED <<held, src>>
  /\ UNCHANGED <<srcErr, delivered, res, ctxDone>>
  /\ SourceStep

\* Read fails: with ErrClosed on a closed reader, or fatally.
ReadError(fatal) ==
  /\ src = "read" /\ (fatal \/ res["rd"] = "closed")
  /\ src' = "returned" /\ srcErr' = fatal
  /\ UNCHANGED <<held, delivered, ring, res, ctxDone>>
  /\ SourceStep

\* Mutant of SendEvent: the event is dropped when the channel is full.
SendEventOrDrop ==
  /\ src = "send"
  /\ delivered' \in {delivered, delivered \o held}
  /\ held' = <<>>
  /\ src' = "read"
  /\ UNCHANGED <<srcErr, ring, res, ctxDone>>
  /\ SourceStep

SendEvent ==
  /\ src = "send"
  /\ delivered' = delivered \o held
  /\ held' = <<>>
  /\ src' = "read"
  /\ UNCHANGED <<srcErr, ring, res, ctxDone>>
  /\ SourceStep

\* case <-ctx.Done(): the event in hand is dropped (held keeps it as history).
AbandonEvent ==
  /\ src = "send" /\ ctxDone
  /\ src' = "returned"
  /\ UNCHANGED <<held, srcErr, delivered, ring, res, ctxDone>>
  /\ SourceStep

----------------------------------------------------------------------------

Attached(r) == res[r] = "open"

\* The model is of the daemon's life: what the kernel does after it is left out.
Kernel ==
  /\ Alive
  /\ \/ \E c \in CPUs, t \in Tasks, sk \in Sockets, d \in Datagrams :
          Attached("send") /\ Sendmsg(c, t, sk, d)
     \/ \E c \in CPUs, t \in Tasks, sk \in Sockets : Attached("recv") /\ Recvmsg(c, t, sk)
     \/ \E t \in Tasks, d \in Datagrams : Receive(t, d)
     \/ \E t \in Tasks : Hook(t)
  /\ UNCHANGED <<srcVars, httpVars, mainVars>>

Startup ==
  \/ \E ok \in BOOLEAN : RemoveMemlock(ok)
  \/ \E r \in Resources, ok \in BOOLEAN : Open(r, ok)
  \/ ExitFailed
  \/ \E listens \in BOOLEAN : Start(listens)

Stop ==
  \/ RunReturns
  \/ StopListening
  \/ ShutdownReturns
  \/ CancelContext
  \/ CloseLoader
  \/ MainReturns

Source ==
  \/ Read
  \/ \E fatal \in BOOLEAN : ReadError(fatal)
  \/ SendEvent
  \/ AbandonEvent

Terminated == phase = "exited" /\ UNCHANGED vars

Next ==
  \/ Kernel
  \/ Startup
  \/ Stop
  \/ Sigterm
  \/ Scrape
  \/ Scraped
  \/ CloseReader
  \/ Source
  \/ Terminated

\* main and the goroutines of Loader.Run are scheduled, and the workers make
\* room in the channel.  Nothing obliges a client of the metrics server to
\* finish, or anybody to send a signal.
Fairness ==
  /\ WF_vars(Startup) /\ WF_vars(Stop)
  /\ WF_vars(CloseReader)
  /\ WF_vars(Read) /\ WF_vars(ReadError(FALSE))
  /\ WF_vars(SendEvent \/ AbandonEvent)

Safety == Init /\ [][Next]_vars

Spec == Safety /\ Fairness

----------------------------------------------------------------------------
(* Type invariant.                                                         *)
TypeOK ==
  /\ ProbeTypeOK
  /\ phase \in {"rlimit", "objs", "send", "recv", "rd", "failed", "start", "running", "shutdown",
                "cancel", "closeReader", "closeLinks", "closeObjs", "return", "exited"}
  /\ res \in [Resources -> {"none", "open", "closed"}]
  /\ ctxDone \in BOOLEAN
  /\ status \in {NoStatus, "0", "1", "2", "killed"}
  /\ src \in {"none", "read", "send", "returned"}
  /\ held \in Seq(Event) /\ Len(held) <= 1 /\ (src = "send" => Len(held) = 1)
  /\ srcErr \in BOOLEAN
  /\ delivered \in Seq(Event)
  /\ http \in {"off", "set", "up", "closed"}
  /\ conns \in 0 .. MaxConns

\* Records as events.
Events(records) == [i \in DOMAIN records |-> Decode(records[i])]

(* Whatever the CPUs did and whenever the reader was opened, the pipeline  *)
(* gets the records that found room in the ring buffer once each and in    *)
(* their order; what a shutdown leaves behind is at the end: at most one   *)
(* event in hand and what is still in the ring buffer.                     *)
DeliveredInOrder == Events(accepted) = delivered \o held \o Events(ring)

(* bpf.New is all or nothing: when it returns an error, no program is      *)
(* attached and nothing is left open, whichever step failed.               *)
NewAllOrNothing == phase = "failed" => \A r \in Resources : res[r] # "open"

(* The loader is closed under nobody's feet: the links and the objects are *)
(* closed only when Loader.Run has returned, also when a signal, the       *)
(* goroutine that closes the reader and the deferred calls coincide; and a *)
(* process that exits with status 0 has closed all it opened.              *)
ClosedAfterUse ==
  /\ src \in {"read", "send"} => \A r \in Resources \ {"rd"} : res[r] = "open"
  /\ status = "0" => src = "returned" /\ \A r \in Resources : res[r] = "closed"

(* ARCHITECTURE.md, "SIGTERM -> graceful drain": a signal to a running     *)
(* daemon ends it, unless a client of the metrics server is being served:  *)
(* srv.Shutdown waits for it without a limit.                              *)
SignalStops == ctxDone ~> phase = "exited" \/ conns > 0

(* A record in the ring buffer of a running daemon is eventually handed to *)
(* the pipeline, the ones captured before the reader was opened too,       *)
(* unless the daemon is stopped or Read fails.                             *)
EventuallyDelivered ==
  \A n \in 1 .. MaxCalls :
    Len(accepted) >= n ~> Len(delivered) >= n \/ ctxDone \/ srcErr \/ phase \in {"failed", "exited"}

(* ARCHITECTURE.md:116, "uncached upstream replies appear on udp_recvmsg": *)
(* the record of a call of udp_recvmsg holds the datagram that the call    *)
(* received.                                                               *)
ReplyCaptured ==
  [][\A t \in Tasks :
       /\ call[t].pc = "recv" /\ call'[t].pc = "user"
       /\ call[t].out # 0 /\ output[call[t].out].peers = {}
       => output[call[t].out].rec.payload = buf'[t]]_vars
=============================================================================
