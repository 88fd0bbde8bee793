------------------------------ MODULE EventStream ------------------------------
(***************************************************************************)
(* The progress events of one run on their way to the screen:              *)
(* PipelineEventBus (platform/layer6_sdk/blueprint_runner.py) retains what *)
(* the run publishes and streams it to every subscriber, first the         *)
(* retained events, then a queue registered when the stream began; an      *)
(* EventSource of the browser (ui/src/hooks/usePipelineEvents.ts) feeds    *)
(* them to the store of the page (usePipelineStore.ts), reconnecting when  *)
(* the connection drops.                                                   *)
(***************************************************************************)
EXTENDS Integers, Sequences, FiniteSets

CONSTANTS
  Layers,     \* the layers of the run, in order
  Client,     \* browser tabs
  MaxVisits,  \* bound on how often a tab opens a view of the run
  MaxDrops    \* bound on lost connections

Entries(list) == {list[i] : i \in DOMAIN list}
Layer == Entries(Layers)

ASSUME StreamAssumption ==
  /\ Layers \in Seq(Layer) \ {<<>>}
  /\ \A i, j \in DOMAIN Layers : Layers[i] = Layers[j] => i = j
  /\ MaxVisits \in Nat
  /\ MaxDrops \in Nat

Event(type, layer) == [type |-> type, layer |-> layer]
Done == Event("pipeline_done", "all")

VARIABLES
  log,     \* the retained events of the trace
  stream,  \* stream[c]: the server side of c's connection
  pos,     \* pos[c]: index of the retained event it replays next
  queue,   \* queue[c]: events published since it began
  wire,    \* wire[c]: events sent and not yet handled by the page
  source,  \* source[c]: the EventSource of the page
  mounted, \* mounted[c]: a view of the run is open
  status,  \* status[c]: layerStates of the store, by layer
  shown,   \* shown[c]: eventLog of the store
  isComplete,
  visits,  \* visits[c]: views opened so far
  drops    \* connections lost so far

server == <<stream, pos, queue>>
page == <<status, shown, isComplete>>
vars == <<log, server, wire, source, mounted, page, visits, drops>>

Init ==
  /\ log = <<>>
  /\ stream = [c \in Client |-> "none"]
  /\ pos = [c \in Client |-> 1]
  /\ queue = [c \in Client |-> <<>>]
  /\ wire = [c \in Client |-> <<>>]
  /\ source = [c \in Client |-> "closed"]
  /\ mounted = [c \in Client |-> FALSE]
  /\ status = [c \in Client |-> [l \in Layer |-> "idle"]]
  /\ shown = [c \in Client |-> <<>>]
  /\ isComplete = [c \in Client |-> FALSE]
  /\ visits = [c \in Client |-> 0]
  /\ drops = 0

-----------------------------------------------------------------------------
(* The run.                                                                *)

Started(i) == Event("layer_started", Layers[i])
Completed(i) == Event("layer_completed", Layers[i])
Failed(i) == Event("layer_error", Layers[i])

\* What run() and _run_layer publish next: a layer starts, then completes or
\* fails; a failure ends the run without a pipeline_done.
Upcoming ==
  IF log = <<>> THEN {Started(1)}
  ELSE UNION {CASE log[Len(log)] = Started(i) -> {Completed(i), Failed(i)}
                [] log[Len(log)] = Completed(i) ->
                     {IF i < Len(Layers) THEN Started(i + 1) ELSE Done}
                [] OTHER -> {} : i \in DOMAIN Layers}

Registered(c) == stream[c] \in {"replay", "live"}

\* The event is retained and put in every registered queue in one step: the
\* queues are unbounded, so no put() suspends.
Publish(e) ==
  /\ log' = Append(log, e)
  /\ queue' = [c \in Client |-> IF Registered(c) THEN Append(queue[c], e) ELSE queue[c]]
  /\ UNCHANGED <<stream, pos, wire, source, mounted, page, visits, drops>>

-----------------------------------------------------------------------------
(* The server side of a connection.                                        *)

FirstStageLive == "live"   \* faulty variant: nothing is replayed

\* With retained events the stream replays them; without any it waits at once.
FirstStage == IF log = <<>> THEN "live" ELSE "replay"

\* The connection is made: the queue is registered, then the replay begins.
Accept(c) ==
  /\ source[c] = "connecting"
  /\ source' = [source EXCEPT ![c] = "open"]
  /\ stream' = [stream EXCEPT ![c] = FirstStage]
  /\ pos' = [pos EXCEPT ![c] = 1]
  /\ queue' = [queue EXCEPT ![c] = <<>>]
  /\ UNCHANGED <<log, wire, mounted, page, visits, drops>>

\* An event is yielded; pipeline_done is the last one.
Send(c, e) ==
  /\ wire' = [wire EXCEPT ![c] = Append(@, e)]
  /\ stream' = IF e = Done THEN [stream EXCEPT ![c] = "ended"] ELSE stream

PosAfter(c) == [pos EXCEPT ![c] = @ + 1]

\* The loop over the retained list, which grows while it runs.
Replay(c) ==
  /\ stream[c] = "replay"
  /\ pos[c] <= Len(log)
  /\ Send(c, log[pos[c]])
  /\ pos' = PosAfter(c)
  /\ UNCHANGED <<log, queue, source, mounted, page, visits, drops>>

\* The replay reaches the end of the list.  The queue still holds what was
\* published meanwhile, so those events are sent again.
CatchUp(c) ==
  /\ stream[c] = "replay"
  /\ pos[c] > Len(log)
  /\ stream' = [stream EXCEPT ![c] = "live"]
  /\ UNCHANGED <<log, pos, queue, wire, source, mounted, page, visits, drops>>

Forward(c) ==
  /\ stream[c] = "live"
  /\ queue[c] # <<>>
  /\ Send(c, Head(queue[c]))
  /\ queue' = [queue EXCEPT ![c] = Tail(@)]
  /\ UNCHANGED <<log, pos, source, mounted, page, visits, drops>>

-----------------------------------------------------------------------------
(* The page.                                                               *)

\* The connection is gone: the generator of the server is closed, what was on
\* the wire is lost.
Disconnected(c) ==
  /\ stream' = [stream EXCEPT ![c] = "none"]
  /\ queue' = [queue EXCEPT ![c] = <<>>]
  /\ wire' = [wire EXCEPT ![c] = <<>>]
  /\ UNCHANGED pos

StatusAfter(e) ==
  CASE e.type = "layer_started"   -> "active"
    [] e.type = "layer_completed" -> "complete"
    [] OTHER                      -> "error"

AppendAlways(c, e) == [shown EXCEPT ![c] = Append(@, e)]   \* faulty variant: no dedupe

\* appendEventLog: an entry whose id is in the log is dropped.  The id names
\* the trace, the type and the layer: within a run, the event.
AppendEventLog(c, e) ==
  IF e \in Entries(shown[c]) THEN shown ELSE [shown EXCEPT ![c] = Append(@, e)]

\* source.close(), without which the browser would reconnect when the server
\* ends the response.
SourceClosed(c) ==
  /\ source' = [source EXCEPT ![c] = "closed"]
  /\ Disconnected(c)

\* The listeners of usePipelineEvents.
Handle(c) ==
  LET e == Head(wire[c]) IN
  /\ source[c] = "open"
  /\ wire[c] # <<>>
  /\ shown' = AppendEventLog(c, e)
  /\ \/ /\ e = Done
        /\ isComplete' = [isComplete EXCEPT ![c] = TRUE]
        /\ SourceClosed(c)
        /\ UNCHANGED status
     \/ /\ e # Done
        /\ status' = [status EXCEPT ![c][e.layer] = StatusAfter(e)]
        /\ wire' = [wire EXCEPT ![c] = Tail(@)]
        /\ UNCHANGED <<isComplete, server, source>>
  /\ UNCHANGED <<log, mounted, visits, drops>>

\* A view of the run is opened.  The store outlives the views.
Mount(c) ==
  /\ ~mounted[c]
  /\ visits[c] < MaxVisits
  /\ mounted' = [mounted EXCEPT ![c] = TRUE]
  /\ source' = [source EXCEPT ![c] = "connecting"]
  /\ visits' = [visits EXCEPT ![c] = @ + 1]
  /\ UNCHANGED <<log, server, wire, page, drops>>

Unmount(c) ==
  /\ mounted[c]
  /\ mounted' = [mounted EXCEPT ![c] = FALSE]
  /\ SourceClosed(c)
  /\ UNCHANGED <<log, page, visits, drops>>

\* A lost connection; the EventSource reconnects by itself.
Drop(c) ==
  /\ source[c] = "open"
  /\ drops < MaxDrops
  /\ drops' = drops + 1
  /\ source' = [source EXCEPT ![c] = "connecting"]
  /\ Disconnected(c)
  /\ UNCHANGED <<log, mounted, page, visits>>

-----------------------------------------------------------------------------
Serve(c) == Accept(c) \/ Replay(c) \/ CatchUp(c) \/ Forward(c)

Next ==
  \/ \E e \in Upcoming : Publish(e)
  \/ \E c \in Client : Serve(c) \/ Handle(c) \/ Mount(c) \/ Unmount(c) \/ Drop(c)

Spec == Init /\ [][Next]_vars

\* The run goes on or fails, the event loop resumes every generator, the
\* browser handles what arrives; views and lost connections are not scheduled.
Fairness ==
  /\ WF_vars(\E e \in Upcoming : Publish(e))
  /\ \A c \in Client : WF_vars(Serve(c)) /\ WF_vars(Handle(c))

FairSpec == Spec /\ Fairness

-----------------------------------------------------------------------------
(* Properties.                                                             *)

Events == {Done} \cup {Event(t, l) : t \in {"layer_started", "layer_completed", "layer_error"},
                                     l \in Layer}

\* Types, with the range of the replay index.
TypeOK ==
  /\ log \in Seq(Events)
  /\ stream \in [Client -> {"none", "replay", "live", "ended"}]
  /\ pos \in [Client -> Nat]
  /\ \A c \in Client : pos[c] \in 1..(Len(log) + 1)
  /\ queue \in [Client -> Seq(Events)]
  /\ wire \in [Client -> Seq(Events)]
  /\ source \in [Client -> {"closed", "connecting", "open"}]
  /\ mounted \in [Client -> BOOLEAN]
  /\ status \in [Client -> [Layer -> {"idle", "active", "complete", "error"}]]
  /\ shown \in [Client -> Seq(Events)]
  /\ isComplete \in [Client -> BOOLEAN]
  /\ visits \in [Client -> 0..MaxVisits]
  /\ drops \in 0..MaxDrops

\* The execution log a page shows is always an initial part of what the run
\* published, in its order and without repetition, whatever is replayed, sent
\* twice or lost on the way (usePipelineStore.ts:103-109).
ShownIsPrefix ==
  \A c \in Client :
    /\ Len(shown[c]) <= Len(log) /\ shown[c] = SubSeq(log, 1, Len(shown[c]))
    /\ isComplete[c] => shown[c] = log /\ log[Len(log)] = Done

Ahead(c) == IF stream[c] = "replay" THEN {log[i] : i \in pos[c]..Len(log)} ELSE {}

\* No event is lost to a page with an open stream, at whatever moment of the
\* run it connected: it is shown, on the wire, queued or ahead of the replay
\* (blueprint_runner.py:103-118 registers the queue before it replays).
NothingLost ==
  \A c \in Client : source[c] = "open" =>
    Entries(log) \subseteq
      Entries(shown[c]) \cup Entries(wire[c]) \cup Entries(queue[c]) \cup Ahead(c)

\* The status the log of a run gives to a layer: that of its last event.
StatusInLog(l) ==
  LET of_layer == {i \in DOMAIN log : log[i].layer = l}
  IN  IF of_layer = {} THEN "idle"
      ELSE StatusAfter(log[CHOOSE i \in of_layer : \A j \in of_layer : j <= i])

Settled(c) ==
  /\ Upcoming = {}
  /\ shown[c] = log
  /\ status[c] = [l \in Layer |-> StatusInLog(l)]
  /\ isComplete[c] <=> Done \in Entries(log)

\* A view that stays open ends up, for good, with the whole log of the run and
\* with the status each layer ended in - of a failed run too, whose stream the
\* server never ends.  Duplicates and replays change statuses only for a while.
ViewSettles == \A c \in Client : <>[]mounted[c] => <>[]Settled(c)
=============================================================================
