--------------------------- MODULE EventStreamProofs ---------------------------
(***************************************************************************)
(* What holds of EventStream for a run of any layers, for any number of    *)
(* browser tabs, views and lost connections.                               *)
(***************************************************************************)
EXTENDS EventStream, SequenceTheorems, TLAPS

\* The log of a run is its layers in order, started and completed; a failure ends
\* it, and so does pipeline_done after the last layer.
LogShape ==
  \A j \in DOMAIN log :
    \/ \E i \in DOMAIN Layers : j = 2 * i - 1 /\ log[j] = Started(i)
    \/ \E i \in DOMAIN Layers : j = 2 * i /\ log[j] = Completed(i)
    \/ \E i \in DOMAIN Layers : j = 2 * i /\ log[j] = Failed(i) /\ j = Len(log)
    \/ j = 2 * Len(Layers) + 1 /\ log[j] = Done /\ j = Len(log)

\* What a page was told: it is shown, or it is on the wire.
Told(c) == Entries(shown[c]) \cup Entries(wire[c])

\* The page shows an initial part of the log, and all of a log that is complete.
PageInOrder(c) ==
  /\ Len(shown[c]) <= Len(log)
  /\ \A i \in 1..Len(shown[c]) : shown[c][i] = log[i]
  /\ isComplete[c] =>
       Len(shown[c]) = Len(log) /\ log # <<>> /\ log[Len(log)] = Done

\* An event on the wire comes after every earlier event of the log.
WireInOrder(c) ==
  \A j \in DOMAIN wire[c] : \E k \in DOMAIN log :
    /\ wire[c][j] = log[k]
    /\ \A i \in 1..(k - 1) :
         log[i] \in Entries(shown[c]) \cup {wire[c][before] : before \in 1..(j - 1)}

\* A registered queue holds the latest events of the log.
QueueIsSuffix(c) ==
  Registered(c) =>
    /\ Len(queue[c]) <= Len(log)
    /\ \A j \in 1..Len(queue[c]) : queue[c][j] = log[Len(log) - Len(queue[c]) + j]

\* How much of the log a stream has told its page.
SentSoFar(c) ==
  /\ stream[c] = "replay" => \A i \in 1..(pos[c] - 1) : log[i] \in Told(c)
  /\ stream[c] = "live" => \A i \in 1..(Len(log) - Len(queue[c])) : log[i] \in Told(c)
  /\ stream[c] = "ended" =>
       log # <<>> /\ log[Len(log)] = Done /\ \A i \in DOMAIN log : log[i] \in Told(c)

\* Only an open connection has a stream, or anything on the wire.
Connected(c) ==
  /\ source[c] = "open" <=> stream[c] # "none"
  /\ source[c] # "open" => wire[c] = <<>>
  /\ ~mounted[c] => source[c] = "closed"

ClientInv(c) ==
  PageInOrder(c) /\ WireInOrder(c) /\ QueueIsSuffix(c) /\ SentSoFar(c) /\ Connected(c)

\* The inductive invariant.
StreamInv == TypeOK /\ LogShape /\ \A c \in Client : ClientInv(c)

-----------------------------------------------------------------------------
(* The log.                                                                *)

LEMMA LayersAreOrdered ==
  /\ Len(Layers) \in Nat /\ Len(Layers) > 0
  /\ DOMAIN Layers = 1..Len(Layers)
  /\ \A i \in DOMAIN Layers : Layers[i] \in Layer
  /\ \A i, j \in DOMAIN Layers : Layers[i] = Layers[j] => i = j
  <1>1. Layers \in Seq(Layer) /\ Layers # <<>>
    BY StreamAssumption
  <1>2. \A i \in DOMAIN Layers : Layers[i] \in Layer
    BY DEF Layer, Entries
  <1> HIDE DEF Layer
  <1>3. Len(Layers) \in Nat /\ DOMAIN Layers = 1..Len(Layers) /\ Len(Layers) > 0
    BY <1>1
  <1> QED
    BY <1>2, <1>3, StreamAssumption

\* Events are told apart by their type and their layer.
LEMMA EventsDiffer ==
  /\ \A t, u, l, m : Event(t, l) = Event(u, m) <=> t = u /\ l = m
  /\ \A i, j \in DOMAIN Layers :
       /\ Started(i) = Started(j) => i = j
       /\ Completed(i) = Completed(j) => i = j
       /\ Failed(i) = Failed(j) => i = j
       /\ Started(i) # Completed(j) /\ Started(i) # Failed(j) /\ Completed(i) # Failed(j)
       /\ Done \notin {Started(i), Completed(i), Failed(i)}
  <1>1. \A t, u, l, m : Event(t, l) = Event(u, m) <=> t = u /\ l = m
    <2> SUFFICES ASSUME NEW t, NEW u, NEW l, NEW m, Event(t, l) = Event(u, m)
                 PROVE  t = u /\ l = m
      OBVIOUS
    <2>1. Event(t, l).type = t /\ Event(u, m).type = u
      BY DEF Event
    <2>2. Event(t, l).layer = l /\ Event(u, m).layer = m
      BY DEF Event
    <2> QED
      BY <2>1, <2>2
  <1> QED
    BY <1>1, LayersAreOrdered DEF Started, Completed, Failed, Done

\* They are events.
LEMMA EventsAreTyped ==
  /\ Done \in Events
  /\ \A i \in DOMAIN Layers : {Started(i), Completed(i), Failed(i)} \subseteq Events
  /\ \A e \in Events : e # Done => e.layer \in Layer
  /\ \A e \in Events : StatusAfter(e) \in {"active", "complete", "error"}
  <1>1. Done \in Events
    BY DEF Events
  <1>2. \A i \in DOMAIN Layers : {Started(i), Completed(i), Failed(i)} \subseteq Events
    BY LayersAreOrdered DEF Events, Started, Completed, Failed
  <1>3. ASSUME NEW e \in Events, e # Done
        PROVE  e.layer \in Layer
    BY <1>3 DEF Events, Event
  <1>4. \A e \in Events : StatusAfter(e) \in {"active", "complete", "error"}
    BY DEF StatusAfter
  <1> QED
    BY <1>1, <1>2, <1>3, <1>4

LEMMA LogIsList ==
  ASSUME TypeOK
  PROVE  /\ DOMAIN log = 1..Len(log) /\ Len(log) \in Nat
         /\ log = <<>> <=> Len(log) = 0
  <1>1. log \in Seq(Events)
    BY DEF TypeOK
  <1> QED
    BY <1>1

\* No event is published twice, and nothing follows pipeline_done.
LEMMA LogHasNoRepetition ==
  ASSUME TypeOK, LogShape
  PROVE  /\ \A i, j \in DOMAIN log : log[i] = log[j] => i = j
         /\ \A i \in DOMAIN log : log[i] = Done => i = Len(log)
  <1>1. ASSUME NEW i \in DOMAIN log, NEW j \in DOMAIN log, log[i] = log[j]
        PROVE  i = j
    <2>1. i \in Nat /\ j \in Nat
      BY LogIsList
    <2>2. CASE \E k \in DOMAIN Layers : i = 2 * k - 1 /\ log[i] = Started(k)
      <3>1. PICK k \in DOMAIN Layers : i = 2 * k - 1 /\ log[i] = Started(k)
        BY <2>2
      <3>2. \E m \in DOMAIN Layers : j = 2 * m - 1 /\ log[j] = Started(m)
        BY <1>1, <3>1, EventsDiffer DEF LogShape
      <3> QED
        BY <1>1, <3>1, <3>2, EventsDiffer
    <2>3. CASE \E k \in DOMAIN Layers : i = 2 * k /\ log[i] = Completed(k)
      <3>1. PICK k \in DOMAIN Layers : i = 2 * k /\ log[i] = Completed(k)
        BY <2>3
      <3>2. \E m \in DOMAIN Layers : j = 2 * m /\ log[j] = Completed(m)
        BY <1>1, <3>1, EventsDiffer DEF LogShape
      <3> QED
        BY <1>1, <3>1, <3>2, EventsDiffer
    <2>4. CASE \E k \in DOMAIN Layers : i = 2 * k /\ log[i] = Failed(k) /\ i = Len(log)
      <3>1. PICK k \in DOMAIN Layers : log[i] = Failed(k) /\ i = Len(log)
        BY <2>4
      <3>2. log[j] # Done /\ \A m \in DOMAIN Layers : log[j] # Started(m) /\ log[j] # Completed(m)
        BY <1>1, <3>1, EventsDiffer
      <3>3. j = Len(log)
        BY <3>2 DEF LogShape
      <3> QED
        BY <3>1, <3>3
    <2>5. CASE i = 2 * Len(Layers) + 1 /\ log[i] = Done /\ i = Len(log)
      <3>1. j = Len(log)
        BY <1>1, <2>5, EventsDiffer DEF LogShape
      <3> QED
        BY <2>5, <3>1
    <2> QED
      BY <2>2, <2>3, <2>4, <2>5 DEF LogShape
  <1>2. ASSUME NEW i \in DOMAIN log, log[i] = Done
        PROVE  i = Len(log)
    BY <1>2, EventsDiffer DEF LogShape
  <1> QED
    BY <1>1, <1>2

\* What may be published next, and after what.
LEMMA NextEvent ==
  ASSUME TypeOK, LogShape, NEW e \in Upcoming
  PROVE  \/ log = <<>> /\ e = Started(1)
         \/ \E i \in DOMAIN Layers :
              /\ Len(log) = 2 * i - 1 /\ log # <<>> /\ log[Len(log)] = Started(i)
              /\ e \in {Completed(i), Failed(i)}
         \/ \E i \in DOMAIN Layers :
              /\ Len(log) = 2 * i /\ log # <<>> /\ log[Len(log)] = Completed(i)
              /\ e = IF i < Len(Layers) THEN Started(i + 1) ELSE Done
  <1>1. CASE log = <<>>
    BY <1>1 DEF Upcoming
  <1>2. CASE log # <<>>
    <2> DEFINE last == log[Len(log)]
    <2>1. PICK i \in DOMAIN Layers :
            e \in CASE last = Started(i) -> {Completed(i), Failed(i)}
                    [] last = Completed(i) ->
                         {IF i < Len(Layers) THEN Started(i + 1) ELSE Done}
                    [] OTHER -> {}
      BY <1>2 DEF Upcoming
    <2>2. Len(log) \in DOMAIN log
      BY <1>2, LogIsList
    <2>3. i \in Nat
      BY LayersAreOrdered
    <2>4. CASE last = Started(i)
      <3>1. \E k \in DOMAIN Layers : Len(log) = 2 * k - 1 /\ last = Started(k)
        BY <2>2, <2>4, EventsDiffer DEF LogShape
      <3>2. Len(log) = 2 * i - 1
        BY <2>4, <3>1, EventsDiffer
      <3>3. e \in {Completed(i), Failed(i)}
        BY <2>1, <2>4, EventsDiffer
      <3> QED
        BY <1>2, <2>4, <3>2, <3>3
    <2>5. CASE last = Completed(i)
      <3>1. \E k \in DOMAIN Layers : Len(log) = 2 * k /\ last = Completed(k)
        BY <2>2, <2>5, EventsDiffer DEF LogShape
      <3>2. Len(log) = 2 * i
        BY <2>5, <3>1, EventsDiffer
      <3>3. last # Started(i)
        BY <2>5, EventsDiffer
      <3>4. e = IF i < Len(Layers) THEN Started(i + 1) ELSE Done
        BY <2>1, <2>5, <3>3
      <3> QED
        BY <1>2, <2>5, <3>2, <3>4
    <2>6. last = Started(i) \/ last = Completed(i)
      BY <2>1
    <2> QED
      BY <2>4, <2>5, <2>6
  <1> QED
    BY <1>1, <1>2

\* Whoever publishes, the log goes on, an event longer, after no end of a run.
LEMMA PublishKeepsLog ==
  ASSUME TypeOK, LogShape, NEW e \in Upcoming, log' = Append(log, e)
  PROVE  /\ LogShape'
         /\ e \in Events
         /\ log' \in Seq(Events)
         /\ Len(log') = Len(log) + 1 /\ DOMAIN log' = 1..(Len(log) + 1)
         /\ \A j \in 1..Len(log) : log'[j] = log[j]
         /\ log'[Len(log) + 1] = e
         /\ log = <<>> \/ log[Len(log)] # Done
  <1>1. e \in Events
    <2>1. \A i \in DOMAIN Layers : i < Len(Layers) => i + 1 \in DOMAIN Layers
      BY LayersAreOrdered
    <2>2. 1 \in DOMAIN Layers
      BY LayersAreOrdered
    <2> QED
      BY <2>1, <2>2, NextEvent, EventsAreTyped
  <1>2. /\ log' \in Seq(Events)
        /\ Len(log') = Len(log) + 1 /\ DOMAIN log' = 1..(Len(log) + 1)
        /\ \A j \in 1..Len(log) : log'[j] = log[j]
        /\ log'[Len(log) + 1] = e
    BY <1>1, AppendProperties DEF TypeOK
  <1>3. log = <<>> \/ log[Len(log)] # Done
    BY NextEvent, EventsDiffer
  <1>4. ASSUME NEW j \in 1..Len(log)
        PROVE  \/ \E i \in DOMAIN Layers : j = 2 * i - 1 /\ log'[j] = Started(i)
               \/ \E i \in DOMAIN Layers : j = 2 * i /\ log'[j] = Completed(i)
    <2>1. j \in DOMAIN log /\ log'[j] = log[j]
      BY <1>2, LogIsList
    <2>2. j = Len(log) => \A i \in DOMAIN Layers : log[j] # Failed(i) /\ log[j] # Done
      BY NextEvent, EventsDiffer
    <2>3. \/ \E i \in DOMAIN Layers : j = 2 * i - 1 /\ log[j] = Started(i)
          \/ \E i \in DOMAIN Layers : j = 2 * i /\ log[j] = Completed(i)
          \/ \E i \in DOMAIN Layers : log[j] = Failed(i) /\ j = Len(log)
          \/ log[j] = Done /\ j = Len(log)
      BY <2>1 DEF LogShape
    <2>4. \/ \E i \in DOMAIN Layers : j = 2 * i - 1 /\ log[j] = Started(i)
          \/ \E i \in DOMAIN Layers : j = 2 * i /\ log[j] = Completed(i)
      BY <2>2, <2>3, LayersAreOrdered
    <2> QED
      BY <2>1, <2>4
  <1> DEFINE n == Len(log) + 1
  <1>5. \/ \E i \in DOMAIN Layers : n = 2 * i - 1 /\ e = Started(i)
        \/ \E i \in DOMAIN Layers : n = 2 * i /\ e \in {Completed(i), Failed(i)}
        \/ n = 2 * Len(Layers) + 1 /\ e = Done
    <2>1. CASE log = <<>> /\ e = Started(1)
      <3>1. 1 \in DOMAIN Layers /\ n = 2 * 1 - 1
        BY <2>1, LayersAreOrdered
      <3> QED
        BY <2>1, <3>1
    <2>2. ASSUME NEW i \in DOMAIN Layers, Len(log) = 2 * i - 1, e \in {Completed(i), Failed(i)}
          PROVE  n = 2 * i /\ e \in {Completed(i), Failed(i)}
      BY <2>2, LayersAreOrdered
    <2>3. ASSUME NEW i \in DOMAIN Layers, Len(log) = 2 * i,
                 e = IF i < Len(Layers) THEN Started(i + 1) ELSE Done
          PROVE  \/ \E k \in DOMAIN Layers : n = 2 * k - 1 /\ e = Started(k)
                 \/ n = 2 * Len(Layers) + 1 /\ e = Done
      <3>1. CASE i < Len(Layers)
        <4>1. i \in 1..Len(Layers) /\ Len(Layers) \in Nat
          BY LayersAreOrdered
        <4>2. i + 1 \in 1..Len(Layers) /\ n = 2 * (i + 1) - 1
          BY <2>3, <3>1, <4>1
        <4> QED
          BY <2>3, <3>1, <4>2, LayersAreOrdered
      <3>2. CASE ~(i < Len(Layers))
        <4>1. i = Len(Layers)
          BY <3>2, LayersAreOrdered
        <4> QED
          BY <2>3, <3>2, <4>1
      <3> QED
        BY <3>1, <3>2
    <2> QED
      BY <2>1, <2>2, <2>3, NextEvent
  <1>6. n = Len(log') /\ log'[n] = e /\ DOMAIN log' = 1..Len(log) \cup {n}
    BY <1>2, LogIsList
  <1> HIDE DEF n
  <1>7. LogShape'
    <2> SUFFICES ASSUME NEW j \in DOMAIN log'
                 PROVE  \/ \E i \in DOMAIN Layers : j = 2 * i - 1 /\ log'[j] = Started(i)
                        \/ \E i \in DOMAIN Layers : j = 2 * i /\ log'[j] = Completed(i)
                        \/ \E i \in DOMAIN Layers :
                             j = 2 * i /\ log'[j] = Failed(i) /\ j = Len(log')
                        \/ j = 2 * Len(Layers) + 1 /\ log'[j] = Done /\ j = Len(log')
      BY DEF LogShape, Started, Completed, Failed, Done
    <2>1. CASE j \in 1..Len(log)
      BY <1>4, <2>1
    <2>2. CASE j = n
      BY <1>5, <1>6, <2>2
    <2> QED
      BY <1>6, <2>1, <2>2
  <1> QED
    BY <1>1, <1>2, <1>3, <1>7

-----------------------------------------------------------------------------
(* Types.                                                                  *)

\* What one client's variables hold.
LEMMA ClientTypes ==
  ASSUME TypeOK, NEW c \in Client
  PROVE  /\ wire[c] \in Seq(Events) /\ queue[c] \in Seq(Events) /\ shown[c] \in Seq(Events)
         /\ pos[c] \in Nat /\ pos[c] \in 1..(Len(log) + 1)
         /\ stream[c] \in {"none", "replay", "live", "ended"}
         /\ source[c] \in {"closed", "connecting", "open"}
         /\ \A i \in DOMAIN wire[c] : wire[c][i] \in Events
  <1>1. wire[c] \in Seq(Events)
    BY DEF TypeOK
  <1>2. \A i \in DOMAIN wire[c] : wire[c][i] \in Events
    BY <1>1
  <1> QED
    BY <1>2 DEF TypeOK

LEMMA InitStreamTypes == Init => TypeOK
  <1> SUFFICES ASSUME Init PROVE TypeOK
    OBVIOUS
  <1>1. <<>> \in Seq(Events) /\ Len(log) = 0
    BY DEF Init
  <1>2. \A c \in Client : pos[c] \in 1..(Len(log) + 1)
    BY <1>1 DEF Init
  <1> QED
    BY <1>1, <1>2, StreamAssumption DEF Init, TypeOK

LEMMA PublishTypes ==
  ASSUME TypeOK, LogShape, NEW e \in Upcoming, Publish(e)
  PROVE  TypeOK'
  <1>1. log' \in Seq(Events) /\ e \in Events /\ Len(log') = Len(log) + 1
    BY PublishKeepsLog DEF Publish
  <1>2. queue' \in [Client -> Seq(Events)]
    <2>1. \A c \in Client : queue[c] \in Seq(Events) /\ Append(queue[c], e) \in Seq(Events)
      BY <1>1, AppendProperties DEF TypeOK
    <2> QED
      BY <2>1 DEF Publish
  <1>3. \A c \in Client : pos'[c] \in 1..(Len(log') + 1)
    BY <1>1, LogIsList, ClientTypes DEF Publish
  <1> QED
    BY <1>1, <1>2, <1>3 DEF Publish, TypeOK, page

LEMMA AcceptTypes ==
  ASSUME TypeOK, NEW c \in Client, Accept(c)
  PROVE  TypeOK'
  <1>1. \A d \in Client : pos'[d] \in 1..(Len(log') + 1)
    BY LogIsList DEF TypeOK, Accept
  <1>2. <<>> \in Seq(Events)
    OBVIOUS
  <1> QED
    BY <1>1, <1>2 DEF TypeOK, Accept, FirstStage, page

\* An event sent is one more on the wire.
LEMMA SendTypes ==
  ASSUME TypeOK, NEW c \in Client, NEW e \in Events, Send(c, e)
  PROVE  /\ wire' \in [Client -> Seq(Events)]
         /\ stream' \in [Client -> {"none", "replay", "live", "ended"}]
         /\ Len(wire'[c]) = Len(wire[c]) + 1
         /\ \A i \in 1..Len(wire[c]) : wire'[c][i] = wire[c][i]
         /\ wire'[c][Len(wire[c]) + 1] = e
         /\ \A d \in Client \ {c} : wire'[d] = wire[d] /\ stream'[d] = stream[d]
         /\ stream'[c] = IF e = Done THEN "ended" ELSE stream[c]
  <1>1. wire'[c] = Append(wire[c], e) /\ wire[c] \in Seq(Events)
    BY DEF TypeOK, Send
  <1>2. /\ Append(wire[c], e) \in Seq(Events)
        /\ Len(Append(wire[c], e)) = Len(wire[c]) + 1
        /\ \A i \in 1..Len(wire[c]) : Append(wire[c], e)[i] = wire[c][i]
        /\ Append(wire[c], e)[Len(wire[c]) + 1] = e
    BY <1>1, AppendProperties
  <1> QED
    BY <1>1, <1>2 DEF TypeOK, Send

LEMMA ReplayTypes ==
  ASSUME TypeOK, NEW c \in Client, Replay(c)
  PROVE  TypeOK' /\ log[pos[c]] \in Events /\ pos[c] \in DOMAIN log
  <1>1. pos[c] \in DOMAIN log
    BY LogIsList, ClientTypes DEF Replay
  <1>2. log[pos[c]] \in Events
    BY <1>1 DEF TypeOK
  <1>3. /\ wire' \in [Client -> Seq(Events)]
        /\ stream' \in [Client -> {"none", "replay", "live", "ended"}]
    BY <1>2, SendTypes DEF Replay
  <1>4. pos' \in [Client -> Nat] /\ \A d \in Client : pos'[d] \in 1..(Len(log) + 1)
    <2>1. pos[c] + 1 \in Nat /\ pos[c] + 1 \in 1..(Len(log) + 1)
      BY <1>1, LogIsList
    <2>2. pos' = [pos EXCEPT ![c] = pos[c] + 1]
      BY DEF Replay, PosAfter
    <2> QED
      BY <2>1, <2>2 DEF TypeOK
  <1> QED
    BY <1>1, <1>2, <1>3, <1>4 DEF Replay, TypeOK, page

LEMMA CatchUpTypes ==
  ASSUME TypeOK, NEW c \in Client, CatchUp(c)
  PROVE  TypeOK'
  BY DEF TypeOK, CatchUp, page

LEMMA ForwardTypes ==
  ASSUME TypeOK, NEW c \in Client, Forward(c)
  PROVE  /\ TypeOK' /\ Head(queue[c]) \in Events
         /\ Len(queue'[c]) = Len(queue[c]) - 1 /\ Len(queue[c]) \in Nat \ {0}
         /\ \A i \in 1..Len(queue'[c]) : queue'[c][i] = queue[c][i + 1]
         /\ Head(queue[c]) = queue[c][1]
         /\ \A d \in Client \ {c} : queue'[d] = queue[d]
  <1>1. queue[c] \in Seq(Events) /\ queue[c] # <<>> /\ queue'[c] = Tail(queue[c])
    BY DEF TypeOK, Forward
  <1>2. /\ Head(queue[c]) \in Events /\ Tail(queue[c]) \in Seq(Events)
        /\ Len(Tail(queue[c])) = Len(queue[c]) - 1
        /\ \A i \in 1..Len(Tail(queue[c])) : Tail(queue[c])[i] = queue[c][i + 1]
    BY <1>1, HeadTailProperties
  <1>3. Len(queue[c]) \in Nat \ {0} /\ Head(queue[c]) = queue[c][1]
    BY <1>1
  <1>4. /\ wire' \in [Client -> Seq(Events)]
        /\ stream' \in [Client -> {"none", "replay", "live", "ended"}]
    BY <1>2, SendTypes DEF Forward
  <1>5. queue' \in [Client -> Seq(Events)] /\ \A d \in Client \ {c} : queue'[d] = queue[d]
    BY <1>2 DEF TypeOK, Forward
  <1>6. TypeOK'
    BY <1>4, <1>5 DEF Forward, TypeOK, page
  <1> QED
    BY <1>1, <1>2, <1>3, <1>5, <1>6

\* What is on the wire first, and after it.
LEMMA WireHead ==
  ASSUME TypeOK, NEW c \in Client, wire[c] # <<>>
  PROVE  /\ Head(wire[c]) = wire[c][1] /\ Head(wire[c]) \in Events
         /\ Len(wire[c]) \in Nat \ {0} /\ DOMAIN wire[c] = 1..Len(wire[c])
         /\ Tail(wire[c]) \in Seq(Events)
         /\ Len(Tail(wire[c])) = Len(wire[c]) - 1
         /\ \A i \in 1..(Len(wire[c]) - 1) : Tail(wire[c])[i] = wire[c][i + 1]
  <1>1. wire[c] \in Seq(Events) /\ wire[c] # <<>>
    BY DEF TypeOK
  <1>2. /\ Head(wire[c]) \in Events /\ Tail(wire[c]) \in Seq(Events)
        /\ Len(Tail(wire[c])) = Len(wire[c]) - 1
        /\ \A i \in 1..Len(Tail(wire[c])) : Tail(wire[c])[i] = wire[c][i + 1]
    BY <1>1, HeadTailProperties
  <1>3. Len(wire[c]) \in Nat \ {0} /\ Head(wire[c]) = wire[c][1] /\ DOMAIN wire[c] = 1..Len(wire[c])
    BY <1>1
  <1> QED
    BY <1>2, <1>3

\* The log a page shows after an event.
LEMMA ShownAfter ==
  ASSUME TypeOK, NEW c \in Client, NEW e \in Events, shown' = AppendEventLog(c, e)
  PROVE  /\ shown' \in [Client -> Seq(Events)]
         /\ \A d \in Client \ {c} : shown'[d] = shown[d]
         /\ e \in Entries(shown[c]) => shown'[c] = shown[c]
         /\ e \notin Entries(shown[c]) =>
              /\ Len(shown'[c]) = Len(shown[c]) + 1
              /\ \A i \in 1..Len(shown[c]) : shown'[c][i] = shown[c][i]
              /\ shown'[c][Len(shown[c]) + 1] = e
         /\ Entries(shown'[c]) = Entries(shown[c]) \cup {e}
  <1>1. shown[c] \in Seq(Events)
    BY DEF TypeOK
  <1>2. /\ Append(shown[c], e) \in Seq(Events)
        /\ Len(Append(shown[c], e)) = Len(shown[c]) + 1
        /\ \A i \in 1..Len(shown[c]) : Append(shown[c], e)[i] = shown[c][i]
        /\ Append(shown[c], e)[Len(shown[c]) + 1] = e
    BY <1>1, AppendProperties
  <1>3. CASE e \in Entries(shown[c])
    BY <1>3 DEF AppendEventLog, TypeOK
  <1>4. CASE e \notin Entries(shown[c])
    <2>1. /\ shown'[c] = Append(shown[c], e)
          /\ \A d \in Client \ {c} : shown'[d] = shown[d]
          /\ shown' \in [Client -> Seq(Events)]
      BY <1>2, <1>4 DEF AppendEventLog, TypeOK
    <2>2. /\ DOMAIN shown[c] = 1..Len(shown[c]) /\ Len(shown[c]) \in Nat
          /\ DOMAIN shown'[c] = 1..Len(shown[c]) \cup {Len(shown[c]) + 1}
      BY <1>1, <1>2, <2>1
    <2>3. Entries(shown'[c]) = Entries(shown[c]) \cup {e}
      BY <1>2, <2>1, <2>2 DEF Entries
    <2> QED
      BY <1>2, <1>4, <2>1, <2>3
  <1> QED
    BY <1>3, <1>4

\* A connection that is gone leaves nothing behind.
LEMMA DisconnectTypes ==
  ASSUME TypeOK, NEW c \in Client, Disconnected(c)
  PROVE  /\ stream' \in [Client -> {"none", "replay", "live", "ended"}]
         /\ queue' \in [Client -> Seq(Events)] /\ wire' \in [Client -> Seq(Events)]
         /\ pos' = pos
         /\ stream'[c] = "none" /\ wire'[c] = <<>>
         /\ \A d \in Client \ {c} :
              stream'[d] = stream[d] /\ queue'[d] = queue[d] /\ wire'[d] = wire[d]
  <1>1. <<>> \in Seq(Events)
    OBVIOUS
  <1> QED
    BY <1>1 DEF TypeOK, Disconnected

LEMMA HandleTypes ==
  ASSUME TypeOK, NEW c \in Client, Handle(c)
  PROVE  TypeOK'
  <1> DEFINE e == Head(wire[c])
  <1>1. e \in Events /\ Tail(wire[c]) \in Seq(Events)
    BY WireHead DEF Handle
  <1>2. shown' \in [Client -> Seq(Events)]
    BY <1>1, ShownAfter DEF Handle
  <1>3. CASE e = Done /\ isComplete' = [isComplete EXCEPT ![c] = TRUE] /\ SourceClosed(c)
             /\ UNCHANGED status
    BY <1>2, <1>3, DisconnectTypes DEF Handle, TypeOK, SourceClosed
  <1>4. CASE /\ e # Done
             /\ status' = [status EXCEPT ![c][e.layer] = StatusAfter(e)]
             /\ wire' = [wire EXCEPT ![c] = Tail(@)]
             /\ UNCHANGED <<isComplete, server, source>>
    <2>1. e.layer \in Layer /\ StatusAfter(e) \in {"active", "complete", "error"}
      BY <1>1, <1>4, EventsAreTyped
    <2>2. status' \in [Client -> [Layer -> {"idle", "active", "complete", "error"}]]
      BY <1>4, <2>1 DEF TypeOK
    <2>3. wire' \in [Client -> Seq(Events)]
      BY <1>1, <1>4 DEF TypeOK
    <2> QED
      BY <1>2, <1>4, <2>2, <2>3 DEF Handle, TypeOK, server
  <1> QED
    BY <1>3, <1>4 DEF Handle

LEMMA ViewTypes ==
  ASSUME TypeOK, NEW c \in Client, Mount(c) \/ Unmount(c) \/ Drop(c)
  PROVE  TypeOK'
  <1>1. CASE Mount(c)
    BY <1>1, StreamAssumption DEF TypeOK, Mount, server, page
  <1>2. CASE Unmount(c)
    BY <1>2, DisconnectTypes DEF TypeOK, Unmount, SourceClosed, page
  <1>3. CASE Drop(c)
    <2>1. drops' \in 0..MaxDrops
      BY <1>3, StreamAssumption DEF TypeOK, Drop
    <2>2. source' \in [Client -> {"closed", "connecting", "open"}]
      BY <1>3 DEF TypeOK, Drop
    <2> QED
      BY <1>3, <2>1, <2>2, DisconnectTypes DEF TypeOK, Drop, page
  <1> QED
    BY <1>1, <1>2, <1>3

-----------------------------------------------------------------------------
(* What a step does to the clients.                                        *)

\* A client nothing happens to keeps its part of the invariant.
LEMMA OthersKept ==
  ASSUME NEW d \in Client, ClientInv(d), log' = log,
         shown'[d] = shown[d], wire'[d] = wire[d], queue'[d] = queue[d],
         stream'[d] = stream[d], pos'[d] = pos[d], source'[d] = source[d],
         mounted'[d] = mounted[d], isComplete'[d] = isComplete[d]
  PROVE  ClientInv(d)'
  <1>1. Told(d)' = Told(d) /\ Entries(shown[d])' = Entries(shown[d]) /\ Registered(d)' = Registered(d)
    BY DEF Told, Entries, Registered
  <1>2. PageInOrder(d)' /\ Connected(d)'
    BY DEF ClientInv, PageInOrder, Connected, Done, Event
  <1>3. WireInOrder(d)'
    BY <1>1 DEF ClientInv, WireInOrder
  <1>4. QueueIsSuffix(d)'
    BY <1>1 DEF ClientInv, QueueIsSuffix
  <1>5. SentSoFar(d)'
    BY <1>1 DEF ClientInv, SentSoFar, Done, Event
  <1> QED
    BY <1>2, <1>3, <1>4, <1>5 DEF ClientInv

\* The queue of a client after an event was published.
LEMMA QueueGrows ==
  ASSUME TypeOK, NEW d \in Client, NEW e \in Events, QueueIsSuffix(d), Registered(d),
         queue'[d] = Append(queue[d], e), stream'[d] = stream[d],
         Len(log') = Len(log) + 1, \A j \in 1..Len(log) : log'[j] = log[j],
         log'[Len(log) + 1] = e
  PROVE  QueueIsSuffix(d)' /\ Len(log') - Len(queue'[d]) = Len(log) - Len(queue[d])
  <1>1. queue[d] \in Seq(Events)
    BY DEF TypeOK
  <1>2. /\ Len(queue'[d]) = Len(queue[d]) + 1 /\ Len(queue[d]) \in Nat
        /\ \A i \in 1..Len(queue[d]) : queue'[d][i] = queue[d][i]
        /\ queue'[d][Len(queue[d]) + 1] = e
    BY <1>1, AppendProperties
  <1>3. Len(log) \in Nat
    BY LogIsList
  <1>4. /\ Len(queue[d]) <= Len(log)
        /\ \A j \in 1..Len(queue[d]) : queue[d][j] = log[Len(log) - Len(queue[d]) + j]
    BY DEF QueueIsSuffix
  <1> DEFINE m == Len(log)
             q == Len(queue[d])
  <1>5. m \in Nat /\ q \in Nat /\ q <= m /\ Len(log') = m + 1 /\ Len(queue'[d]) = q + 1
    BY <1>2, <1>3, <1>4
  <1>6. /\ \A i \in 1..q : queue'[d][i] = log[m - q + i]
        /\ queue'[d][q + 1] = e
        /\ \A i \in 1..m : log'[i] = log[i]
        /\ log'[m + 1] = e
    BY <1>2, <1>4
  <1> HIDE DEF m, q
  <1>7. Len(log') - Len(queue'[d]) = m - q
    <2>1. \A a, b \in Nat : (a + 1) - (b + 1) = a - b
      OBVIOUS
    <2>2. Len(log') - Len(queue'[d]) = (m + 1) - (q + 1)
      BY <1>5, Zenon
    <2> QED
      BY <1>5, <2>1, <2>2
  <1>8. ASSUME NEW j \in 1..(q + 1)
        PROVE  queue'[d][j] = log'[m - q + j]
    <2>1. CASE j \in 1..q
      <3>1. m - q + j \in 1..m
        BY <1>5, <2>1
      <3> QED
        BY <1>6, <2>1, <3>1
    <2>2. CASE j = q + 1
      <3>1. m - q + j = m + 1
        BY <1>5, <2>2
      <3> QED
        BY <1>6, <2>2, <3>1
    <2> QED
      BY <1>5, <2>1, <2>2
  <1>9. Len(queue'[d]) <= Len(log')
    BY <1>5
  <1>10. QueueIsSuffix(d)'
    BY <1>5, <1>7, <1>8, <1>9 DEF QueueIsSuffix
  <1> QED
    BY <1>7, <1>10 DEF m, q

LEMMA PublishKeepsClient ==
  ASSUME TypeOK, LogShape, NEW e \in Upcoming, Publish(e), NEW d \in Client, ClientInv(d)
  PROVE  ClientInv(d)'
  <1>1. /\ e \in Events /\ Len(log') = Len(log) + 1 /\ DOMAIN log' = 1..(Len(log) + 1)
        /\ \A j \in 1..Len(log) : log'[j] = log[j]
        /\ log'[Len(log) + 1] = e
        /\ log = <<>> \/ log[Len(log)] # Done
    BY PublishKeepsLog DEF Publish
  <1>2. Len(log) \in Nat /\ DOMAIN log = 1..Len(log) /\ Len(shown[d]) \in Nat
    BY LogIsList, ClientTypes
  <1>3. UNCHANGED <<stream, pos, wire, source, mounted, status, shown, isComplete>>
    BY DEF Publish, page
  <1>4. /\ Told(d)' = Told(d) /\ Entries(shown[d])' = Entries(shown[d])
        /\ Registered(d)' = Registered(d)
    BY <1>3 DEF Told, Entries, Registered
  <1>5. PageInOrder(d)'
    <2>1. ~isComplete[d]
      BY <1>1 DEF ClientInv, PageInOrder
    <2> QED
      BY <1>1, <1>2, <1>3, <2>1 DEF ClientInv, PageInOrder
  <1>6. WireInOrder(d)'
    <2> SUFFICES ASSUME NEW j \in DOMAIN wire[d]
                 PROVE  \E k \in DOMAIN log' :
                          /\ wire[d][j] = log'[k]
                          /\ \A i \in 1..(k - 1) :
                               log'[i] \in Entries(shown[d])
                                             \cup {wire[d][before] : before \in 1..(j - 1)}
      BY <1>3, <1>4 DEF WireInOrder
    <2>1. PICK k \in DOMAIN log :
            /\ wire[d][j] = log[k]
            /\ \A i \in 1..(k - 1) :
                 log[i] \in Entries(shown[d]) \cup {wire[d][before] : before \in 1..(j - 1)}
      BY DEF ClientInv, WireInOrder
    <2>2. k \in DOMAIN log' /\ log'[k] = log[k] /\ \A i \in 1..(k - 1) : log'[i] = log[i]
      BY <1>1, <1>2
    <2> QED
      BY <2>1, <2>2
  <1>7. Connected(d)'
    BY <1>3 DEF ClientInv, Connected
  <1>8. stream[d] # "ended"
    BY <1>1 DEF ClientInv, SentSoFar
  <1>9. QueueIsSuffix(d)' /\ SentSoFar(d)'
    <2>1. CASE Registered(d)
      <3>1. queue'[d] = Append(queue[d], e)
        BY <2>1 DEF Publish
      <3>2. QueueIsSuffix(d)' /\ Len(log') - Len(queue'[d]) = Len(log) - Len(queue[d])
        BY <1>1, <1>3, <2>1, <3>1, QueueGrows DEF ClientInv
      <3>3. Len(queue[d]) \in Nat
        BY ClientTypes
      <3>4. stream[d] = "live" => \A i \in 1..(Len(log') - Len(queue'[d])) : log'[i] \in Told(d)
        <4>1. \A i \in 1..(Len(log) - Len(queue[d])) : i \in 1..Len(log)
          BY <1>2, <3>3
        <4>2. stream[d] = "live" => \A i \in 1..(Len(log) - Len(queue[d])) : log[i] \in Told(d)
          BY DEF ClientInv, SentSoFar
        <4>3. stream[d] = "live" => \A i \in 1..(Len(log) - Len(queue[d])) : log'[i] \in Told(d)
          BY <1>1, <4>1, <4>2
        <4> QED
          BY <3>2, <4>3
      <3>5. stream[d] = "replay" => \A i \in 1..(pos[d] - 1) : log'[i] \in Told(d)
        <4>1. pos[d] \in 1..(Len(log) + 1)
          BY ClientTypes
        <4>2. \A i \in 1..(pos[d] - 1) : i \in 1..Len(log)
          BY <1>2, <4>1
        <4> QED
          BY <1>1, <4>2 DEF ClientInv, SentSoFar
      <3> QED
        BY <1>3, <1>4, <1>8, <3>2, <3>4, <3>5 DEF SentSoFar
    <2>2. CASE ~Registered(d)
      BY <1>3, <1>4, <1>8, <2>2 DEF QueueIsSuffix, SentSoFar, Registered
    <2> QED
      BY <2>1, <2>2
  <1> QED
    BY <1>5, <1>6, <1>7, <1>9 DEF ClientInv

\* An event sent when all before it was told takes its place on the wire.
LEMMA SendKeepsOrder ==
  ASSUME TypeOK, NEW c \in Client, NEW k \in DOMAIN log, Send(c, log[k]),
         log' = log, shown' = shown, WireInOrder(c),
         \A i \in 1..(k - 1) : log[i] \in Told(c)
  PROVE  WireInOrder(c)' /\ Told(c)' = Told(c) \cup {log[k]}
  <1>1. log[k] \in Events
    BY DEF TypeOK
  <1>2. /\ wire'[c] \in Seq(Events)
        /\ Len(wire'[c]) = Len(wire[c]) + 1
        /\ \A i \in 1..Len(wire[c]) : wire'[c][i] = wire[c][i]
        /\ wire'[c][Len(wire[c]) + 1] = log[k]
    BY <1>1, SendTypes
  <1>3. /\ DOMAIN wire[c] = 1..Len(wire[c]) /\ Len(wire[c]) \in Nat
        /\ DOMAIN wire'[c] = 1..Len(wire[c]) \cup {Len(wire[c]) + 1}
    <2>1. wire[c] \in Seq(Events)
      BY ClientTypes
    <2> QED
      BY <1>2, <2>1
  <1>4. Entries(wire'[c]) = Entries(wire[c]) \cup {log[k]}
    BY <1>2, <1>3 DEF Entries
  <1> DEFINE w == Len(wire[c])
  <1> HIDE DEF w
  <1>5. ASSUME NEW j \in DOMAIN wire'[c]
        PROVE  \E m \in DOMAIN log :
                 /\ wire'[c][j] = log[m]
                 /\ \A i \in 1..(m - 1) :
                      log[i] \in Entries(shown[c]) \cup {wire'[c][before] : before \in 1..(j - 1)}
    <2>1. CASE j \in 1..Len(wire[c])
      <3>1. PICK m \in DOMAIN log :
              /\ wire[c][j] = log[m]
              /\ \A i \in 1..(m - 1) :
                   log[i] \in Entries(shown[c]) \cup {wire[c][before] : before \in 1..(j - 1)}
        BY <1>3, <2>1 DEF WireInOrder
      <3>2. \A before \in 1..(j - 1) : before \in 1..Len(wire[c])
        BY <1>3, <2>1
      <3>3. {wire[c][before] : before \in 1..(j - 1)} = {wire'[c][before] : before \in 1..(j - 1)}
        BY <1>2, <3>2
      <3> QED
        BY <1>2, <2>1, <3>1, <3>3
    <2>2. CASE j = Len(wire[c]) + 1
      <3>1. 1..(j - 1) = DOMAIN wire[c]
        BY <1>3, <2>2
      <3>2. {wire'[c][before] : before \in 1..(j - 1)} = Entries(wire[c])
        BY <1>2, <1>3, <3>1 DEF Entries
      <3>3. \A i \in 1..(k - 1) :
              log[i] \in Entries(shown[c]) \cup {wire'[c][before] : before \in 1..(j - 1)}
        BY <3>2 DEF Told
      <3> QED
        BY <1>2, <2>2, <3>3
    <2> QED
      BY <1>3, <2>1, <2>2
  <1>6. WireInOrder(c)'
    BY <1>5 DEF WireInOrder
  <1> QED
    BY <1>4, <1>6 DEF Told

LEMMA AcceptKeepsClient ==
  ASSUME TypeOK, NEW c \in Client, Accept(c), ClientInv(c)
  PROVE  ClientInv(c)'
  <1>1. /\ UNCHANGED <<log, wire, shown, isComplete, mounted>>
        /\ source[c] = "connecting" /\ source'[c] = "open"
        /\ stream'[c] = FirstStage /\ pos'[c] = 1 /\ queue'[c] = <<>>
    BY DEF TypeOK, Accept, page
  <1>2. Len(log) \in Nat /\ (log = <<>> <=> Len(log) = 0)
    BY LogIsList
  <1>3. Told(c)' = Told(c)
    BY <1>1 DEF Told
  <1>4. PageInOrder(c)' /\ WireInOrder(c)'
    BY <1>1 DEF ClientInv, PageInOrder, WireInOrder, Done, Event
  <1>5. Connected(c)'
    BY <1>1 DEF ClientInv, Connected, FirstStage
  <1>6. QueueIsSuffix(c)'
    BY <1>1, <1>2 DEF QueueIsSuffix
  <1>7. SentSoFar(c)'
    <2>1. stream'[c] = "live" => Len(log) - Len(<<>>) = 0
      BY <1>1, <1>2 DEF FirstStage
    <2> QED
      BY <1>1, <2>1 DEF SentSoFar, FirstStage
  <1> QED
    BY <1>4, <1>5, <1>6, <1>7 DEF ClientInv

LEMMA ReplayKeepsClient ==
  ASSUME TypeOK, LogShape, NEW c \in Client, Replay(c), ClientInv(c)
  PROVE  ClientInv(c)'
  <1> DEFINE k == pos[c]
  <1>1. k \in DOMAIN log /\ log[k] \in Events /\ k \in Nat
    BY ReplayTypes, ClientTypes
  <1>2. /\ stream[c] = "replay" /\ Send(c, log[k])
        /\ UNCHANGED <<log, queue, source, mounted, shown, isComplete>>
        /\ pos'[c] = k + 1
    BY DEF TypeOK, Replay, PosAfter, page
  <1> HIDE DEF k
  <1>3. \A i \in 1..(k - 1) : log[i] \in Told(c)
    BY <1>2 DEF ClientInv, SentSoFar, k
  <1>4. WireInOrder(c)' /\ Told(c)' = Told(c) \cup {log[k]}
    BY <1>1, <1>2, <1>3, SendKeepsOrder DEF ClientInv
  <1>5. stream'[c] = IF log[k] = Done THEN "ended" ELSE "replay"
    BY <1>1, <1>2, SendTypes
  <1>6. \A i \in 1..k : log[i] \in Told(c)'
    <2>1. \A i \in 1..k : i = k \/ i \in 1..(k - 1)
      BY <1>1
    <2> QED
      BY <1>3, <1>4, <2>1
  <1>7. PageInOrder(c)'
    BY <1>2 DEF ClientInv, PageInOrder, Done, Event
  <1>8. source[c] = "open"
    BY <1>2 DEF ClientInv, Connected
  <1>9. Connected(c)'
    BY <1>2, <1>5, <1>8 DEF ClientInv, Connected
  <1>10. QueueIsSuffix(c)'
    BY <1>2 DEF ClientInv, QueueIsSuffix, Registered
  <1>11. SentSoFar(c)'
    <2>1. CASE log[k] = Done
      <3>1. k = Len(log) /\ log # <<>> /\ DOMAIN log = 1..k
        BY <1>1, <2>1, LogIsList, LogHasNoRepetition
      <3>2. log[Len(log)] = Done /\ \A i \in DOMAIN log : log[i] \in Told(c)'
        BY <1>6, <2>1, <3>1
      <3>3. stream'[c] = "ended"
        BY <1>5, <2>1
      <3> QED
        BY <1>2, <3>1, <3>2, <3>3 DEF SentSoFar, Done, Event
    <2>2. CASE log[k] # Done
      <3>1. stream'[c] = "replay" /\ (k + 1) - 1 = k
        BY <1>1, <1>5, <2>2
      <3> QED
        BY <1>2, <1>6, <3>1 DEF SentSoFar
    <2> QED
      BY <2>1, <2>2
  <1> QED
    BY <1>4, <1>7, <1>9, <1>10, <1>11 DEF ClientInv

LEMMA CatchUpKeepsClient ==
  ASSUME TypeOK, NEW c \in Client, CatchUp(c), ClientInv(c)
  PROVE  ClientInv(c)'
  <1>1. /\ UNCHANGED <<log, pos, queue, wire, source, mounted, shown, isComplete>>
        /\ stream[c] = "replay" /\ stream'[c] = "live" /\ pos[c] > Len(log)
    BY DEF TypeOK, CatchUp, page
  <1>2. Told(c)' = Told(c)
    BY <1>1 DEF Told
  <1>3. \A i \in 1..(Len(log) - Len(queue[c])) : log[i] \in Told(c)
    <2>1. pos[c] \in Nat /\ Len(log) \in Nat /\ Len(queue[c]) \in Nat
      BY ClientTypes, LogIsList
    <2>2. \A p, n, q \in Nat : p > n => \A i \in 1..(n - q) : i \in 1..(p - 1)
      OBVIOUS
    <2>3. \A i \in 1..(Len(log) - Len(queue[c])) : i \in 1..(pos[c] - 1)
      BY <1>1, <2>1, <2>2, Zenon
    <2> QED
      BY <1>1, <2>3 DEF ClientInv, SentSoFar
  <1>4. PageInOrder(c)' /\ WireInOrder(c)'
    BY <1>1 DEF ClientInv, PageInOrder, WireInOrder, Done, Event
  <1>5. Connected(c)'
    BY <1>1 DEF ClientInv, Connected
  <1>6. QueueIsSuffix(c)'
    BY <1>1 DEF ClientInv, QueueIsSuffix, Registered
  <1>7. SentSoFar(c)'
    BY <1>1, <1>2, <1>3 DEF SentSoFar
  <1> QED
    BY <1>4, <1>5, <1>6, <1>7 DEF ClientInv

LEMMA ForwardKeepsClient ==
  ASSUME TypeOK, LogShape, NEW c \in Client, Forward(c), ClientInv(c)
  PROVE  ClientInv(c)'
  <1> DEFINE n == Len(log)
             q == Len(queue[c])
             k == n - q + 1
  <1>1. /\ stream[c] = "live" /\ Send(c, Head(queue[c]))
        /\ UNCHANGED <<log, pos, source, mounted, shown, isComplete>>
    BY DEF Forward, page
  <1>2. /\ Head(queue[c]) \in Events /\ Head(queue[c]) = queue[c][1]
        /\ Len(queue'[c]) = q - 1 /\ q \in Nat \ {0}
        /\ \A i \in 1..(q - 1) : queue'[c][i] = queue[c][i + 1]
    BY ForwardTypes
  <1>3. /\ q <= n /\ n \in Nat /\ DOMAIN log = 1..n
        /\ \A j \in 1..q : queue[c][j] = log[n - q + j]
    BY <1>1, LogIsList DEF ClientInv, QueueIsSuffix, Registered
  <1>4. \A i \in 1..(n - q) : log[i] \in Told(c)
    BY <1>1 DEF ClientInv, SentSoFar
  <1> HIDE DEF n, q
  <1>5. k \in DOMAIN log /\ k - 1 = n - q /\ k \in Nat
    BY <1>2, <1>3
  <1>6. Head(queue[c]) = log[k]
    BY <1>2, <1>3
  <1> HIDE DEF k
  <1>7. \A i \in 1..(k - 1) : log[i] \in Told(c)
    BY <1>4, <1>5
  <1>8. WireInOrder(c)' /\ Told(c)' = Told(c) \cup {log[k]}
    BY <1>1, <1>5, <1>6, <1>7, SendKeepsOrder DEF ClientInv
  <1>9. stream'[c] = IF log[k] = Done THEN "ended" ELSE "live"
    BY <1>1, <1>2, <1>6, SendTypes
  <1>10. \A i \in 1..k : log[i] \in Told(c)'
    <2>1. \A i \in 1..k : i = k \/ i \in 1..(k - 1)
      BY <1>5
    <2> QED
      BY <1>7, <1>8, <2>1
  <1>11. PageInOrder(c)'
    BY <1>1 DEF ClientInv, PageInOrder, Done, Event
  <1>12. Connected(c)'
    BY <1>1, <1>9 DEF ClientInv, Connected
  <1>13. n - Len(queue'[c]) = k
    BY <1>2, <1>3 DEF k
  <1>14. QueueIsSuffix(c)'
    <2>1. Len(queue'[c]) <= n
      BY <1>2, <1>3
    <2>2. ASSUME NEW j \in 1..(q - 1)
          PROVE  queue'[c][j] = log[k + j]
      <3>1. j + 1 \in 1..q /\ n - q + (j + 1) = k + j
        BY <1>2, <1>3 DEF k
      <3> QED
        BY <1>2, <1>3, <3>1
    <2>3. \A j \in 1..Len(queue'[c]) : queue'[c][j] = log[n - Len(queue'[c]) + j]
      BY <1>2, <1>13, <2>2
    <2> QED
      BY <1>1, <2>1, <2>3 DEF QueueIsSuffix, n
  <1>15. SentSoFar(c)'
    <2>1. CASE log[k] = Done
      <3>1. k = Len(log) /\ log # <<>> /\ DOMAIN log = 1..k
        BY <1>3, <1>5, <2>1, LogIsList, LogHasNoRepetition DEF n
      <3>2. log[Len(log)] = Done /\ \A i \in DOMAIN log : log[i] \in Told(c)'
        BY <1>10, <2>1, <3>1
      <3>3. stream'[c] = "ended"
        BY <1>9, <2>1
      <3> QED
        BY <1>1, <3>1, <3>2, <3>3 DEF SentSoFar, Done, Event
    <2>2. CASE log[k] # Done
      <3>1. stream'[c] = "live"
        BY <1>9, <2>2
      <3> QED
        BY <1>1, <1>10, <1>13, <3>1 DEF SentSoFar, n
    <2> QED
      BY <2>1, <2>2
  <1> QED
    BY <1>8, <1>11, <1>12, <1>14, <1>15 DEF ClientInv

-----------------------------------------------------------------------------
(* The page.                                                               *)

\* The event a page handles is in its log already, or the next one.
LEMMA HeadIsNext ==
  ASSUME TypeOK, LogShape, NEW c \in Client, ClientInv(c), wire[c] # <<>>
  PROVE  \E k \in DOMAIN log :
           /\ Head(wire[c]) = log[k]
           /\ \A i \in 1..(k - 1) : log[i] \in Entries(shown[c])
           /\ Head(wire[c]) \notin Entries(shown[c]) => k = Len(shown[c]) + 1
           /\ Head(wire[c]) \in Entries(shown[c]) => k <= Len(shown[c])
  <1>1. Head(wire[c]) = wire[c][1] /\ 1 \in DOMAIN wire[c]
    BY WireHead
  <1>2. PICK k \in DOMAIN log :
          /\ wire[c][1] = log[k]
          /\ \A i \in 1..(k - 1) :
               log[i] \in Entries(shown[c]) \cup {wire[c][before] : before \in 1..(1 - 1)}
    BY <1>1 DEF ClientInv, WireInOrder
  <1>3. \A i \in 1..(k - 1) : log[i] \in Entries(shown[c])
    BY <1>2
  <1> DEFINE s == Len(shown[c])
  <1>4. /\ s \in Nat /\ s <= Len(log) /\ DOMAIN shown[c] = 1..s
        /\ \A i \in 1..s : shown[c][i] = log[i]
    <2>1. shown[c] \in Seq(Events)
      BY ClientTypes
    <2> QED
      BY <2>1 DEF ClientInv, PageInOrder
  <1> HIDE DEF s
  <1>5. DOMAIN log = 1..Len(log) /\ Len(log) \in Nat /\ k \in Nat /\ k > 0
    BY LogIsList
  <1>6. \A i \in DOMAIN log : log[i] \in Entries(shown[c]) => i <= s
    <2> SUFFICES ASSUME NEW i \in DOMAIN log, log[i] \in Entries(shown[c])
                 PROVE  i <= s
      OBVIOUS
    <2>1. PICK j \in 1..s : log[i] = shown[c][j]
      BY <1>4 DEF Entries
    <2>2. j \in DOMAIN log /\ log[j] = log[i]
      BY <1>4, <1>5, <2>1
    <2>3. i = j
      BY <2>2, LogHasNoRepetition
    <2> QED
      BY <2>3, <1>4
  <1>7. \A i \in 1..s : log[i] \in Entries(shown[c])
    BY <1>4 DEF Entries
  <1>8. log[k] \in Entries(shown[c]) => k <= s
    BY <1>6
  <1>9. log[k] \notin Entries(shown[c]) => k = s + 1
    <2>1. SUFFICES ASSUME log[k] \notin Entries(shown[c]) PROVE k = s + 1
      OBVIOUS
    <2>2. k \notin 1..s
      BY <1>7, <2>1
    <2>3. k - 1 = 0 \/ k - 1 \in 1..(k - 1)
      BY <1>5
    <2>4. k - 1 <= s
      BY <1>3, <1>4, <1>5, <1>6, <2>3
    <2> QED
      BY <1>4, <1>5, <2>2, <2>4
  <1> QED
    BY <1>1, <1>2, <1>3, <1>8, <1>9 DEF s

LEMMA HandleKeepsPage ==
  ASSUME TypeOK, LogShape, NEW c \in Client, Handle(c), ClientInv(c)
  PROVE  /\ PageInOrder(c)'
         /\ Entries(shown'[c]) = Entries(shown[c]) \cup {Head(wire[c])}
  <1> DEFINE e == Head(wire[c])
             s == Len(shown[c])
             n == Len(log)
  <1>1. wire[c] # <<>> /\ log' = log /\ shown' = AppendEventLog(c, e) /\ e \in Events
    BY WireHead DEF Handle
  <1>2. /\ e \in Entries(shown[c]) => shown'[c] = shown[c]
        /\ e \notin Entries(shown[c]) =>
             /\ Len(shown'[c]) = s + 1
             /\ \A i \in 1..s : shown'[c][i] = shown[c][i]
             /\ shown'[c][s + 1] = e
        /\ Entries(shown'[c]) = Entries(shown[c]) \cup {e}
    BY <1>1, ShownAfter
  <1>3. PICK k \in DOMAIN log :
          /\ e = log[k]
          /\ \A i \in 1..(k - 1) : log[i] \in Entries(shown[c])
          /\ e \notin Entries(shown[c]) => k = s + 1
          /\ e \in Entries(shown[c]) => k <= s
    BY <1>1, HeadIsNext
  <1>4. /\ DOMAIN log = 1..n /\ n \in Nat /\ s \in Nat /\ s <= n
        /\ \A i \in 1..s : shown[c][i] = log[i]
        /\ isComplete[c] => s = n /\ log # <<>> /\ log[n] = Done
        /\ log = <<>> <=> n = 0
    BY LogIsList, ClientTypes DEF ClientInv, PageInOrder
  <1>5. isComplete'[c] => isComplete[c] \/ e = Done
    BY DEF Handle, TypeOK
  <1>6. e = Done => k = n
    BY <1>3, LogHasNoRepetition
  <1> HIDE DEF e, s, n
  <1>7. CASE e \in Entries(shown[c])
    <2>1. shown'[c] = shown[c] /\ k <= s /\ k \in 1..n
      BY <1>2, <1>3, <1>4, <1>7
    <2>2. isComplete'[c] => s = n /\ log # <<>> /\ log[n] = Done
      <3>1. e = Done => s = n /\ log # <<>> /\ log[n] = Done
        <4>1. e = Done => k = n /\ log[k] = Done
          BY <1>3, <1>6
        <4>2. k = n => s = n /\ n # 0
          BY <1>4, <2>1
        <4> QED
          BY <1>4, <4>1, <4>2
      <3> QED
        BY <1>4, <1>5, <3>1
    <2>3. PageInOrder(c)'
      BY <1>1, <1>4, <2>1, <2>2 DEF PageInOrder, Done, Event, s, n
    <2> QED
      BY <1>2, <2>3 DEF e
  <1>8. CASE e \notin Entries(shown[c])
    <2>1. /\ Len(shown'[c]) = s + 1 /\ k = s + 1 /\ k \in 1..n
          /\ \A i \in 1..s : shown'[c][i] = log[i]
          /\ shown'[c][s + 1] = log[s + 1]
      BY <1>2, <1>3, <1>4, <1>8
    <2>2. s + 1 <= n /\ \A i \in 1..(s + 1) : i \in 1..s \/ i = s + 1
      BY <1>4, <2>1
    <2>3. \A i \in 1..(s + 1) : shown'[c][i] = log[i]
      BY <2>1, <2>2
    <2>4. ~isComplete[c]
      BY <1>4, <2>2
    <2>5. isComplete'[c] => s + 1 = n /\ log # <<>> /\ log[n] = Done
      BY <1>3, <1>4, <1>5, <1>6, <2>1, <2>4
    <2>6. PageInOrder(c)'
      BY <1>1, <2>1, <2>2, <2>3, <2>5 DEF PageInOrder, Done, Event, n
    <2> QED
      BY <1>2, <2>6 DEF e
  <1> QED
    BY <1>7, <1>8

LEMMA HandleKeepsClient ==
  ASSUME TypeOK, LogShape, NEW c \in Client, Handle(c), ClientInv(c)
  PROVE  ClientInv(c)'
  <1> DEFINE e == Head(wire[c])
  <1>1. /\ PageInOrder(c)'
        /\ Entries(shown'[c]) = Entries(shown[c]) \cup {e}
        /\ UNCHANGED <<log, mounted>> /\ source[c] = "open" /\ wire[c] # <<>>
    BY HandleKeepsPage DEF Handle
  <1>2. CASE e = Done /\ SourceClosed(c)
    <2>1. /\ stream'[c] = "none" /\ wire'[c] = <<>> /\ source'[c] = "closed"
      BY <1>2, DisconnectTypes DEF SourceClosed, TypeOK
    <2>2. WireInOrder(c)' /\ QueueIsSuffix(c)' /\ SentSoFar(c)' /\ Connected(c)'
      BY <2>1 DEF WireInOrder, QueueIsSuffix, Registered, SentSoFar, Connected
    <2> QED
      BY <1>1, <2>2 DEF ClientInv
  <1>3. CASE wire' = [wire EXCEPT ![c] = Tail(@)] /\ UNCHANGED <<server, source>>
    <2> DEFINE w == Len(wire[c])
    <2>1. wire'[c] = Tail(wire[c]) /\ UNCHANGED <<stream, pos, queue, source>>
      BY <1>3 DEF TypeOK, server
    <2>2. /\ e = wire[c][1] /\ w \in Nat \ {0} /\ DOMAIN wire[c] = 1..w
          /\ wire'[c] \in Seq(Events) /\ Len(wire'[c]) = w - 1
          /\ \A i \in 1..(w - 1) : wire'[c][i] = wire[c][i + 1]
      BY <1>1, <2>1, WireHead
    <2>3. DOMAIN wire'[c] = 1..(w - 1)
      BY <2>2
    <2> HIDE DEF e, w
    <2>4. Entries(wire[c]) = {e} \cup Entries(wire'[c])
      <3>1. \A i \in 1..w : i = 1 \/ (i - 1 \in 1..(w - 1) /\ (i - 1) + 1 = i)
        BY <2>2
      <3>2. \A i \in 1..(w - 1) : i + 1 \in 1..w
        BY <2>2
      <3>3. \A i \in 1..w : wire[c][i] = e \/ \E j \in 1..(w - 1) : wire[c][i] = wire'[c][j]
        BY <2>2, <3>1
      <3>4. 1 \in 1..w
        BY <2>2
      <3>5. Entries(wire[c]) = {wire[c][i] : i \in 1..w}
        BY <2>2 DEF Entries
      <3>6. Entries(wire'[c]) = {wire'[c][i] : i \in 1..(w - 1)}
        BY <2>3 DEF Entries
      <3>7. Entries(wire[c]) \subseteq {e} \cup Entries(wire'[c])
        BY <3>3, <3>5, <3>6
      <3>8. e \in Entries(wire[c])
        BY <2>2, <3>4, <3>5
      <3>9. \A i \in 1..(w - 1) : wire'[c][i] \in Entries(wire[c])
        BY <2>2, <3>2, <3>5
      <3> QED
        BY <3>6, <3>7, <3>8, <3>9
    <2>5. Told(c)' = Told(c)
      BY <1>1, <2>4 DEF Told
    <2>6. ASSUME NEW j \in 1..(w - 1)
          PROVE  \E k \in DOMAIN log :
                   /\ wire'[c][j] = log[k]
                   /\ \A i \in 1..(k - 1) :
                        log[i] \in Entries(shown'[c]) \cup {wire'[c][before] : before \in 1..(j - 1)}
      <3>1. j + 1 \in DOMAIN wire[c] /\ (j + 1) - 1 = j /\ wire'[c][j] = wire[c][j + 1]
        BY <2>2
      <3>2. PICK k \in DOMAIN log :
              /\ wire[c][j + 1] = log[k]
              /\ \A i \in 1..(k - 1) :
                   log[i] \in Entries(shown[c]) \cup {wire[c][before] : before \in 1..j}
        BY <3>1 DEF ClientInv, WireInOrder
      <3>3. \A before \in 1..j :
              before = 1 \/ (before - 1 \in 1..(j - 1) /\ before - 1 \in 1..(w - 1)
                              /\ (before - 1) + 1 = before)
        BY <2>2
      <3>4. \A before \in 1..j :
              wire[c][before] \in {e} \cup {wire'[c][b] : b \in 1..(j - 1)}
        <4> SUFFICES ASSUME NEW before \in 1..j, before # 1
                     PROVE  wire[c][before] \in {wire'[c][b] : b \in 1..(j - 1)}
          BY <2>2
        <4> DEFINE b == before - 1
        <4>1. b \in 1..(j - 1) /\ b \in 1..(w - 1) /\ b + 1 = before
          BY <3>3
        <4> HIDE DEF b
        <4>2. wire'[c][b] = wire[c][before]
          BY <2>2, <4>1
        <4> QED
          BY <4>1, <4>2
      <3> QED
        BY <1>1, <3>1, <3>2, <3>4
    <2>7. WireInOrder(c)'
      BY <1>1, <2>3, <2>6 DEF WireInOrder
    <2>8. QueueIsSuffix(c)'
      BY <1>1, <2>1 DEF ClientInv, QueueIsSuffix, Registered
    <2>9. SentSoFar(c)'
      BY <1>1, <2>1, <2>5 DEF ClientInv, SentSoFar, Done, Event
    <2>10. Connected(c)'
      BY <1>1, <2>1 DEF ClientInv, Connected
    <2> QED
      BY <1>1, <2>7, <2>8, <2>9, <2>10 DEF ClientInv
  <1> QED
    BY <1>2, <1>3 DEF Handle

\* Views come and go, connections are lost.
LEMMA ViewsKeepClient ==
  ASSUME TypeOK, NEW c \in Client, Mount(c) \/ Unmount(c) \/ Drop(c), ClientInv(c)
  PROVE  ClientInv(c)'
  <1>1. UNCHANGED <<log, shown, isComplete>>
    BY DEF Mount, Unmount, Drop, page
  <1>2. PageInOrder(c)'
    BY <1>1 DEF ClientInv, PageInOrder, Done, Event
  <1>3. stream'[c] = "none" /\ wire'[c] = <<>>
    <2>1. CASE Mount(c)
      BY <2>1, ClientTypes DEF Mount, server, ClientInv, Connected
    <2>2. CASE Unmount(c) \/ Drop(c)
      BY <2>2, DisconnectTypes DEF Unmount, Drop, SourceClosed
    <2> QED
      BY <2>1, <2>2
  <1>4. source'[c] # "open" /\ (~mounted'[c] => source'[c] = "closed")
    BY DEF TypeOK, Mount, Unmount, Drop, SourceClosed, ClientInv, Connected
  <1>5. WireInOrder(c)' /\ QueueIsSuffix(c)' /\ SentSoFar(c)' /\ Connected(c)'
    BY <1>3, <1>4 DEF WireInOrder, QueueIsSuffix, Registered, SentSoFar, Connected
  <1> QED
    BY <1>2, <1>5 DEF ClientInv

LEMMA InitStream == Init => StreamInv
  <1> SUFFICES ASSUME Init PROVE StreamInv
    OBVIOUS
  <1>1. DOMAIN <<>> = {} /\ Len(<<>>) = 0 /\ 1..0 = {}
    OBVIOUS
  <1>2. LogShape
    BY <1>1 DEF Init, LogShape
  <1>3. \A c \in Client : ClientInv(c)
    BY <1>1 DEF Init, ClientInv, PageInOrder, WireInOrder, QueueIsSuffix, SentSoFar,
       Connected, Registered
  <1> QED
    BY <1>2, <1>3, InitStreamTypes DEF StreamInv

LEMMA StreamKept ==
  ASSUME StreamInv, [Next]_vars
  PROVE  StreamInv'
  <1>0. TypeOK /\ LogShape /\ \A c \in Client : ClientInv(c)
    BY DEF StreamInv
  <1>1. ASSUME NEW e \in Upcoming, Publish(e)
        PROVE  StreamInv'
    <2>1. LogShape'
      BY <1>0, <1>1, PublishKeepsLog DEF Publish
    <2> QED
      BY <1>0, <1>1, <2>1, PublishTypes, PublishKeepsClient DEF StreamInv
  <1>2. ASSUME NEW c \in Client, TypeOK', ClientInv(c)', log' = log,
               \A d \in Client \ {c} :
                 /\ shown'[d] = shown[d] /\ wire'[d] = wire[d] /\ queue'[d] = queue[d]
                 /\ stream'[d] = stream[d] /\ pos'[d] = pos[d] /\ source'[d] = source[d]
                 /\ mounted'[d] = mounted[d] /\ isComplete'[d] = isComplete[d]
        PROVE  StreamInv'
    <2>1. \A d \in Client \ {c} : ClientInv(d)'
      BY <1>0, <1>2, OthersKept
    <2>2. LogShape'
      BY <1>0, <1>2 DEF LogShape, Started, Completed, Failed, Done, Event
    <2> QED
      BY <1>2, <2>1, <2>2 DEF StreamInv
  <1>3. ASSUME NEW c \in Client, Accept(c)
        PROVE  StreamInv'
    <2>1. TypeOK' /\ ClientInv(c)'
      BY <1>0, <1>3, AcceptTypes, AcceptKeepsClient
    <2> QED
      BY <1>0, <1>2, <1>3, <2>1 DEF Accept, TypeOK, page
  <1>4. ASSUME NEW c \in Client, Replay(c)
        PROVE  StreamInv'
    <2>1. TypeOK' /\ ClientInv(c)'
      BY <1>0, <1>4, ReplayTypes, ReplayKeepsClient
    <2> QED
      BY <1>0, <1>2, <1>4, <2>1 DEF Replay, Send, PosAfter, TypeOK, page
  <1>5. ASSUME NEW c \in Client, CatchUp(c)
        PROVE  StreamInv'
    <2>1. TypeOK' /\ ClientInv(c)'
      BY <1>0, <1>5, CatchUpTypes, CatchUpKeepsClient
    <2> QED
      BY <1>0, <1>2, <1>5, <2>1 DEF CatchUp, TypeOK, page
  <1>6. ASSUME NEW c \in Client, Forward(c)
        PROVE  StreamInv'
    <2>1. TypeOK' /\ ClientInv(c)'
      BY <1>0, <1>6, ForwardTypes, ForwardKeepsClient
    <2> QED
      BY <1>0, <1>2, <1>6, <2>1 DEF Forward, Send, TypeOK, page
  <1>7. ASSUME NEW c \in Client, Handle(c)
        PROVE  StreamInv'
    <2>1. TypeOK' /\ ClientInv(c)'
      BY <1>0, <1>7, HandleTypes, HandleKeepsClient
    <2>2. Head(wire[c]) \in Events
      BY <1>0, <1>7, WireHead DEF Handle
    <2>3. \A d \in Client \ {c} : shown'[d] = shown[d]
      BY <1>0, <1>7, <2>2, ShownAfter DEF Handle
    <2>4. log' = log /\ mounted' = mounted
      BY <1>7 DEF Handle
    <2>5. ASSUME NEW d \in Client \ {c}
          PROVE  /\ wire'[d] = wire[d] /\ queue'[d] = queue[d]
                 /\ stream'[d] = stream[d] /\ pos'[d] = pos[d] /\ source'[d] = source[d]
                 /\ isComplete'[d] = isComplete[d]
      BY <1>0, <1>7 DEF Handle, SourceClosed, Disconnected, TypeOK, server
    <2> QED
      BY <1>2, <2>1, <2>3, <2>4, <2>5
  <1>8. ASSUME NEW c \in Client, Mount(c) \/ Unmount(c) \/ Drop(c)
        PROVE  StreamInv'
    <2>1. TypeOK' /\ ClientInv(c)'
      BY <1>0, <1>8, ViewTypes, ViewsKeepClient
    <2>2. UNCHANGED <<log, shown, isComplete, pos>>
      BY <1>8 DEF Mount, Unmount, Drop, SourceClosed, Disconnected, page, server
    <2>3. ASSUME NEW d \in Client \ {c}
          PROVE  /\ wire'[d] = wire[d] /\ queue'[d] = queue[d]
                 /\ stream'[d] = stream[d] /\ source'[d] = source[d]
                 /\ mounted'[d] = mounted[d]
      BY <1>0, <1>8 DEF Mount, Unmount, Drop, SourceClosed, Disconnected, TypeOK, server
    <2> QED
      BY <1>2, <2>1, <2>2, <2>3
  <1>9. ASSUME UNCHANGED vars
        PROVE  StreamInv'
    <2>1. /\ UNCHANGED <<log, shown, isComplete, pos, wire, queue, stream, source, mounted>>
          /\ UNCHANGED <<status, visits, drops>>
      BY <1>9 DEF vars, server, page
    <2>2. TypeOK'
      BY <1>0, <2>1 DEF TypeOK
    <2>3. LogShape'
      BY <1>0, <2>1 DEF LogShape, Started, Completed, Failed, Done, Event
    <2>4. \A d \in Client : ClientInv(d)'
      BY <1>0, <2>1, OthersKept
    <2> QED
      BY <2>2, <2>3, <2>4 DEF StreamInv
  <1> QED
    BY <1>1, <1>3, <1>4, <1>5, <1>6, <1>7, <1>8, <1>9 DEF Next, Serve

\* The event bus, the stream and the page stay in order whatever happens.
THEOREM StreamInvariant == Spec => []StreamInv
  BY InitStream, StreamKept, PTL DEF Spec

\* Every variable of the event stream keeps to the values of its kind.
THEOREM StreamTypes == Spec => []TypeOK
  <1>1. StreamInv => TypeOK
    BY DEF StreamInv
  <1> QED
    BY <1>1, StreamInvariant, PTL

\* Whatever is replayed, sent twice or lost, a page shows an initial part of what
\* the run published, in its order and without repetition, and calls the run
\* complete when it shows all of it.
THEOREM PagesShowPrefixes == Spec => []ShownIsPrefix
  <1>1. ASSUME StreamInv
        PROVE  ShownIsPrefix
    <2> SUFFICES ASSUME NEW c \in Client
                 PROVE  /\ Len(shown[c]) <= Len(log)
                        /\ shown[c] = SubSeq(log, 1, Len(shown[c]))
                        /\ isComplete[c] => shown[c] = log /\ log[Len(log)] = Done
      BY DEF ShownIsPrefix
    <2> DEFINE s == Len(shown[c])
    <2>1. /\ log \in Seq(Events) /\ shown[c] \in Seq(Events)
          /\ s <= Len(log) /\ \A i \in 1..s : shown[c][i] = log[i]
          /\ isComplete[c] => s = Len(log) /\ log[Len(log)] = Done
      BY <1>1 DEF StreamInv, TypeOK, ClientInv, PageInOrder
    <2>2. s \in Nat /\ Len(log) \in Nat /\ \A i \in 1..s : log[i] \in Events
      BY <2>1
    <2>3. /\ SubSeq(log, 1, s) \in Seq(Events) /\ Len(SubSeq(log, 1, s)) = s
          /\ \A i \in 1..s : SubSeq(log, 1, s)[i] = log[i]
      <3>1. /\ SubSeq(log, 1, s) \in Seq(Events)
            /\ Len(SubSeq(log, 1, s)) = IF 1 <= s THEN s - 1 + 1 ELSE 0
            /\ \A i \in 1..(s - 1 + 1) : SubSeq(log, 1, s)[i] = log[1 + i - 1]
        BY <2>2, SubSeqProperties
      <3>2. (IF 1 <= s THEN s - 1 + 1 ELSE 0) = s /\ s - 1 + 1 = s
        BY <2>2
      <3>3. \A i \in 1..s : 1 + i - 1 = i
        BY <2>2
      <3> QED
        BY <3>1, <3>2, <3>3
    <2>4. shown[c] = SubSeq(log, 1, s)
      BY <2>1, <2>3, SeqEqual
    <2>5. isComplete[c] => shown[c] = log
      BY <2>1, SeqEqual
    <2> QED
      BY <2>1, <2>4, <2>5
  <1> QED
    BY <1>1, StreamInvariant, PTL

\* A page with an open stream misses no event, whenever in the run it connected:
\* each is shown, on the wire, queued or ahead of the replay.
THEOREM NoEventIsLost == Spec => []NothingLost
  <1>1. ASSUME StreamInv
        PROVE  NothingLost
    <2> SUFFICES ASSUME NEW c \in Client, source[c] = "open", NEW m \in DOMAIN log
                 PROVE  log[m] \in Entries(shown[c]) \cup Entries(wire[c])
                                     \cup Entries(queue[c]) \cup Ahead(c)
      BY DEF NothingLost, Entries
    <2>1. /\ TypeOK /\ ClientInv(c)
          /\ stream[c] \in {"replay", "live", "ended"}
      BY <1>1, ClientTypes DEF StreamInv, ClientInv, Connected
    <2>2. DOMAIN log = 1..Len(log) /\ Len(log) \in Nat /\ m \in Nat
      BY <2>1, LogIsList
    <2>3. CASE stream[c] = "replay"
      <3>1. pos[c] \in Nat
        BY <2>1, ClientTypes
      <3>2. m \in 1..(pos[c] - 1) \/ m \in pos[c]..Len(log)
        BY <2>2, <3>1
      <3>3. m \in 1..(pos[c] - 1) => log[m] \in Told(c)
        BY <2>1, <2>3 DEF ClientInv, SentSoFar
      <3>4. m \in pos[c]..Len(log) => log[m] \in Ahead(c)
        BY <2>3 DEF Ahead
      <3> QED
        BY <3>2, <3>3, <3>4 DEF Told
    <2>4. CASE stream[c] = "live"
      <3> DEFINE n == Len(log)
                 q == Len(queue[c])
      <3>1. /\ q <= n /\ \A j \in 1..q : queue[c][j] = log[n - q + j]
            /\ \A i \in 1..(n - q) : log[i] \in Told(c)
        BY <2>1, <2>4 DEF ClientInv, QueueIsSuffix, Registered, SentSoFar
      <3>2. q \in Nat /\ DOMAIN queue[c] = 1..q
        <4>1. queue[c] \in Seq(Events)
          BY <2>1, ClientTypes
        <4> QED
          BY <4>1
      <3> HIDE DEF n, q
      <3>3. m \in 1..(n - q) \/ (m - (n - q) \in 1..q /\ n - q + (m - (n - q)) = m)
        BY <2>2, <3>1, <3>2 DEF n
      <3>4. m - (n - q) \in 1..q => queue[c][m - (n - q)] \in Entries(queue[c])
        BY <3>2 DEF Entries
      <3>5. m \in 1..(n - q) \/ log[m] \in Entries(queue[c])
        BY <3>1, <3>3, <3>4
      <3> QED
        BY <3>1, <3>5 DEF Told
    <2>5. CASE stream[c] = "ended"
      BY <2>1, <2>5 DEF ClientInv, SentSoFar, Told
    <2> QED
      BY <2>1, <2>3, <2>4, <2>5
  <1> QED
    BY <1>1, StreamInvariant, PTL
=============================================================================
