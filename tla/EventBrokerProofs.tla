------------------------- MODULE EventBrokerProofs -------------------------
(***************************************************************************)
(* The safety theorems of EventBroker and Dashboard, for any number of     *)
(* dashboards, streams and requests and any buffer.  A channel is never    *)
(* closed twice because a stream is registered or shut, never both; a      *)
(* dashboard never receives an old number because what it has received,    *)
(* what its handler is writing and what is queued for it rise in this      *)
(* order.                                                                  *)
(***************************************************************************)
EXTENDS Dashboard, SequenceTheorems, TLAPS

\* A stream is registered or shut while its handler runs, and its handler is
\* the only one that serves its browsers.
Clients ==
    /\ registered \cap shut = {}
    /\ \A s \in Streams :
         step[s] = "idle" => /\ s \notin registered \cup shut
                             /\ queue[s] = <<>>
                             /\ \A b \in Browsers : conn[b] # s

\* The numbers in a channel rise up to the last one given.
Rising(s) ==
    \A i \in 1..Len(queue[s]) :
        /\ queue[s][i].seq <= nextSeq
        /\ \A j \in 1..Len(queue[s]) : i < j => queue[s][i].seq < queue[s][j].seq

\* What a handler writes is older than what is queued.
Ahead(s) ==
    step[s] = "write" =>
        /\ out[s].seq <= nextSeq
        /\ \A i \in 1..Len(queue[s]) : out[s].seq < queue[s][i].seq

\* What a browser shows is older than what its handler writes or has queued.
Shown(b, s) ==
    conn[b] = s =>
        /\ \A i \in 1..Len(queue[s]) : shown[b].seq < queue[s][i].seq
        /\ step[s] = "write" => shown[b].seq < out[s].seq

Numbers ==
    /\ \A s \in Streams : Rising(s) /\ Ahead(s)
    /\ \A b \in Browsers : shown[b].seq <= nextSeq
    /\ \A b \in Browsers, s \in Streams : Shown(b, s)

BrokerInv ==
    StreamTypeOK /\ Clients /\ NoPanic /\ RegisteredIsCurrent /\ Numbers

\* What taking the first element of a sequence leaves.
LEMMA TakeFacts ==
    ASSUME NEW q \in Seq(Events), q # <<>>
    PROVE  /\ Len(q) \in Nat \ {0}
           /\ Head(q) = q[1] /\ Head(q) \in Events
           /\ Tail(q) \in Seq(Events)
           /\ Len(Tail(q)) = Len(q) - 1
           /\ \A i \in 1..(Len(q) - 1) : Tail(q)[i] = q[i + 1]
           /\ Tail(q) = <<>> => Len(q) = 1
PROOF
  <1>1. Len(q) \in Nat \ {0} /\ Head(q) = q[1]
    BY EmptySeq
  <1>2. /\ Head(q) \in Events /\ Tail(q) \in Seq(Events)
        /\ Len(Tail(q)) = Len(q) - 1
        /\ \A i \in 1..(Len(q) - 1) : Tail(q)[i] = q[i + 1]
    BY HeadTailProperties
  <1>3. Tail(q) = <<>> => Len(Tail(q)) = 0
    BY EmptySeq
  <1>4. QED
    BY <1>1, <1>2, <1>3

\* A sequence of one event.
LEMMA SingleFacts ==
    ASSUME NEW e \in Events
    PROVE  /\ <<e>> \in Seq(Events)
           /\ Len(<<e>>) = 1 /\ <<e>>[1] = e /\ <<e>> # <<>>
PROOF OBVIOUS

\* The best-effort events are those that do not change the state.
LEMMA LossyKeepsState ==
    ASSUME state \in Live \cup Idle,
           \/ Start \/ Pause \/ Resume \/ Stopping \/ Chunk \/ Progress
           \/ EndStopped \/ EndFinished \/ EndFailed \/ Rest
    PROVE  /\ state' \in Live \cup Idle
           /\ Lossy(announced') => state' = state
PROOF
  BY DEF Start, Pause, Resume, Stopping, Chunk, Progress, EndStopped,
         EndFinished, EndFailed, Rest, Change, End, Live, Idle, Lossy

\* Nothing is open at first.
LEMMA BrokerInit == StreamInit => BrokerInv
PROOF
  <1> SUFFICES ASSUME StreamInit PROVE BrokerInv
    OBVIOUS
  <1>1. NoEvent \in Events
    BY DEF NoEvent, Events, Idle
  <1>2. StreamTypeOK
    <2>1. \A s \in Streams : queue[s] \in Seq(Events) /\ Len(queue[s]) = 0
      BY EmptySeq DEF StreamInit
    <2>2. queue \in [Streams -> Seq(Events)]
      BY <2>1 DEF StreamInit
    <2>3. \A s \in Streams : Len(queue[s]) <= BufferSize
      BY <2>1, StreamAssumption
    <2>4. QED
      BY <1>1, <2>2, <2>3 DEF StreamInit, Init, StreamTypeOK, Idle
  <1>3. Clients /\ NoPanic /\ RegisteredIsCurrent
    BY StreamAssumption DEF StreamInit, Clients, NoPanic, RegisteredIsCurrent
  <1>4. Numbers
    BY DEF StreamInit, Numbers, Rising, Ahead, Shown, NoEvent
  <1>5. QED
    BY <1>2, <1>3, <1>4 DEF BrokerInv

\* A publication reaches every client that stays registered, or changes no
\* state; who is disconnected is shut once.
LEMMA AnnounceKeeps == BrokerInv /\ Announce => BrokerInv'
PROOF
  <1> SUFFICES ASSUME BrokerInv, Announce PROVE BrokerInv'
    OBVIOUS
  <1> DEFINE e == Event(state')
  <1>1. /\ state' \in Live \cup Idle
        /\ Lossy(announced') => state' = state
    BY LossyKeepsState DEF Announce, BrokerInv, StreamTypeOK
  <1>2. /\ nextSeq \in Nat /\ nextSeq' = nextSeq + 1
        /\ e \in Events /\ e.seq = nextSeq + 1 /\ e.state = state'
    BY <1>1 DEF Announce, PublishEvent, Event, Events, BrokerInv, StreamTypeOK
  <1> HIDE DEF e
  <1>3. queue \in [Streams -> Seq(Events)] /\ BufferSize \in Nat \ {0}
    BY StreamAssumption DEF BrokerInv, StreamTypeOK
  <1>4. \A s \in Streams :
          queue'[s] = IF s \in registered /\ ~Full(s) THEN Append(queue[s], e)
                      ELSE queue[s]
    BY DEF Announce, PublishEvent, Queued, e
  <1>5. /\ registered' = registered \ Overflowing(announced')
        /\ shut' = shut \cup Overflowing(announced')
        /\ Overflowing(announced') \subseteq registered
    BY DEF Announce, PublishEvent, CloseChannels, Overflowing
  <1>6. ASSUME NEW s \in Streams
        PROVE  /\ Len(queue[s]) \in Nat
               /\ Append(queue[s], e) \in Seq(Events)
               /\ Append(queue[s], e) # <<>>
               /\ Len(Append(queue[s], e)) = Len(queue[s]) + 1
               /\ \A i \in 1..Len(queue[s]) : Append(queue[s], e)[i] = queue[s][i]
               /\ Append(queue[s], e)[Len(queue[s]) + 1] = e
    <2>1. queue[s] \in Seq(Events) /\ e \in Events
      BY <1>2, <1>3
    <2>2. QED
      BY <2>1, LenProperties, AppendProperties
  <1>7. StreamTypeOK'
    <2>1. queue' \in [Streams -> Seq(Events)]
      BY <1>3, <1>6 DEF Announce, PublishEvent, Queued, e
    <2>2. panicked' \in BOOLEAN
      BY DEF Announce, PublishEvent, CloseChannels
    <2>3. nextSeq' \in Nat
      BY <1>2
    <2>4. \A s \in Streams : Len(queue'[s]) <= BufferSize
      <3> TAKE s \in Streams
      <3>1. CASE s \in registered /\ ~Full(s)
        <4>1. ~(Len(queue[s]) >= BufferSize)
          BY <3>1 DEF Full
        <4>2. /\ Len(queue[s]) \in Nat /\ BufferSize \in Nat
              /\ Len(queue'[s]) = Len(queue[s]) + 1
          BY <1>3, <1>4, <1>6, <3>1
        <4>3. QED
          BY <4>1, <4>2
      <3>2. CASE ~(s \in registered /\ ~Full(s))
        BY <1>4, <3>2 DEF BrokerInv, StreamTypeOK
      <3>3. QED
        BY <3>1, <3>2
    <2>5. QED
      BY <1>1, <1>5, <2>1, <2>2, <2>3, <2>4
         DEF Announce, BrokerInv, StreamTypeOK, handlers, network
  <1>8. Clients'
    BY <1>4, <1>5 DEF Announce, handlers, network, BrokerInv, Clients
  <1>9. NoPanic'
    BY <1>5
       DEF Announce, PublishEvent, CloseChannels, BrokerInv, Clients, NoPanic
  <1>10. RegisteredIsCurrent'
    <2> SUFFICES ASSUME NEW s \in Streams, s \in registered'
                 PROVE  (Newest(s).state = state)'
      BY <1>7 DEF RegisteredIsCurrent, StreamTypeOK
    <2>1. s \in registered
      BY <1>5
    <2>2. CASE ~Full(s)
      <3>1. /\ queue'[s] = Append(queue[s], e)
            /\ queue'[s] # <<>> /\ queue'[s][Len(queue'[s])] = e
        BY <1>4, <1>6, <2>1, <2>2
      <3>2. QED
        BY <1>2, <3>1 DEF Newest
    <2>3. CASE Full(s)
      <3>1. Lossy(announced')
        BY <1>5, <2>1, <2>3 DEF Overflowing
      <3>2. queue'[s] = queue[s] /\ out' = out
        BY <1>4, <2>1, <2>3 DEF Announce, handlers
      <3>3. Newest(s)' = Newest(s)
        BY <3>2 DEF Newest
      <3>4. QED
        BY <1>1, <2>1, <3>1, <3>3 DEF BrokerInv, RegisteredIsCurrent
    <2>4. QED
      BY <2>2, <2>3
  <1>11. ASSUME NEW s \in Streams
         PROVE  /\ Len(queue[s]) \in Nat
                /\ \A i \in 1..Len(queue'[s]) :
                     \/ i \in 1..Len(queue[s]) /\ queue'[s][i] = queue[s][i]
                     \/ i = Len(queue[s]) + 1 /\ queue'[s][i].seq = nextSeq + 1
    <2>1. CASE queue'[s] = queue[s]
      BY <1>6, <2>1
    <2>2. CASE queue'[s] = Append(queue[s], e)
      BY <1>2, <1>6, <2>2
    <2>3. QED
      BY <1>4, <2>1, <2>2
  <1>12. ASSUME NEW s \in Streams
         PROVE  \A i \in 1..Len(queue[s]) : queue[s][i].seq \in Nat
    <2>1. \A i \in 1..Len(queue[s]) : queue[s][i] \in Events
      BY <1>3, ElementOfSeq
    <2>2. QED
      BY <2>1 DEF Events
  <1>14. \A s \in Streams : out[s].seq \in Nat
    BY DEF BrokerInv, StreamTypeOK, Events
  <1>15. \A b \in Browsers : shown[b].seq \in Nat
    BY DEF BrokerInv, StreamTypeOK, Events
  <1>16. UNCHANGED <<step, out, conn, shown>>
    BY DEF Announce, handlers, network
  <1>17. ASSUME NEW s \in Streams PROVE Rising(s)'
    <2>1. \A i \in 1..Len(queue[s]) :
            /\ queue[s][i].seq <= nextSeq
            /\ \A j \in 1..Len(queue[s]) : i < j => queue[s][i].seq < queue[s][j].seq
      BY DEF BrokerInv, Numbers, Rising
    <2>2. ASSUME NEW i \in 1..Len(queue'[s]) PROVE queue'[s][i].seq <= nextSeq'
      <3>1. nextSeq \in Nat /\ nextSeq' = nextSeq + 1
        BY <1>2
      <3>2. \/ i \in 1..Len(queue[s]) /\ queue'[s][i] = queue[s][i]
            \/ queue'[s][i].seq = nextSeq + 1
        BY <1>11
      <3>3. CASE i \in 1..Len(queue[s]) /\ queue'[s][i] = queue[s][i]
        <4>1. queue'[s][i].seq \in Nat /\ queue'[s][i].seq <= nextSeq
          BY <1>12, <2>1, <3>3
        <4>2. QED
          BY <3>1, <4>1
      <3>4. CASE queue'[s][i].seq = nextSeq + 1
        BY <3>1, <3>4
      <3>5. QED
        BY <3>2, <3>3, <3>4
    <2>3. ASSUME NEW i \in 1..Len(queue'[s]), NEW j \in 1..Len(queue'[s]), i < j
          PROVE  queue'[s][i].seq < queue'[s][j].seq
      <3>1. i \in 1..Len(queue[s]) /\ queue'[s][i] = queue[s][i]
        BY <1>11, <2>3
      <3>2. /\ queue[s][i].seq \in Nat /\ queue[s][i].seq <= nextSeq
            /\ nextSeq \in Nat
        BY <1>2, <1>12, <2>1, <3>1
      <3>3. CASE j \in 1..Len(queue[s]) /\ queue'[s][j] = queue[s][j]
        BY <2>1, <2>3, <3>1, <3>3
      <3>4. CASE queue'[s][j].seq = nextSeq + 1
        BY <3>1, <3>2, <3>4
      <3>5. QED
        BY <1>11, <3>3, <3>4
    <2>4. QED
      BY <2>2, <2>3 DEF Rising
  <1>18. ASSUME NEW s \in Streams PROVE Ahead(s)'
    <2>1. SUFFICES ASSUME step[s] = "write"
                   PROVE  /\ out[s].seq <= nextSeq'
                          /\ \A i \in 1..Len(queue'[s]) : out[s].seq < queue'[s][i].seq
      BY <1>16 DEF Ahead
    <2>2. /\ out[s].seq <= nextSeq
          /\ \A i \in 1..Len(queue[s]) : out[s].seq < queue[s][i].seq
      BY <2>1 DEF BrokerInv, Numbers, Ahead
    <2>3. /\ out[s].seq \in Nat /\ nextSeq \in Nat /\ nextSeq' = nextSeq + 1
      BY <1>2, <1>14
    <2>4. ASSUME NEW i \in 1..Len(queue'[s])
          PROVE  out[s].seq < queue'[s][i].seq
      <3>1. CASE i \in 1..Len(queue[s]) /\ queue'[s][i] = queue[s][i]
        BY <2>2, <3>1
      <3>2. CASE queue'[s][i].seq = nextSeq + 1
        BY <2>2, <2>3, <3>2
      <3>3. QED
        BY <1>11, <3>1, <3>2
    <2>5. QED
      BY <2>2, <2>3, <2>4
  <1>19. ASSUME NEW b \in Browsers, NEW s \in Streams PROVE Shown(b, s)'
    <2> SUFFICES ASSUME conn[b] = s
                 PROVE  /\ \A i \in 1..Len(queue'[s]) :
                             shown[b].seq < queue'[s][i].seq
                        /\ step[s] = "write" => shown[b].seq < out[s].seq
      BY <1>16 DEF Shown
    <2>1. /\ shown[b].seq <= nextSeq /\ shown[b].seq \in Nat
          /\ \A i \in 1..Len(queue[s]) : shown[b].seq < queue[s][i].seq
          /\ step[s] = "write" => shown[b].seq < out[s].seq
      BY <1>15 DEF BrokerInv, Numbers, Shown
    <2>2. ASSUME NEW i \in 1..Len(queue'[s])
          PROVE  shown[b].seq < queue'[s][i].seq
      <3>1. CASE i \in 1..Len(queue[s]) /\ queue'[s][i] = queue[s][i]
        BY <2>1, <3>1
      <3>2. CASE queue'[s][i].seq = nextSeq + 1
        BY <1>2, <2>1, <3>2
      <3>3. QED
        BY <1>11, <3>1, <3>2
    <2>3. QED
      BY <2>1, <2>2
  <1>20. \A b \in Browsers : shown'[b].seq <= nextSeq'
    BY <1>2, <1>15, <1>16 DEF BrokerInv, Numbers
  <1>21. QED
    BY <1>7, <1>8, <1>9, <1>10, <1>17, <1>18, <1>19, <1>20
       DEF BrokerInv, Numbers

\* A subscription puts a numbered snapshot of the current state at the head of
\* an empty channel.
LEMMA OpenKeeps ==
    ASSUME BrokerInv, NEW b \in Browsers, NEW s \in Streams, Open(b, s)
    PROVE  BrokerInv'
PROOF
  <1> DEFINE e == [seq |-> SnapshotSeq, state |-> state]
  <1>1. /\ nextSeq \in Nat /\ nextSeq' = nextSeq + 1
        /\ e \in Events /\ e.seq = nextSeq + 1 /\ e.state = state
    BY DEF Open, SnapshotSeq, Events, BrokerInv, StreamTypeOK
  <1>2. queue' = [queue EXCEPT ![s] = <<e>>]
    BY DEF Open
  <1> HIDE DEF e
  <1>3. /\ <<e>> \in Seq(Events) /\ Len(<<e>>) = 1 /\ <<e>>[1] = e
        /\ <<e>> # <<>>
    BY <1>1, SingleFacts
  <1>4. /\ queue \in [Streams -> Seq(Events)] /\ queue' \in [Streams -> Seq(Events)]
        /\ queue'[s] = <<e>>
        /\ \A t \in Streams \ {s} : queue'[t] = queue[t]
    BY <1>2, <1>3 DEF BrokerInv, StreamTypeOK
  <1>5. /\ step \in [Streams -> {"idle", "select", "write", "leave"}]
        /\ step[s] = "idle" /\ step'[s] = "select"
        /\ \A t \in Streams \ {s} : step'[t] = step[t]
        /\ step' \in [Streams -> {"idle", "select", "write", "leave"}]
    BY DEF Open, Goto, BrokerInv, StreamTypeOK
  <1>6. /\ conn' \in [Browsers -> Streams \cup {NoStream}]
        /\ conn'[b] = s /\ conn[b] = NoStream
        /\ \A a \in Browsers \ {b} : conn'[a] = conn[a]
        /\ \A a \in Browsers : conn[a] # s
    BY DEF Open, BrokerInv, StreamTypeOK, Clients
  <1>7. StreamTypeOK'
    <2>1. \A t \in Streams : Len(queue'[t]) <= BufferSize
      <3>1. Len(queue'[s]) <= BufferSize
        BY <1>3, <1>4, StreamAssumption
      <3>2. QED
        BY <1>4, <3>1 DEF BrokerInv, StreamTypeOK
    <2>2. QED
      BY <1>1, <1>4, <1>5, <1>6, <2>1
         DEF Open, lifecycle, BrokerInv, StreamTypeOK
  <1>8. Clients'
    BY <1>4, <1>5, <1>6, StreamAssumption DEF Open, BrokerInv, Clients
  <1>9. NoPanic'
    BY DEF Open, BrokerInv, NoPanic
  <1>10. RegisteredIsCurrent'
    BY <1>1, <1>3, <1>4
       DEF Open, lifecycle, BrokerInv, RegisteredIsCurrent, Newest
  <1>11. ASSUME NEW t \in Streams PROVE Rising(t)' /\ Ahead(t)'
    <2>1. CASE t = s
      BY <1>1, <1>3, <1>4, <1>5, <2>1 DEF Rising, Ahead
    <2>2. CASE t # s
      <3>1. \A i \in 1..Len(queue[t]) : queue[t][i].seq \in Nat
        <4>1. queue[t] \in Seq(Events)
          BY <1>4
        <4>2. \A i \in 1..Len(queue[t]) : queue[t][i] \in Events
          BY <4>1, ElementOfSeq
        <4>3. QED
          BY <4>2 DEF Events
      <3>2. out[t].seq \in Nat
        BY DEF BrokerInv, StreamTypeOK, Events
      <3>3. Rising(t)'
        <4>1. queue'[t] = queue[t] /\ nextSeq \in Nat /\ nextSeq' = nextSeq + 1
          BY <1>1, <1>4, <2>2
        <4>2. Rising(t)
          BY DEF BrokerInv, Numbers
        <4>3. QED
          BY <3>1, <4>1, <4>2 DEF Rising
      <3>4. Ahead(t)'
        BY <1>1, <1>4, <1>5, <2>2, <3>2 DEF Open, BrokerInv, Numbers, Ahead
      <3>5. QED
        BY <3>3, <3>4
    <2>3. QED
      BY <2>1, <2>2
  <1>12. ASSUME NEW a \in Browsers
         PROVE  shown'[a].seq <= nextSeq /\ shown'[a].seq \in Nat
    BY DEF Open, BrokerInv, StreamTypeOK, Numbers, Events
  <1>13. ASSUME NEW a \in Browsers, NEW t \in Streams PROVE Shown(a, t)'
    <2>1. CASE t = s
      BY <1>1, <1>3, <1>4, <1>5, <1>12, <2>1 DEF Shown
    <2>2. CASE t # s
      BY <1>4, <1>5, <1>6, <2>2 DEF Open, BrokerInv, Numbers, Shown
    <2>3. QED
      BY <2>1, <2>2
  <1>14. \A a \in Browsers : shown'[a].seq <= nextSeq'
    BY <1>1, <1>12
  <1>15. QED
    BY <1>7, <1>8, <1>9, <1>10, <1>11, <1>13, <1>14 DEF BrokerInv, Numbers

\* The handler takes the oldest event, and the rest is newer.
LEMMA TakeKeeps ==
    ASSUME BrokerInv, NEW s \in Streams, Take(s)
    PROVE  BrokerInv'
PROOF
  <1>1. queue[s] \in Seq(Events) /\ queue[s] # <<>>
    BY DEF Take, BrokerInv, StreamTypeOK
  <1>2. /\ Len(queue[s]) \in Nat \ {0}
        /\ Head(queue[s]) = queue[s][1] /\ Head(queue[s]) \in Events
        /\ Tail(queue[s]) \in Seq(Events)
        /\ Len(Tail(queue[s])) = Len(queue[s]) - 1
        /\ \A i \in 1..(Len(queue[s]) - 1) : Tail(queue[s])[i] = queue[s][i + 1]
        /\ Tail(queue[s]) = <<>> => Len(queue[s]) = 1
    BY <1>1, TakeFacts
  <1>3. /\ queue' \in [Streams -> Seq(Events)]
        /\ queue'[s] = Tail(queue[s])
        /\ \A t \in Streams \ {s} : queue'[t] = queue[t]
    BY <1>2 DEF Take, BrokerInv, StreamTypeOK
  <1>4. /\ out' \in [Streams -> Events]
        /\ out'[s] = queue[s][1]
        /\ \A t \in Streams \ {s} : out'[t] = out[t]
    BY <1>2 DEF Take, BrokerInv, StreamTypeOK
  <1>5. /\ step' \in [Streams -> {"idle", "select", "write", "leave"}]
        /\ step'[s] = "write"
        /\ \A t \in Streams \ {s} : step'[t] = step[t]
    BY DEF Take, Goto, BrokerInv, StreamTypeOK
  <1>6. UNCHANGED <<state, nextSeq, registered, shut, panicked, serving, conn, shown>>
    BY DEF Take, lifecycle, network
  <1>7. StreamTypeOK'
    <2>1. \A t \in Streams : Len(queue'[t]) <= BufferSize
      <3>1. Len(queue[s]) <= BufferSize /\ BufferSize \in Nat
        BY StreamAssumption DEF BrokerInv, StreamTypeOK
      <3>2. Len(queue'[s]) <= BufferSize
        BY <1>2, <1>3, <3>1
      <3>3. QED
        BY <1>3, <3>2 DEF BrokerInv, StreamTypeOK
    <2>2. QED
      BY <1>3, <1>4, <1>5, <1>6, <2>1 DEF BrokerInv, StreamTypeOK
  <1>8. Clients'
    BY <1>3, <1>5, <1>6 DEF BrokerInv, Clients, Take
  <1>9. NoPanic'
    BY <1>6 DEF BrokerInv, NoPanic
  <1>10. RegisteredIsCurrent'
    <2> SUFFICES ASSUME NEW t \in Streams, t \in registered
                 PROVE  (Newest(t).state = state)'
      BY <1>6 DEF RegisteredIsCurrent, BrokerInv, StreamTypeOK
    <2>1. Newest(t).state = state
      BY DEF BrokerInv, RegisteredIsCurrent
    <2>2. CASE t # s
      BY <1>3, <1>4, <1>6, <2>1, <2>2 DEF Newest
    <2>3. CASE t = s /\ Tail(queue[s]) = <<>>
      BY <1>1, <1>2, <1>3, <1>4, <1>6, <2>1, <2>3 DEF Newest
    <2>4. CASE t = s /\ Tail(queue[s]) # <<>>
      <3>1. Len(Tail(queue[s])) \in Nat \ {0}
        BY <1>2, <2>4, EmptySeq
      <3>2. Tail(queue[s])[Len(Tail(queue[s]))] = queue[s][Len(queue[s])]
        BY <1>2, <3>1
      <3>3. QED
        BY <1>1, <1>3, <1>6, <2>1, <2>4, <3>2 DEF Newest
    <2>5. QED
      BY <2>2, <2>3, <2>4
  <1>11. \A i \in 1..Len(queue'[s]) :
           i + 1 \in 1..Len(queue[s]) /\ queue'[s][i] = queue[s][i + 1]
    BY <1>2, <1>3
  <1>12. Rising(s) /\ \A b \in Browsers : Shown(b, s)
    BY DEF BrokerInv, Numbers
  <1>13. 1 \in 1..Len(queue[s])
    BY <1>2
  <1>14. ASSUME NEW t \in Streams PROVE Rising(t)' /\ Ahead(t)'
    <2>1. CASE t = s
      <3>1. Rising(s)'
        <4>1. \A i \in 1..Len(queue'[s]) : queue'[s][i].seq <= nextSeq
          BY <1>11, <1>12 DEF Rising
        <4>2. ASSUME NEW i \in 1..Len(queue'[s]), NEW j \in 1..Len(queue'[s]),
                     i < j
              PROVE  queue'[s][i].seq < queue'[s][j].seq
          <5>1. i + 1 < j + 1
            BY <4>2
          <5>2. QED
            BY <1>11, <1>12, <5>1 DEF Rising
        <4>3. QED
          BY <1>6, <4>1, <4>2 DEF Rising
      <3>2. Ahead(s)'
        <4>1. ASSUME NEW i \in 1..Len(queue'[s])
              PROVE  queue[s][1].seq < queue'[s][i].seq
          <5>1. 1 < i + 1
            BY <4>1
          <5>2. QED
            BY <1>11, <1>12, <1>13, <5>1 DEF Rising
        <4>2. queue[s][1].seq <= nextSeq
          BY <1>12, <1>13 DEF Rising
        <4>3. QED
          BY <1>4, <1>6, <4>1, <4>2 DEF Ahead
      <3>3. QED
        BY <2>1, <3>1, <3>2
    <2>2. CASE t # s
      BY <1>3, <1>4, <1>5, <1>6, <2>2 DEF BrokerInv, Numbers, Rising, Ahead
    <2>3. QED
      BY <2>1, <2>2
  <1>15. ASSUME NEW b \in Browsers, NEW t \in Streams PROVE Shown(b, t)'
    <2>1. CASE t = s
      BY <1>4, <1>6, <1>11, <1>12, <1>13, <2>1 DEF Shown
    <2>2. CASE t # s
      <3>1. /\ queue'[t] = queue[t] /\ out'[t] = out[t] /\ step'[t] = step[t]
            /\ conn'[b] = conn[b] /\ shown'[b] = shown[b]
        BY <1>3, <1>4, <1>5, <1>6, <2>2
      <3>2. Shown(b, t)
        BY DEF BrokerInv, Numbers
      <3>3. QED
        BY <3>1, <3>2 DEF Shown
    <2>3. QED
      BY <2>1, <2>2
  <1>16. QED
    BY <1>6, <1>7, <1>8, <1>9, <1>10, <1>14, <1>15 DEF BrokerInv, Numbers

\* A browser that receives an event shows one newer than before.
LEMMA DeliverKeeps ==
    ASSUME BrokerInv, NEW s \in Streams, Deliver(s)
    PROVE  BrokerInv'
PROOF
  <1>1. /\ step[s] = "write" /\ step'[s] = "select"
        /\ \A t \in Streams \ {s} : step'[t] = step[t]
        /\ step' \in [Streams -> {"idle", "select", "write", "leave"}]
    BY DEF Deliver, Goto, BrokerInv, StreamTypeOK
  <1>2. \A b \in Browsers : shown'[b] = IF conn[b] = s THEN out[s] ELSE shown[b]
    BY DEF Deliver
  <1>3. UNCHANGED <<state, nextSeq, registered, queue, shut, panicked, out, serving, conn>>
    BY DEF Deliver, lifecycle, broker
  <1>4. StreamTypeOK'
    BY <1>1, <1>3 DEF Deliver, BrokerInv, StreamTypeOK
  <1>5. Clients' /\ NoPanic' /\ RegisteredIsCurrent'
    BY <1>1, <1>3
       DEF BrokerInv, Clients, NoPanic, RegisteredIsCurrent, Newest
  <1>6. ASSUME NEW t \in Streams PROVE Rising(t)' /\ Ahead(t)'
    BY <1>1, <1>3 DEF BrokerInv, Numbers, Rising, Ahead
  <1>7. Ahead(s)
    BY DEF BrokerInv, Numbers
  <1>8. ASSUME NEW b \in Browsers, NEW t \in Streams PROVE Shown(b, t)'
    <2>1. CASE conn[b] = s
      BY <1>1, <1>2, <1>3, <1>7, <2>1 DEF Shown, Ahead
    <2>2. CASE conn[b] # s
      BY <1>1, <1>2, <1>3, <2>2 DEF BrokerInv, Numbers, Shown
    <2>3. QED
      BY <2>1, <2>2
  <1>9. \A b \in Browsers : shown'[b].seq <= nextSeq'
    BY <1>1, <1>2, <1>3, <1>7 DEF BrokerInv, Numbers, Ahead
  <1>10. QED
    BY <1>4, <1>5, <1>6, <1>8, <1>9 DEF BrokerInv, Numbers

\* A handler that leaves serves nobody any more.
LEMMA LeaveKeeps ==
    ASSUME BrokerInv, NEW s \in Streams, Leave(s)
    PROVE  BrokerInv'
PROOF
  <1>1. /\ step[s] \in {"select", "write"} /\ step'[s] = "leave"
        /\ \A t \in Streams \ {s} : step'[t] = step[t]
        /\ step' \in [Streams -> {"idle", "select", "write", "leave"}]
    BY DEF Leave, Goto, BrokerInv, StreamTypeOK
  <1>2. UNCHANGED <<state, nextSeq, registered, queue, shut, panicked, out, serving, conn, shown>>
    BY DEF Leave, lifecycle, broker, network
  <1>3. StreamTypeOK'
    BY <1>1, <1>2 DEF BrokerInv, StreamTypeOK
  <1>4. Clients' /\ NoPanic' /\ RegisteredIsCurrent'
    BY <1>1, <1>2
       DEF BrokerInv, Clients, NoPanic, RegisteredIsCurrent, Newest
  <1>5. Numbers'
    BY <1>1, <1>2 DEF BrokerInv, Numbers, Rising, Ahead, Shown
  <1>6. QED
    BY <1>3, <1>4, <1>5 DEF BrokerInv

\* A handler that ends closes its channel only if the publisher has not.
LEMMA UnsubscribeKeeps ==
    ASSUME BrokerInv, NEW s \in Streams, Unsubscribe(s)
    PROVE  BrokerInv'
PROOF
  <1>1. /\ step'[s] = "idle"
        /\ \A t \in Streams \ {s} : step'[t] = step[t]
        /\ step' \in [Streams -> {"idle", "select", "write", "leave"}]
    BY DEF Unsubscribe, Goto, BrokerInv, StreamTypeOK
  <1>2. /\ registered' = registered \ {s} /\ shut' = shut \ {s}
        /\ panicked' \in BOOLEAN /\ NoPanic'
    <2>1. registered' = registered \ {s} /\ shut' = shut \ {s}
      BY DEF Unsubscribe, ToClose
    <2>2. ~panicked /\ ToClose(s) \cap shut = {}
      BY DEF ToClose, BrokerInv, Clients, NoPanic
    <2>3. panicked' = (panicked \/ ToClose(s) \cap shut # {})
      BY DEF Unsubscribe
    <2>4. QED
      BY <2>1, <2>2, <2>3 DEF NoPanic
  <1>3. /\ queue' \in [Streams -> Seq(Events)]
        /\ queue'[s] = <<>> /\ Len(queue'[s]) = 0
        /\ \A t \in Streams \ {s} : queue'[t] = queue[t]
    BY EmptySeq DEF Unsubscribe, BrokerInv, StreamTypeOK
  <1>4. /\ out' \in [Streams -> Events]
        /\ \A t \in Streams \ {s} : out'[t] = out[t]
    BY DEF Unsubscribe, NoEvent, Events, Idle, BrokerInv, StreamTypeOK
  <1>5. /\ conn' \in [Browsers -> Streams \cup {NoStream}]
        /\ \A b \in Browsers : conn'[b] # s
        /\ \A b \in Browsers, t \in Streams : conn'[b] = t => conn[b] = t
    BY StreamAssumption DEF Unsubscribe, BrokerInv, StreamTypeOK
  <1>6. UNCHANGED <<state, nextSeq, serving, shown>>
    BY DEF Unsubscribe, lifecycle
  <1>7. StreamTypeOK'
    <2>1. \A t \in Streams : Len(queue'[t]) <= BufferSize
      BY <1>3, StreamAssumption DEF BrokerInv, StreamTypeOK
    <2>2. /\ state' \in Live \cup Idle /\ nextSeq' \in Nat
          /\ serving' \in BOOLEAN /\ shown' \in [Browsers -> Events]
      BY <1>6 DEF BrokerInv, StreamTypeOK
    <2>3. registered' \subseteq Streams /\ shut' \subseteq Streams
      BY <1>2 DEF BrokerInv, StreamTypeOK
    <2>4. /\ panicked' \in BOOLEAN
          /\ queue' \in [Streams -> Seq(Events)]
          /\ out' \in [Streams -> Events]
          /\ step' \in [Streams -> {"idle", "select", "write", "leave"}]
          /\ conn' \in [Browsers -> Streams \cup {NoStream}]
      BY <1>1, <1>2, <1>3, <1>4, <1>5
    <2>5. QED
      BY <2>1, <2>2, <2>3, <2>4 DEF StreamTypeOK
  <1>8. Clients' /\ NoPanic'
    <2>1. registered' \cap shut' = {}
      BY <1>2 DEF BrokerInv, Clients
    <2>2. ASSUME NEW t \in Streams, step'[t] = "idle"
          PROVE  /\ t \notin registered' \cup shut' /\ queue'[t] = <<>>
                 /\ \A b \in Browsers : conn'[b] # t
      <3>1. CASE t = s
        BY <1>2, <1>3, <1>5, <3>1
      <3>2. CASE t # s
        <4>1. /\ t \notin registered \cup shut /\ queue[t] = <<>>
              /\ \A b \in Browsers : conn[b] # t
          BY <1>1, <2>2, <3>2 DEF BrokerInv, Clients
        <4>2. QED
          BY <1>2, <1>3, <1>5, <3>2, <4>1
      <3>3. QED
        BY <3>1, <3>2
    <2>3. QED
      BY <1>2, <2>1, <2>2 DEF Clients
  <1>9. RegisteredIsCurrent'
    BY <1>2, <1>3, <1>4, <1>6
       DEF BrokerInv, StreamTypeOK, RegisteredIsCurrent, Newest
  <1>10. Numbers'
    <2>1. ASSUME NEW t \in Streams PROVE Rising(t)' /\ Ahead(t)'
      <3>1. CASE t = s
        <4>1. 1..Len(queue'[s]) = {}
          BY <1>3
        <4>2. QED
          BY <1>1, <3>1, <4>1 DEF Rising, Ahead
      <3>2. CASE t # s
        <4>1. /\ queue'[t] = queue[t] /\ out'[t] = out[t]
              /\ step'[t] = step[t] /\ nextSeq' = nextSeq
          BY <1>1, <1>3, <1>4, <1>6, <3>2
        <4>2. Rising(t) /\ Ahead(t)
          BY DEF BrokerInv, Numbers
        <4>3. QED
          BY <4>1, <4>2 DEF Rising, Ahead
      <3>3. QED
        BY <3>1, <3>2
    <2>2. ASSUME NEW b \in Browsers, NEW t \in Streams PROVE Shown(b, t)'
      <3>1. CASE t = s
        BY <1>5, <3>1 DEF Shown
      <3>2. CASE t # s
        <4>1. /\ queue'[t] = queue[t] /\ out'[t] = out[t]
              /\ step'[t] = step[t] /\ shown'[b] = shown[b]
              /\ conn'[b] = t => conn[b] = t
          BY <1>1, <1>3, <1>4, <1>5, <1>6, <3>2
        <4>2. Shown(b, t)
          BY DEF BrokerInv, Numbers
        <4>3. QED
          BY <4>1, <4>2 DEF Shown
      <3>3. QED
        BY <3>1, <3>2
    <2>3. QED
      BY <1>6, <2>1, <2>2 DEF BrokerInv, Numbers
  <1>11. QED
    BY <1>7, <1>8, <1>9, <1>10 DEF BrokerInv

\* What the environment does adds nothing to any channel.
LEMMA EnvironmentKeeps ==
    BrokerInv /\ (\/ \E b \in Browsers : Disconnect(b)
                  \/ BeginShutdown \/ CancelServe \/ UNCHANGED vars) => BrokerInv'
PROOF
  <1> SUFFICES ASSUME BrokerInv,
                      \/ \E b \in Browsers : Disconnect(b)
                      \/ BeginShutdown \/ CancelServe \/ UNCHANGED vars
               PROVE  BrokerInv'
    OBVIOUS
  <1>1. /\ UNCHANGED <<state, nextSeq, registered, queue, shut, panicked, step, out, shown>>
        /\ serving' \in BOOLEAN
        /\ conn' \in [Browsers -> Streams \cup {NoStream}]
        /\ \A b \in Browsers, t \in Streams : conn'[b] = t => conn[b] = t
    BY StreamAssumption
       DEF Disconnect, BeginShutdown, Close, CancelServe, vars, lifecycle, broker,
           handlers, network, BrokerInv, StreamTypeOK
  <1>2. StreamTypeOK'
    BY <1>1 DEF BrokerInv, StreamTypeOK
  <1>3. Clients' /\ NoPanic' /\ RegisteredIsCurrent'
    BY <1>1 DEF BrokerInv, Clients, NoPanic, RegisteredIsCurrent, Newest
  <1>4. Numbers'
    BY <1>1 DEF BrokerInv, Numbers, Rising, Ahead, Shown
  <1>5. QED
    BY <1>2, <1>3, <1>4 DEF BrokerInv

\* Every step of the stream keeps the invariant.
LEMMA BrokerNext == BrokerInv /\ [StreamNext]_vars => BrokerInv'
PROOF
  <1> SUFFICES ASSUME BrokerInv, [StreamNext]_vars PROVE BrokerInv'
    OBVIOUS
  <1>1. CASE Announce
    BY <1>1, AnnounceKeeps
  <1>2. CASE \E s \in Streams : StreamStep(s)
    BY <1>2, TakeKeeps, DeliverKeeps, LeaveKeeps, UnsubscribeKeeps DEF StreamStep
  <1>3. CASE \E b \in Browsers : BrowserStep(b)
    BY <1>3, OpenKeeps DEF BrowserStep
  <1>4. QED
    BY <1>1, <1>2, <1>3, EnvironmentKeeps DEF StreamNext


\* The invariant holds in every state.
THEOREM BrokerInvariant == StreamSpec => []BrokerInv
PROOF
  BY BrokerInit, BrokerNext, PTL DEF StreamSpec

\* Every variable has its type, and no channel holds more than its buffer.
THEOREM StreamTypeCorrect == StreamSpec => []StreamTypeOK
PROOF
  <1>1. BrokerInv => StreamTypeOK
    BY DEF BrokerInv
  <1>2. QED
    BY <1>1, BrokerInvariant, PTL

\* Publisher and handlers may give a client up in any order: no channel is ever
\* closed twice or sent on when closed, which would bring the process down.
THEOREM BrokerNeverPanics == StreamSpec => []NoPanic
PROOF
  <1>1. BrokerInv => NoPanic
    BY DEF BrokerInv
  <1>2. QED
    BY <1>1, BrokerInvariant, PTL

\* A client that is still registered has the current state in its channel or
\* has taken it, for any size of the channel and any number of dropped events.
THEOREM ClientsAreCurrent == StreamSpec => []RegisteredIsCurrent
PROOF
  <1>1. BrokerInv => RegisteredIsCurrent
    BY DEF BrokerInv
  <1>2. QED
    BY <1>1, BrokerInvariant, PTL

\* Every browser receives rising numbers, from one connection to the next.
THEOREM DeliveriesRise == StreamSpec => NumbersRise
PROOF
  <1>1. ASSUME BrokerInv, [StreamNext]_vars,
               NEW s \in Streams, NEW b \in Browsers,
               conn[b] = s, step[s] = "write", step'[s] = "select"
        PROVE  shown'[b].seq > shown[b].seq
    <2>1. Deliver(s)
      <3>1. step \in [Streams -> {"idle", "select", "write", "leave"}]
        BY <1>1 DEF BrokerInv, StreamTypeOK
      <3>2. \A t \in Streams : ~Take(t) /\ ~Leave(t) /\ ~Unsubscribe(t)
        BY <1>1, <3>1 DEF Take, Leave, Unsubscribe, Goto
      <3>3. \A t \in Streams, a \in Browsers : ~Open(a, t)
        BY <1>1, <3>1 DEF Open, Goto
      <3>4. \A t \in Streams \ {s} : ~Deliver(t)
        BY <1>1, <3>1 DEF Deliver, Goto
      <3>5. ~Announce /\ ~BeginShutdown /\ ~CancelServe /\ ~UNCHANGED vars
              /\ \A a \in Browsers : ~Disconnect(a)
        BY <1>1
           DEF Announce, BeginShutdown, CancelServe, Disconnect, vars, handlers
      <3>6. QED
        BY <1>1, <3>2, <3>3, <3>4, <3>5 DEF StreamNext, StreamStep, BrowserStep
    <2>2. shown'[b] = out[s] /\ shown[b].seq < out[s].seq
      BY <1>1, <2>1 DEF Deliver, BrokerInv, Numbers, Shown
    <2>3. shown[b].seq \in Nat /\ out[s].seq \in Nat
      BY <1>1 DEF BrokerInv, StreamTypeOK, Events
    <2>4. QED
      BY <2>2, <2>3
  <1>2. BrokerInv /\ [StreamNext]_vars =>
          [\A s \in Streams, b \in Browsers :
             conn[b] = s /\ step[s] = "write" /\ step'[s] = "select" =>
               shown'[b].seq > shown[b].seq]_vars
    BY <1>1
  <1>3. QED
    BY <1>2, BrokerInvariant, PTL DEF StreamSpec, NumbersRise
-----------------------------------------------------------------------------
(* The panel of the dashboard *)

\* Requests and their responses leave the stream alone.
LEMMA DashStepIsStreamStep == [DashNext]_dashVars => [StreamNext]_vars
PROOF
  <1>1. ASSUME NEW s \in Streams, Take(s) \/ Leave(s) \/ Unsubscribe(s) \/ RenderEvent(s)
        PROVE  StreamNext
    BY <1>1 DEF RenderEvent, StreamNext, StreamStep
  <1>2. ASSUME NEW b \in Browsers, NEW r \in Requests, RequestStep(b, r)
        PROVE  Announce \/ UNCHANGED vars
    BY <1>2 DEF RequestStep, Click, CommandDone, SnapshotTaken, RenderResponse,
                Discard
  <1>3. QED
    BY <1>1, <1>2 DEF DashNext, StreamNext, dashVars

\* The dashboards are those of EventBroker: its theorems hold of them.
THEOREM DashboardStreams == DashSpec => StreamSpec
PROOF
  <1>1. DashInit => StreamInit
    BY DEF DashInit
  <1>2. QED
    BY <1>1, DashStepIsStreamStep, PTL DEF DashSpec, StreamSpec

\* Numbers are given in order.
LEMMA NumbersGrow ==
    BrokerInv /\ [StreamNext]_vars => nextSeq' \in Nat /\ nextSeq' >= nextSeq
PROOF
  <1> SUFFICES ASSUME BrokerInv, [StreamNext]_vars
               PROVE  nextSeq' \in Nat /\ nextSeq' >= nextSeq
    OBVIOUS
  <1>1. nextSeq \in Nat
    BY DEF BrokerInv, StreamTypeOK
  <1>2. nextSeq' \in {nextSeq, nextSeq + 1}
    BY DEF StreamNext, Announce, PublishEvent, StreamStep, Take, Deliver, Leave,
           Unsubscribe, BrowserStep, Open, SnapshotSeq, Disconnect, BeginShutdown,
           CancelServe, vars, broker
  <1>3. QED
    BY <1>1, <1>2

\* A response is at least as new as the event its browser showed when it was
\* asked for.
Answers ==
    /\ panel \in [Browsers -> Events]
    /\ answer \in [Browsers -> [Requests ->
         [at : {"none", "asked", "sent"}, since : Nat, snap : Events]]]
    /\ \A b \in Browsers, r \in Requests :
         /\ answer[b][r].since <= nextSeq
         /\ answer[b][r].at = "sent" =>
              answer[b][r].since <= answer[b][r].snap.seq

\* What a request does to its answer.
LEMMA RequestKeeps ==
    ASSUME BrokerInv, Answers, StreamTypeOK', NEW b \in Browsers, NEW r \in Requests,
           RequestStep(b, r)
    PROVE  Answers'
PROOF
  <1> DEFINE A == [at : {"none", "asked", "sent"}, since : Nat,
                   snap : Events]
  <1>1. nextSeq \in Nat /\ nextSeq' \in Nat /\ nextSeq' >= nextSeq
    <2>1. [DashNext]_dashVars
      BY DEF DashNext
    <2>2. QED
      BY <2>1, DashStepIsStreamStep, NumbersGrow DEF BrokerInv, StreamTypeOK
  <1>2. PICK a \in A : /\ answer' = [answer EXCEPT ![b][r] = a]
                       /\ a.since <= nextSeq'
                       /\ a.at = "sent" => a.since <= a.snap.seq
    <2>1. CASE Click(b, r)
      <3>1. shown[b].seq \in Nat /\ shown[b].seq <= nextSeq
        BY DEF BrokerInv, StreamTypeOK, Numbers, Events
      <3>2. Asked(b) \in A /\ Asked(b).since <= nextSeq' /\ Asked(b).at # "sent"
        BY <1>1, <3>1 DEF Asked, Events, NoEvent, Idle
      <3>3. answer' = [answer EXCEPT ![b][r] = Asked(b)]
        BY <2>1 DEF Click, SetAnswer
      <3> HIDE DEF A
      <3>4. QED
        BY <3>2, <3>3
    <2>2. CASE RenderResponse(b, r) \/ Discard(b, r)
      <3>1. Free \in A /\ Free.since <= nextSeq' /\ Free.at # "sent"
        BY <1>1 DEF Free, Events, NoEvent, Idle
      <3>2. answer' = [answer EXCEPT ![b][r] = Free]
        BY <2>2 DEF RenderResponse, Discard, SetAnswer
      <3> HIDE DEF A
      <3>3. QED
        BY <3>1, <3>2
    <2>3. ASSUME NEW snap \in Events,
                 snap.seq >= nextSeq, Send(b, r, snap)
          PROVE  \E a \in A : /\ answer' = [answer EXCEPT ![b][r] = a]
                              /\ a.since <= nextSeq'
                              /\ a.at = "sent" => a.since <= a.snap.seq
      <3> DEFINE old == answer[b][r]
                 new == [at |-> "sent", since |-> old.since, snap |-> snap]
      <3>1. old \in A /\ old.since <= nextSeq
        BY DEF Answers
      <3>2. answer' = [answer EXCEPT ![b][r] = new]
        BY <2>3 DEF Send, SetAnswer
      <3>3. new \in A /\ new.since <= nextSeq' /\ new.since <= new.snap.seq
        BY <1>1, <2>3, <3>1 DEF Events
      <3>4. QED
        BY <3>2, <3>3
    <2>4. CASE CommandDone(b, r)
      <3>1. state' \in Live \cup Idle
        BY DEF StreamTypeOK
      <3>2. Snapshot(state', nextSeq') \in Events
              /\ Snapshot(state', nextSeq').seq >= nextSeq
        BY <1>1, <3>1 DEF Snapshot, Events
      <3>3. QED
        BY <2>3, <2>4, <3>2 DEF CommandDone, SnapshotAfter
    <2>5. CASE SnapshotTaken(b, r)
      <3>1. state \in Live \cup Idle
        BY DEF BrokerInv, StreamTypeOK
      <3>2. Snapshot(state, nextSeq) \in Events
              /\ Snapshot(state, nextSeq).seq >= nextSeq
        BY <1>1, <3>1 DEF Snapshot, Events
      <3>3. QED
        BY <2>3, <2>5, <3>2 DEF SnapshotTaken
    <2>6. QED
      BY <2>1, <2>2, <2>4, <2>5 DEF RequestStep
  <1>3. answer' \in [Browsers -> [Requests -> A]]
    BY <1>2 DEF Answers
  <1>4. ASSUME NEW c \in Browsers, NEW q \in Requests
        PROVE  /\ answer'[c][q].since <= nextSeq'
               /\ answer'[c][q].at = "sent" =>
                    answer'[c][q].since <= answer'[c][q].snap.seq
    <2>1. CASE c = b /\ q = r
      BY <1>2, <2>1 DEF Answers
    <2>2. CASE ~(c = b /\ q = r)
      <3>1. answer'[c][q] = answer[c][q]
        BY <1>2, <2>2 DEF Answers
      <3>2. answer[c][q] \in A /\ answer[c][q].since <= nextSeq
        BY DEF Answers
      <3>3. QED
        BY <1>1, <3>1, <3>2 DEF Answers
    <2>3. QED
      BY <2>1, <2>2
  <1>5. panel' \in [Browsers -> Events]
    <2>1. answer[b][r].snap \in Events
      BY DEF Answers
    <2>2. QED
      BY <2>1 DEF Answers, RequestStep, Click, CommandDone, SnapshotTaken,
                  RenderResponse, Discard
  <1>6. QED
    BY <1>3, <1>4, <1>5 DEF Answers

\* No response is older than what its browser showed when it was asked for.
THEOREM AnswersAreNew == DashSpec => []Answers
PROOF
  <1>1. DashInit => Answers
    BY DEF DashInit, StreamInit, Answers, Events, Free, NoEvent, Idle
  <1>2. BrokerInv /\ BrokerInv' /\ Answers /\ [DashNext]_dashVars => Answers'
    <2> SUFFICES ASSUME BrokerInv, BrokerInv', Answers, [DashNext]_dashVars
                 PROVE  Answers'
      OBVIOUS
    <2>1. CASE \E b \in Browsers, r \in Requests : RequestStep(b, r)
      BY <2>1, RequestKeeps DEF BrokerInv
    <2>2. CASE ~\E b \in Browsers, r \in Requests : RequestStep(b, r)
      <3>1. UNCHANGED answer
        BY <2>2 DEF DashNext, dashboard, dashVars, RenderEvent
      <3>2. nextSeq \in Nat /\ nextSeq' \in Nat /\ nextSeq' >= nextSeq
        BY DashStepIsStreamStep, NumbersGrow DEF BrokerInv, StreamTypeOK
      <3>3. ASSUME NEW b \in Browsers, NEW r \in Requests
            PROVE  answer[b][r].since <= nextSeq'
        <4>1. answer[b][r].since \in Nat /\ answer[b][r].since <= nextSeq
          BY DEF Answers
        <4>2. QED
          BY <3>2, <4>1
      <3>4. panel' \in [Browsers -> Events]
        BY <2>2 DEF DashNext, dashboard, dashVars, RenderEvent, Rendered, Answers,
                    BrokerInv, StreamTypeOK
      <3>5. QED
        BY <3>1, <3>3, <3>4 DEF Answers
    <2>3. QED
      BY <2>1, <2>2
  <1>3. QED
    BY <1>1, <1>2, DashboardStreams, BrokerInvariant, PTL DEF DashSpec

\* Only a response that was asked for before the newest event arrived can put the
\* panel behind the stream, however requests, events and reconnections meet.
THEOREM PanelsFallBehindOnlyIfOvertaken == DashSpec => BehindOnlyIfOvertaken
PROOF
  <1>1. ASSUME BrokerInv, Answers, [DashNext]_dashVars, NEW b \in Browsers,
               panel[b].seq >= shown[b].seq, panel'[b].seq < shown'[b].seq
        PROVE  \E r \in Requests : /\ answer[b][r].at = "sent"
                                   /\ panel'[b] = answer[b][r].snap
                                   /\ answer[b][r].since < shown[b].seq
    <2>1. shown \in [Browsers -> Events]
      BY <1>1 DEF BrokerInv, StreamTypeOK
    <2>2. ASSUME NEW s \in Streams, RenderEvent(s) PROVE FALSE
      <3>1. /\ shown'[b] = IF conn[b] = s THEN out[s] ELSE shown[b]
            /\ panel'[b] = IF conn[b] = s THEN out[s] ELSE panel[b]
        BY <2>2 DEF RenderEvent, Deliver, Rendered
      <3>2. out[s].seq \in Nat /\ shown[b].seq \in Nat /\ panel[b].seq \in Nat
        BY <1>1, <2>1 DEF BrokerInv, StreamTypeOK, Events, Answers
      <3>3. QED
        BY <1>1, <3>1, <3>2
    <2>3. ASSUME UNCHANGED <<shown, panel>> PROVE FALSE
      <3>1. shown[b].seq \in Nat /\ panel[b].seq \in Nat
        BY <1>1, <2>1 DEF Events, Answers
      <3>2. QED
        BY <1>1, <2>3, <3>1
    <2>4. PICK c \in Browsers, r \in Requests : RenderResponse(c, r)
      BY <1>1, <2>2, <2>3
         DEF DashNext, dashVars, dashboard, vars, network, Announce, Take, Leave,
             Unsubscribe, BrowserStep, Open, Disconnect, BeginShutdown, CancelServe,
             RequestStep, Click, CommandDone, SnapshotTaken, Discard
    <2>5. /\ answer[c][r].at = "sent" /\ UNCHANGED shown
          /\ panel' = [panel EXCEPT ![c] = answer[c][r].snap]
      BY <2>4 DEF RenderResponse, vars, network
    <2>6. shown[b].seq \in Nat /\ panel[b].seq \in Nat
      BY <1>1, <2>1 DEF Events, Answers
    <2>7. c = b
      BY <1>1, <2>5, <2>6
    <2>8. panel'[b] = answer[b][r].snap
      BY <1>1, <2>5, <2>7 DEF Answers
    <2>9. /\ answer[b][r].since \in Nat /\ answer[b][r].snap.seq \in Nat
          /\ answer[b][r].since <= answer[b][r].snap.seq
      BY <1>1, <2>5, <2>7 DEF Answers, Events
    <2>10. answer[b][r].since < shown[b].seq
      BY <1>1, <2>5, <2>6, <2>8, <2>9
    <2>11. QED
      BY <2>5, <2>7, <2>8, <2>10
  <1>2. BrokerInv /\ Answers /\ [DashNext]_dashVars =>
          [\A b \in Browsers :
             panel[b].seq >= shown[b].seq /\ panel'[b].seq < shown'[b].seq =>
               \E r \in Requests : /\ answer[b][r].at = "sent"
                                   /\ panel'[b] = answer[b][r].snap
                                   /\ answer[b][r].since < shown[b].seq]_dashVars
    BY <1>1
  <1>3. QED
    BY <1>2, DashboardStreams, BrokerInvariant, AnswersAreNew, PTL
       DEF DashSpec, BehindOnlyIfOvertaken

-----------------------------------------------------------------------------
(* What is shown when all is quiet *)

\* An event or a snapshot that a client has not overtaken shows what is.
CurrentIfNew(e) ==
    /\ e.seq <= nextSeq
    /\ \A s \in registered : e.seq >= Newest(s).seq => e.state = state

\* It is so with all that is queued or being written.
StreamsAreCurrent ==
    /\ \A s \in Streams : /\ CurrentIfNew(out[s])
                          /\ \A i \in 1..Len(queue[s]) : CurrentIfNew(queue[s][i])
    /\ \A s \in registered : Newest(s).seq \in Nat \ {0}

\* Between two writes a browser shows what its handler took last.
Delivered ==
    /\ \A s \in Streams : step[s] = "idle" => out[s] = NoEvent
    /\ \A b \in Browsers, s \in Streams :
         conn[b] = s /\ step[s] = "select" /\ out[s].seq > 0 => shown[b] = out[s]

\* With a panel, and with the response of a request.
PanelsAreCurrent ==
    \A b \in Browsers : /\ CurrentIfNew(panel[b])
                        /\ \A r \in Requests : CurrentIfNew(answer[b][r].snap)

\* The newest event of a client changes only to the one published now, and it
\* changes whenever the state does.
LEMMA NewestMoves ==
    ASSUME BrokerInv, [StreamNext]_vars, NEW s \in Streams, s \in registered'
    PROVE  \/ s \in registered /\ Newest(s)' = Newest(s) /\ state' = state
           \/ Newest(s)'.seq = nextSeq + 1
PROOF
  <1>0. /\ StreamTypeOK /\ queue[s] \in Seq(Events) /\ Len(queue[s]) \in Nat
        /\ nextSeq \in Nat /\ state \in Live \cup Idle
    BY LenProperties DEF BrokerInv, StreamTypeOK
  <1>1. CASE Announce
    <2> DEFINE e == Event(state')
    <2>1. /\ e \in Events /\ e.seq = nextSeq + 1
          /\ Lossy(announced') => state' = state
      BY <1>0, <1>1, LossyKeepsState DEF Announce, Event, Events
    <2>2. /\ s \in registered \ Overflowing(announced') /\ UNCHANGED out
          /\ queue'[s] = IF Full(s) THEN queue[s] ELSE Append(queue[s], e)
      BY <1>1 DEF Announce, PublishEvent, CloseChannels, Queued, handlers
    <2> HIDE DEF e
    <2>3. CASE Full(s)
      <3>1. Lossy(announced')
        BY <2>2, <2>3 DEF Overflowing
      <3>2. QED
        BY <2>1, <2>2, <2>3, <3>1 DEF Newest
    <2>4. CASE ~Full(s)
      <3>1. /\ queue'[s] # <<>> /\ queue'[s][Len(queue'[s])] = e
        BY <1>0, <2>1, <2>2, <2>4, AppendProperties, LenProperties
      <3>2. QED
        BY <2>1, <3>1 DEF Newest
    <2>5. QED
      BY <2>3, <2>4
  <1>2. ASSUME NEW b \in Browsers, NEW t \in Streams, Open(b, t)
        PROVE  \/ s \in registered /\ Newest(s)' = Newest(s) /\ state' = state
               \/ Newest(s)'.seq = nextSeq + 1
    <2>1. CASE s = t
      <3> DEFINE e == [seq |-> nextSeq + 1, state |-> state]
      <3>1. e \in Events /\ queue'[s] = <<e>>
        BY <1>0, <1>2, <2>1 DEF Open, SnapshotSeq, Events, StreamTypeOK
      <3>2. Newest(s)' = e
        BY <3>1, SingleFacts DEF Newest
      <3>3. QED
        BY <3>2
    <2>2. CASE s # t
      BY <1>0, <1>2, <2>2 DEF Open, StreamTypeOK, Newest, lifecycle
    <2>3. QED
      BY <2>1, <2>2
  <1>3. ASSUME NEW t \in Streams, Take(t)
        PROVE  s \in registered /\ Newest(s)' = Newest(s) /\ state' = state
    <2>1. s \in registered /\ state' = state
      BY <1>3 DEF Take, lifecycle
    <2>2. CASE s # t
      BY <1>0, <1>3, <2>1, <2>2 DEF Take, StreamTypeOK, Newest
    <2>3. CASE s = t
      <3>1. /\ queue[s] # <<>> /\ queue'[s] = Tail(queue[s])
            /\ out'[s] = Head(queue[s])
        BY <1>0, <1>3, <2>3 DEF Take, StreamTypeOK
      <3>2. /\ Len(queue[s]) \in Nat \ {0}
            /\ Head(queue[s]) = queue[s][1]
            /\ Tail(queue[s]) \in Seq(Events)
            /\ Len(Tail(queue[s])) = Len(queue[s]) - 1
            /\ \A i \in 1..(Len(queue[s]) - 1) : Tail(queue[s])[i] = queue[s][i + 1]
            /\ Tail(queue[s]) = <<>> => Len(queue[s]) = 1
        BY <1>0, <3>1, TakeFacts
      <3>3. CASE Tail(queue[s]) = <<>>
        BY <2>1, <3>1, <3>2, <3>3 DEF Newest
      <3>4. CASE Tail(queue[s]) # <<>>
        <4>1. Len(Tail(queue[s])) \in Nat \ {0}
          BY <3>2, <3>4, EmptySeq
        <4>2. Tail(queue[s])[Len(Tail(queue[s]))] = queue[s][Len(queue[s])]
          BY <3>2, <4>1
        <4>3. QED
          BY <2>1, <3>1, <3>4, <4>2 DEF Newest
      <3>5. QED
        BY <3>3, <3>4
    <2>4. QED
      BY <2>2, <2>3
  <1>4. ASSUME NEW t \in Streams, Unsubscribe(t)
        PROVE  s \in registered /\ Newest(s)' = Newest(s) /\ state' = state
    <2>1. s \in registered /\ s # t /\ state' = state
      BY <1>4 DEF Unsubscribe, ToClose, lifecycle
    <2>2. queue'[s] = queue[s] /\ out'[s] = out[s]
      BY <1>0, <1>4, <2>1 DEF Unsubscribe, StreamTypeOK
    <2>3. QED
      BY <2>1, <2>2 DEF Newest
  <1>5. CASE UNCHANGED <<registered, queue, out, state>>
    BY <1>5 DEF Newest
  <1>6. QED
    BY <1>1, <1>2, <1>3, <1>4, <1>5
       DEF StreamNext, StreamStep, BrowserStep, Deliver, Leave, Disconnect,
           BeginShutdown, Close, CancelServe, vars, lifecycle, broker, handlers

\* What showed the state goes on to do so, or a newer event is on its way.
LEMMA StaysCurrent ==
    ASSUME BrokerInv, [StreamNext]_vars, NEW e \in Events, CurrentIfNew(e)
    PROVE  CurrentIfNew(e)'
PROOF
  <1>1. nextSeq \in Nat /\ nextSeq' \in Nat /\ nextSeq' >= nextSeq /\ e.seq \in Nat
    BY NumbersGrow DEF BrokerInv, StreamTypeOK, Events
  <1>2. registered' \subseteq Streams
    BY BrokerNext DEF BrokerInv, StreamTypeOK
  <1>3. ASSUME NEW s \in registered', e.seq >= Newest(s)'.seq
        PROVE  e.state = state'
    <2>1. ~(Newest(s)'.seq = nextSeq + 1)
      BY <1>1, <1>3 DEF CurrentIfNew
    <2>2. s \in registered /\ Newest(s)' = Newest(s) /\ state' = state
      BY <1>2, <2>1, NewestMoves
    <2>3. QED
      BY <1>3, <2>2 DEF CurrentIfNew
  <1>4. QED
    BY <1>1, <1>3 DEF CurrentIfNew

\* What is in a channel was there before, or is published now.
LEMMA QueueMoves ==
    ASSUME BrokerInv, [StreamNext]_vars, NEW s \in Streams,
           NEW i \in 1..Len(queue'[s])
    PROVE  \/ \E j \in 1..Len(queue[s]) : queue'[s][i] = queue[s][j]
           \/ queue'[s][i].seq = nextSeq' /\ queue'[s][i].state = state'
PROOF
  <1>0. /\ StreamTypeOK /\ queue[s] \in Seq(Events) /\ Len(queue[s]) \in Nat
        /\ nextSeq \in Nat /\ state \in Live \cup Idle
    BY LenProperties DEF BrokerInv, StreamTypeOK
  <1>1. CASE queue'[s] = queue[s]
    BY <1>1
  <1>2. CASE Announce
    <2> DEFINE e == Event(state')
    <2>1. e \in Events /\ e.seq = nextSeq' /\ e.state = state'
      BY <1>0, <1>2, LossyKeepsState DEF Announce, PublishEvent, Event, Events
    <2>2. queue'[s] \in {queue[s], Append(queue[s], e)}
      BY <1>2 DEF Announce, PublishEvent, Queued
    <2> HIDE DEF e
    <2>3. CASE queue'[s] = Append(queue[s], e)
      <3>1. /\ i \in 1..(Len(queue[s]) + 1)
            /\ i \in 1..Len(queue[s]) => queue'[s][i] = queue[s][i]
            /\ i = Len(queue[s]) + 1 => queue'[s][i] = e
        BY <1>0, <2>1, <2>3, AppendProperties, LenProperties
      <3>2. QED
        BY <1>0, <2>1, <3>1
    <2>4. QED
      BY <1>1, <2>2, <2>3
  <1>3. ASSUME NEW b \in Browsers, NEW t \in Streams, Open(b, t), s = t
        PROVE  queue'[s][i].seq = nextSeq' /\ queue'[s][i].state = state'
    <2> DEFINE e == [seq |-> nextSeq + 1, state |-> state]
    <2>1. /\ e \in Events /\ queue'[s] = <<e>>
          /\ nextSeq' = nextSeq + 1 /\ state' = state
      BY <1>0, <1>3 DEF Open, SnapshotSeq, Events, StreamTypeOK, lifecycle
    <2>2. queue'[s][i] = e
      BY <2>1, SingleFacts
    <2>3. QED
      BY <2>1, <2>2
  <1>4. ASSUME NEW t \in Streams, Take(t), s = t
        PROVE  \E j \in 1..Len(queue[s]) : queue'[s][i] = queue[s][j]
    <2>1. queue[s] # <<>> /\ queue'[s] = Tail(queue[s])
      BY <1>0, <1>4 DEF Take, StreamTypeOK
    <2>2. /\ Len(queue[s]) \in Nat \ {0}
          /\ Len(Tail(queue[s])) = Len(queue[s]) - 1
          /\ \A k \in 1..(Len(queue[s]) - 1) : Tail(queue[s])[k] = queue[s][k + 1]
      BY <1>0, <2>1, TakeFacts
    <2>3. i + 1 \in 1..Len(queue[s]) /\ queue'[s][i] = queue[s][i + 1]
      BY <2>1, <2>2
    <2>4. QED
      BY <2>3
  <1>5. ASSUME NEW t \in Streams, Unsubscribe(t), s = t PROVE FALSE
    BY <1>0, <1>5, EmptySeq DEF Unsubscribe, StreamTypeOK
  <1>6. \/ queue'[s] = queue[s] \/ Announce
        \/ \E b \in Browsers, t \in Streams : Open(b, t) /\ s = t
        \/ \E t \in Streams : (Take(t) \/ Unsubscribe(t)) /\ s = t
    <2>1. \/ queue' = queue \/ Announce
          \/ \E b \in Browsers, t \in Streams : Open(b, t)
          \/ \E t \in Streams : Take(t) \/ Unsubscribe(t)
      BY <1>0 DEF StreamNext, StreamStep, BrowserStep, Deliver, Leave,
                  Disconnect, BeginShutdown, CancelServe, vars, broker
    <2>2. ASSUME NEW b \in Browsers, NEW t \in Streams, Open(b, t), s # t
          PROVE  queue'[s] = queue[s]
      BY <1>0, <2>2 DEF Open, StreamTypeOK
    <2>3. ASSUME NEW t \in Streams, Take(t), s # t PROVE queue'[s] = queue[s]
      BY <1>0, <2>3 DEF Take, StreamTypeOK
    <2>4. ASSUME NEW t \in Streams, Unsubscribe(t), s # t
          PROVE  queue'[s] = queue[s]
      BY <1>0, <2>4 DEF Unsubscribe, StreamTypeOK
    <2>5. QED
      BY <2>1, <2>2, <2>3, <2>4
  <1>7. QED
    BY <1>1, <1>2, <1>3, <1>4, <1>5, <1>6

\* What a handler took last was there before, or was queued, or is forgotten.
LEMMA OutMoves ==
    ASSUME BrokerInv, [StreamNext]_vars, NEW s \in Streams
    PROVE  \/ out'[s] = out[s]
           \/ \E j \in 1..Len(queue[s]) : out'[s] = queue[s][j]
           \/ out'[s] = NoEvent
PROOF
  <1>0. StreamTypeOK /\ queue[s] \in Seq(Events)
    BY DEF BrokerInv, StreamTypeOK
  <1>1. ASSUME NEW t \in Streams, Take(t), s = t
        PROVE  \E j \in 1..Len(queue[s]) : out'[s] = queue[s][j]
    <2>1. queue[s] # <<>> /\ out'[s] = Head(queue[s])
      BY <1>0, <1>1 DEF Take, StreamTypeOK
    <2>2. Len(queue[s]) \in Nat \ {0} /\ Head(queue[s]) = queue[s][1]
      BY <1>0, <2>1, TakeFacts
    <2>3. QED
      BY <2>1, <2>2
  <1>2. ASSUME NEW t \in Streams, Unsubscribe(t), s = t
        PROVE  out'[s] = NoEvent
    BY <1>0, <1>2 DEF Unsubscribe, StreamTypeOK
  <1>3. \/ out'[s] = out[s]
        \/ \E t \in Streams : (Take(t) \/ Unsubscribe(t)) /\ s = t
    BY <1>0 DEF StreamNext, StreamStep, BrowserStep, Take, Unsubscribe, Open,
                Deliver, Leave, Disconnect, BeginShutdown, CancelServe, vars,
                handlers, Announce, StreamTypeOK
  <1>4. QED
    BY <1>1, <1>2, <1>3

\* What a handler has taken and what is queued for it shows what is, unless
\* something newer follows.
LEMMA StreamsStayCurrent ==
    BrokerInv /\ StreamsAreCurrent /\ [StreamNext]_vars => StreamsAreCurrent'
PROOF
  <1> SUFFICES ASSUME BrokerInv, StreamsAreCurrent, [StreamNext]_vars
               PROVE  StreamsAreCurrent'
    OBVIOUS
  <1> DEFINE Current(e) ==
        /\ e.seq <= nextSeq'
        /\ \A s \in registered' : e.seq >= Newest(s)'.seq => e.state = state'
  <1>1. /\ BrokerInv' /\ nextSeq \in Nat /\ nextSeq' \in Nat
        /\ registered' \subseteq Streams
    BY BrokerNext DEF BrokerInv, StreamTypeOK
  <1>2. \A e \in Events : CurrentIfNew(e) => Current(e)
    BY StaysCurrent DEF CurrentIfNew
  <1>3. \A s \in registered' : Newest(s)'.seq \in Nat \ {0}
    BY <1>1, NewestMoves DEF StreamsAreCurrent
  <1>4. Current(NoEvent)
    BY <1>1, <1>3 DEF NoEvent
  <1>5. ASSUME NEW s \in Streams
        PROVE  /\ Current(out[s])
               /\ \A j \in 1..Len(queue[s]) : Current(queue[s][j])
    <2>1. /\ out[s] \in Events
          /\ \A j \in 1..Len(queue[s]) : queue[s][j] \in Events
      BY ElementOfSeq DEF BrokerInv, StreamTypeOK
    <2>2. QED
      BY <1>2, <2>1 DEF StreamsAreCurrent
  <1>6. ASSUME NEW s \in Streams PROVE Current(out'[s])
    <2>1. \/ out'[s] = out[s]
          \/ \E j \in 1..Len(queue[s]) : out'[s] = queue[s][j]
          \/ out'[s] = NoEvent
      BY OutMoves
    <2> HIDE DEF Current
    <2>2. QED
      BY <1>4, <1>5, <2>1
  <1>7. ASSUME NEW s \in Streams, NEW i \in 1..Len(queue'[s])
        PROVE  Current(queue'[s][i])
    <2>1. \/ \E j \in 1..Len(queue[s]) : queue'[s][i] = queue[s][j]
          \/ queue'[s][i].seq = nextSeq' /\ queue'[s][i].state = state'
      BY QueueMoves
    <2>2. CASE \E j \in 1..Len(queue[s]) : queue'[s][i] = queue[s][j]
      <3> HIDE DEF Current
      <3>1. QED
        BY <1>5, <2>2
    <2>3. CASE queue'[s][i].seq = nextSeq' /\ queue'[s][i].state = state'
      BY <1>1, <2>3
    <2>4. QED
      BY <2>1, <2>2, <2>3
  <1>8. QED
    BY <1>3, <1>6, <1>7 DEF StreamsAreCurrent, CurrentIfNew

\* Only the handler of a browser changes what it shows, to what it took.
LEMMA DeliveredStays ==
    BrokerInv /\ Delivered /\ [StreamNext]_vars => Delivered'
PROOF
  <1> SUFFICES ASSUME BrokerInv, Delivered, [StreamNext]_vars PROVE Delivered'
    OBVIOUS
  <1>0. StreamTypeOK /\ NoStream \notin Streams
    BY StreamAssumption DEF BrokerInv
  <1>1. ASSUME NEW t \in Streams, Take(t) PROVE Delivered'
    BY <1>0, <1>1 DEF Take, Goto, network, StreamTypeOK, Delivered
  <1>2. ASSUME NEW t \in Streams, Deliver(t) PROVE Delivered'
    BY <1>0, <1>2 DEF Deliver, Goto, StreamTypeOK, Delivered
  <1>3. ASSUME NEW t \in Streams, Leave(t) PROVE Delivered'
    BY <1>0, <1>3 DEF Leave, Goto, network, StreamTypeOK, Delivered
  <1>4. ASSUME NEW t \in Streams, Unsubscribe(t) PROVE Delivered'
    BY <1>0, <1>4 DEF Unsubscribe, Goto, NoEvent, StreamTypeOK, Delivered
  <1>5. ASSUME NEW b \in Browsers, NEW t \in Streams, Open(b, t)
        PROVE  Delivered'
    BY <1>0, <1>5 DEF Open, Goto, NoEvent, StreamTypeOK, Delivered
  <1>6. ASSUME NEW b \in Browsers, Disconnect(b) PROVE Delivered'
    BY <1>0, <1>6 DEF Disconnect, handlers, StreamTypeOK, Delivered
  <1>7. CASE UNCHANGED <<step, out, conn, shown>>
    BY <1>7 DEF Delivered
  <1>8. QED
    BY <1>1, <1>2, <1>3, <1>4, <1>5, <1>6, <1>7
       DEF StreamNext, StreamStep, BrowserStep, Announce, BeginShutdown,
           CancelServe, vars, handlers, network

\* What a panel shows, and what the response of a request holds, shows what is
\* unless something newer is on its way to every client.
LEMMA PanelsStayCurrent ==
    /\ BrokerInv /\ StreamsAreCurrent /\ StreamsAreCurrent' /\ Answers /\ Answers'
    /\ PanelsAreCurrent /\ [DashNext]_dashVars
    => PanelsAreCurrent'
PROOF
  <1> SUFFICES ASSUME BrokerInv, StreamsAreCurrent, StreamsAreCurrent', Answers,
                      Answers', PanelsAreCurrent, [DashNext]_dashVars
               PROVE  PanelsAreCurrent'
    OBVIOUS
  <1> DEFINE Current(e) ==
        /\ e.seq <= nextSeq'
        /\ \A s \in registered' : e.seq >= Newest(s)'.seq => e.state = state'
  <1>1. [StreamNext]_vars
    BY DashStepIsStreamStep
  <1>2. /\ BrokerInv' /\ nextSeq \in Nat /\ nextSeq' \in Nat
        /\ registered' \subseteq Streams
    BY <1>1, BrokerNext DEF BrokerInv, StreamTypeOK
  <1>3. \A e \in Events : CurrentIfNew(e) => Current(e)
    BY <1>1, StaysCurrent DEF CurrentIfNew
  <1>4. Current(NoEvent)
    BY <1>2 DEF NoEvent, StreamsAreCurrent
  <1>5. ASSUME NEW b \in Browsers
        PROVE  /\ Current(panel[b])
               /\ \A r \in Requests : Current(answer[b][r].snap)
    BY <1>3 DEF Answers, PanelsAreCurrent
  <1>6. \A s \in Streams : Current(out[s])
    BY <1>3 DEF BrokerInv, StreamTypeOK, StreamsAreCurrent
  <1>7. Current([seq |-> nextSeq', state |-> state'])
    BY <1>2
  <1>8. [seq |-> nextSeq, state |-> state] \in Events
          /\ CurrentIfNew([seq |-> nextSeq, state |-> state])
    BY <1>2 DEF BrokerInv, StreamTypeOK, Events, CurrentIfNew
  <1>9. Current([seq |-> nextSeq, state |-> state])
    BY <1>3, <1>8
  <1> HIDE DEF Current
  <1>10. ASSUME NEW b \in Browsers PROVE Current(panel'[b])
    <2>1. \/ panel'[b] = panel[b]
          \/ \E s \in Streams : panel'[b] = out[s]
          \/ \E r \in Requests : panel'[b] = answer[b][r].snap
      BY DEF DashNext, dashVars, dashboard, RenderEvent, Rendered, RequestStep,
             Click, CommandDone, SnapshotTaken, RenderResponse, Discard, Answers
    <2>2. QED
      BY <1>5, <1>6, <2>1
  <1>11. ASSUME NEW b \in Browsers, NEW r \in Requests
         PROVE  Current(answer'[b][r].snap)
    <2>1. \/ answer'[b][r].snap = answer[b][r].snap
          \/ answer'[b][r].snap = NoEvent
          \/ answer'[b][r].snap = [seq |-> nextSeq', state |-> state']
          \/ answer'[b][r].snap = [seq |-> nextSeq, state |-> state]
      <3>1. CASE UNCHANGED answer
        BY <3>1
      <3>2. ASSUME NEW c \in Browsers, NEW q \in Requests, RequestStep(c, q)
            PROVE  \/ UNCHANGED answer
                   \/ answer' = [answer EXCEPT ![c][q] = Free]
                   \/ answer' = [answer EXCEPT ![c][q] = Asked(c)]
                   \/ \E a \in {[seq |-> nextSeq', state |-> state'],
                              [seq |-> nextSeq, state |-> state]} :
                        answer' = [answer EXCEPT ![c][q] =
                          [at |-> "sent", since |-> answer[c][q].since, snap |-> a]]
        BY <3>2 DEF RequestStep, Click, CommandDone, SnapshotTaken,
                    RenderResponse, Discard, SetAnswer, Send, Snapshot,
                    SnapshotAfter
      <3>3. ASSUME NEW c \in Browsers, NEW q \in Requests,
                   NEW a, answer' = [answer EXCEPT ![c][q] = a]
            PROVE  answer'[b][r] \in {answer[b][r], a}
        BY <3>3 DEF Answers
      <3>4. ASSUME NEW c \in Browsers, NEW q \in Requests, RequestStep(c, q)
            PROVE  \/ answer'[b][r].snap = answer[b][r].snap
                   \/ answer'[b][r].snap = NoEvent
                   \/ answer'[b][r].snap = [seq |-> nextSeq', state |-> state']
                   \/ answer'[b][r].snap = [seq |-> nextSeq, state |-> state]
        <4>1. Free.snap = NoEvent /\ Asked(c).snap = NoEvent
          BY DEF Free, Asked
        <4>2. CASE answer' = [answer EXCEPT ![c][q] = Free]
          BY <3>3, <4>1, <4>2
        <4>3. CASE answer' = [answer EXCEPT ![c][q] = Asked(c)]
          BY <3>3, <4>1, <4>3
        <4>4. ASSUME NEW e \in {[seq |-> nextSeq', state |-> state'],
                               [seq |-> nextSeq, state |-> state]},
                     answer' = [answer EXCEPT ![c][q] =
                       [at |-> "sent", since |-> answer[c][q].since, snap |-> e]]
              PROVE  answer'[b][r].snap \in {answer[b][r].snap, e}
          BY <3>3, <4>4
        <4>5. QED
          BY <3>2, <3>4, <4>2, <4>3, <4>4
      <3>5. QED
        BY <3>1, <3>4 DEF DashNext, dashVars, dashboard, RenderEvent
    <2>2. QED
      BY <1>4, <1>5, <1>7, <1>9, <2>1
  <1>12. QED
    BY <1>10, <1>11 DEF PanelsAreCurrent, CurrentIfNew, Current

QuietInv == StreamsAreCurrent /\ Delivered /\ PanelsAreCurrent

\* Once a client has written all that is queued for it, its browser shows the
\* state of the manager, and so does the panel, unless the response it rendered
\* last is older than the event rendered before: whatever was dropped, lost or
\* overtaken on the way.  PanelsConverge needs fairness only to come there.
THEOREM QuietPanels == DashSpec => []QuietPanelsAreCurrent
PROOF
  <1>1. DashInit => QuietInv
    <2> SUFFICES ASSUME DashInit PROVE QuietInv
      OBVIOUS
    <2>1. \A s \in Streams : queue[s] = <<>> /\ Len(queue[s]) = 0
      BY EmptySeq DEF DashInit, StreamInit
    <2>2. CurrentIfNew(NoEvent)
      BY DEF DashInit, StreamInit, CurrentIfNew, NoEvent
    <2>3. StreamsAreCurrent
      BY <2>1, <2>2 DEF DashInit, StreamInit, StreamsAreCurrent
    <2>4. Delivered
      BY DEF DashInit, StreamInit, Delivered, NoEvent
    <2>5. PanelsAreCurrent
      BY <2>2 DEF DashInit, PanelsAreCurrent, Free
    <2>6. QED
      BY <2>3, <2>4, <2>5 DEF QuietInv
  <1>2. /\ BrokerInv /\ Answers /\ Answers' /\ QuietInv /\ [DashNext]_dashVars
        => QuietInv'
    BY DashStepIsStreamStep, StreamsStayCurrent, DeliveredStays, PanelsStayCurrent
       DEF QuietInv
  <1>3. BrokerInv /\ Answers /\ QuietInv => QuietPanelsAreCurrent
    <2> SUFFICES ASSUME BrokerInv, Answers, QuietInv,
                        NEW b \in Browsers, NEW s \in registered,
                        conn[b] = s, step[s] = "select", queue[s] = <<>>
                 PROVE  /\ shown[b].state = state
                        /\ panel[b].state = state \/ panel[b].seq < shown[b].seq
      BY DEF QuietPanelsAreCurrent
    <2>1. Newest(s) = out[s] /\ s \in Streams
      BY DEF Newest, BrokerInv, StreamTypeOK
    <2>2. out[s].state = state /\ out[s].seq \in Nat \ {0}
      BY <2>1 DEF BrokerInv, RegisteredIsCurrent, QuietInv, StreamsAreCurrent
    <2>3. shown[b] = out[s]
      BY <2>1, <2>2 DEF QuietInv, Delivered
    <2>4. panel[b].seq \in Nat /\ CurrentIfNew(panel[b])
      BY DEF Answers, Events, QuietInv, PanelsAreCurrent
    <2>5. QED
      BY <2>1, <2>2, <2>3, <2>4 DEF CurrentIfNew
  <1>4. QED
    BY <1>1, <1>2, <1>3, DashboardStreams, BrokerInvariant, AnswersAreNew, PTL
       DEF DashSpec
=============================================================================
