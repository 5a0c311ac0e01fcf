---------------------------- MODULE MCWasi_proofs ----------------------------
(* What MCWasi checks of the WASI providers, proved for every number of guest  *)
(* frames, pollables, listeners, receivers, calls and names, and buffers of    *)
(* any size.  Every provider has an inductive invariant of its own; they share *)
(* nothing, so that the five hold together.                                    *)
EXTENDS MCWasi, FiniteSetTheorems, SequenceTheorems, WellFoundedInduction, TLAPS

-----------------------------------------------------------------------------
(* The TCP socket of 0.2: its streams over the parking kernel.                 *)

\* The types of the parts of a socket of 0.2, a record each.
Inputs ==
  [buffered : 0..(HighWater + MaxChunk), eof : BOOLEAN, failed : BOOLEAN, closed : BOOLEAN,
   feed : {"pull", "full", "resumed", "ended"}]
Outputs ==
  [queue : Seq(Chunks), queued : 0..HighWater, busy : BOOLEAN, closed : BOOLEAN, failed : BOOLEAN]
Parkings ==
  [in : {"none", "read", "flush", "poll"}, on : {{}, {"in"}, {"out"}} \cup PollSets,
    woken : BOOLEAN]
Socks ==
  [state : States, dial : {"none", "pending", "ok", "failed"}, minted : BOOLEAN, alive : BOOLEAN]
Conns ==
  [os : {"none", "open", "closed"}, held : BOOLEAN, inbound : 0..MaxInbound,
   peer : {"open", "fin", "reset"}]
Listeners == [up : {"none", "binding", "live", "failed"}, closed : BOOLEAN,
               queue : 0..MaxQueuedConnections]

\* The feed of the input stream is paused exactly at the high-water mark.
Feeding ==
  /\ input \in Inputs
  /\ input.feed = "pull" => input.buffered < HighWater \/ input.closed
  /\ input.feed = "full" => input.buffered >= HighWater /\ ~input.closed

\* total is the sum of q.
Sums(q, total) ==
  \E s \in [1..(Len(q) + 1) -> Nat] :
    /\ s[1] = total /\ s[Len(q) + 1] = 0
    /\ \A i \in 1..Len(q) : s[i] = s[i + 1] + q[i]

\* The bytes counted as queued are those of the writes in the queue; the sink works on one of
\* them.
Draining ==
  /\ output \in Outputs /\ Sums(output.queue, output.queued)
  /\ output.busy => output.queue # <<>>

\* Who has the connection of a dial: nobody, the dial that has settled, or #conn of a minted
\* socket; after a drop, at most a dial that nobody finished.
Dialling ==
  /\ sock \in Socks /\ conn \in Conns
  /\ conn.os = "open" => conn.held \/ (sock.dial = "ok" /\ ~sock.minted)
  /\ sock.state \in {"unbound", "bound", "bind-in-progress"} => sock.dial = "none" /\ ~sock.minted
  /\ sock.dial = "pending" => ~sock.minted /\ sock.state \in {"connect-in-progress", "closed"}
  /\ sock.state = "connect-in-progress" => ~sock.minted
  /\ ~sock.alive => sock.state = "closed" /\ ~conn.held

\* A dropped socket has closed its listener.
Listening ==
  /\ listener \in Listeners
  /\ ~sock.alive /\ listener.up # "none" => listener.closed /\ listener.queue = 0

\* Who is parked, and was not signalled, waits for what is not there.
Parked ==
  /\ frames \in [Frames -> Parkings]
  /\ \A f \in Frames : /\ frames[f].in = "read" => frames[f].on = {"in"}
                       /\ frames[f].in = "flush" => frames[f].on = {"out"}
                       /\ frames[f] # Idle /\ ~frames[f].woken => ~Satisfied(f, ReadyNow)

\* What the socket of 0.2 keeps.
SockInv == Feeding /\ Draining /\ Dialling /\ Listening /\ Parked

\* A fresh socket, and one from accept.
LEMMA SockInit == Init => SockInv
<1> SUFFICES ASSUME Init PROVE SockInv
  OBVIOUS
<1> USE IoAssumption, TcpAssumption DEF Init
<1>1. Feeding
  BY DEF Feeding, Inputs, NoInput
<1>2. Draining
  <2>1. output \in Outputs
    BY DEF Outputs, NoOutput, Chunks
  <2>2. Sums(<<>>, 0)
    <3> DEFINE s == [i \in 1..1 |-> 0]
    <3>1. s \in [1..1 -> Nat] /\ s[1] = 0 /\ Len(<<>>) = 0
      OBVIOUS
    <3> HIDE DEF s
    <3>2. /\ s \in [1..(Len(<<>>) + 1) -> Nat] /\ s[1] = 0 /\ s[Len(<<>>) + 1] = 0
          /\ \A i \in 1..Len(<<>>) : s[i] = s[i + 1] + <<>>[i]
      BY <3>1
    <3> QED BY <3>2 DEF Sums
  <2> QED BY <2>1, <2>2 DEF Draining, NoOutput
<1>3. Dialling
  <2>1. 0 \in 0..MaxInbound
    OBVIOUS
  <2>2. CASE sock.state = "unbound"
    <3>1. /\ sock = [state |-> "unbound", dial |-> "none", minted |-> FALSE, alive |-> TRUE]
          /\ conn = [os |-> "none", held |-> FALSE, inbound |-> 0, peer |-> "open"]
      BY <2>2 DEF NoConn
    <3>2. sock \in Socks /\ conn \in Conns
      BY <2>1, <3>1 DEF Socks, Conns, States
    <3> QED BY <3>1, <3>2 DEF Dialling
  <2>3. CASE sock.state # "unbound"
    <3>1. /\ sock = [state |-> "connected", dial |-> "none", minted |-> TRUE, alive |-> TRUE]
          /\ conn = [NoConn EXCEPT !.os = "open", !.held = TRUE]
      BY <2>3
    <3> USE DEF NoConn
    <3>2. sock \in Socks /\ conn \in Conns
      BY <2>1, <3>1 DEF Socks, Conns, States
    <3> QED BY <3>1, <3>2 DEF Dialling
  <2> QED BY <2>2, <2>3
<1>4. Listening
  BY DEF Listening, Listeners, NoConn
<1>5. Parked
  BY DEF Parked, Parkings, Idle, Satisfied
<1> QED BY <1>1, <1>2, <1>3, <1>4, <1>5 DEF SockInv

\* The feed runs on, pauses at the mark and resumes below it.
LEMMA FeedingNext ==
  ASSUME SockInv, [Next]_vars
  PROVE  Feeding'
<1> USE IoAssumption DEF SockInv, Feeding, Inputs, Chunks
<1>1. ASSUME NEW n \in Chunks, Fed(n) PROVE Feeding'
  <2>1. CASE input.closed
    BY <1>1, <2>1 DEF Fed
  <2>2. CASE ~input.closed
    <3>1. n \in Nat /\ n <= MaxChunk /\ input.buffered < HighWater /\ input.buffered \in Nat
      BY <1>1, <2>2 DEF Fed
    <3>2. input' = [input EXCEPT !.buffered = @ + n,
                                 !.feed = IF input.buffered + n >= HighWater THEN "full"
                                   ELSE "pull"]
      BY <1>1, <2>2 DEF Fed
    <3> DEFINE m == input.buffered + n
    <3>3. m \in 0..(HighWater + MaxChunk)
      BY <3>1
    <3>4. \E feed \in {"full", "pull"} :
            /\ input' = [input EXCEPT !.buffered = m, !.feed = feed]
            /\ feed = "pull" => m < HighWater
            /\ feed = "full" => m >= HighWater
      <4>1. CASE m >= HighWater
        BY <3>2, <4>1
      <4>2. CASE ~(m >= HighWater)
        BY <3>1, <3>2, <4>2
      <4> QED BY <4>1, <4>2
    <3> HIDE DEF m
    <3> QED BY <2>2, <3>3, <3>4
  <2> QED BY <2>1, <2>2
<1>2. ASSUME NEW b \in BOOLEAN, FeedEnds(b) PROVE Feeding'
  BY <1>2 DEF FeedEnds
<1>3. ASSUME FeedResumes PROVE Feeding'
  BY <1>3 DEF FeedResumes
<1>4. ASSUME NEW n \in Chunks, ~input.closed, input' = Taken(n) PROVE Feeding'
  <2> DEFINE left == input.buffered - (IF n < input.buffered THEN n ELSE input.buffered)
             took == [input EXCEPT !.buffered = left]
  <2>1. input.buffered \in Nat /\ n \in Nat /\ left \in 0..input.buffered
    OBVIOUS
  <2>2. input' = IF left < HighWater THEN Resume(took) ELSE took
    BY <1>4 DEF Taken
  <2> HIDE DEF left
  <2>3. CASE left < HighWater
    <3>1. left \in 0..(HighWater + MaxChunk)
      BY <2>1
    <3>2. took \in Inputs /\ took.buffered = left /\ took.closed = input.closed /\ took.feed = input.feed
      BY <3>1
    <3> HIDE DEF took
    <3>3. input' = IF took.feed = "full" THEN [took EXCEPT !.feed = "resumed"] ELSE took
      BY <2>2, <2>3 DEF Resume
    <3> QED BY <1>4, <2>3, <3>2, <3>3
  <2>4. CASE ~(left < HighWater)
    BY <1>4, <2>1, <2>2, <2>4
  <2> QED BY <2>3, <2>4
<1>5. ASSUME input' = CloseInput(input) PROVE Feeding'
  BY <1>5 DEF CloseInput, Resume
<1>6. ASSUME input' = input PROVE Feeding'
  BY <1>6
<1>7. Next => \/ \E n \in Chunks : Fed(n) \/ (~input.closed /\ input' = Taken(n))
              \/ \E b \in BOOLEAN : FeedEnds(b)
              \/ FeedResumes \/ input' = CloseInput(input) \/ input' = input
  <2>1. Guest => input' = input \/ input' = CloseInput(input)
                 \/ \E n \in Chunks : ~input.closed /\ input' = Taken(n)
    BY DEF Guest, StartBind, FinishBind, StartConnect, FinishConnect, StartListen, FinishListen,
           Accept, Dispose, Shutdown, Read, Write, DropInput, DropOutput, BlockingRead,
           BlockingFlush, Poll, io
  <2>2. ASSUME Receives
        PROVE  input' = input \/ (\E n \in Chunks : Fed(n)) \/ \E b \in BOOLEAN : FeedEnds(b)
    <3>1. conn.inbound \in Nat
      BY DEF Dialling, Conns
    <3>2. CASE conn.peer = "reset"
      BY <2>2, <3>2 DEF Receives
    <3>3. CASE conn.peer # "reset" /\ conn.inbound > 0
      BY <2>2, <3>1, <3>3 DEF Receives
    <3>4. CASE conn.peer # "reset" /\ ~(conn.inbound > 0)
      <4>1. FeedEnds(conn.peer # "fin")
        BY <2>2, <3>4 DEF Receives
      <4> DEFINE b == conn.peer # "fin"
      <4>2. b \in BOOLEAN /\ FeedEnds(b)
        BY <4>1
      <4> QED BY <4>2
    <3> QED BY <3>2, <3>3, <3>4
  <2>3. ASSUME Platform, ~Receives PROVE FeedResumes \/ input' = input
    BY <2>3 DEF Platform, DialSettles, ListenSettles, ListenerFails, Connection, PeerSends,
       PeerStops,
           FinGoes, SinkStep, SinkBegins, SinkEnds, SinkDrains, Resumption, io
  <2>4. ASSUME NEW f \in Frames, Return(f)
        PROVE  input' = input \/ \E n \in Chunks : ~input.closed /\ input' = Taken(n)
    BY <2>4 DEF Return, Wakes
  <2> QED BY <2>1, <2>2, <2>3, <2>4 DEF Next
<1> QED BY <1>1, <1>2, <1>3, <1>4, <1>5, <1>6, <1>7 DEF vars, io

\* A write that is queued adds its bytes.
LEMMA SumsAppend ==
  ASSUME NEW q \in Seq(Nat), NEW total \in Nat, NEW n \in Nat, Sums(q, total)
  PROVE  Sums(Append(q, n), total + n)
<1>1. PICK s \in [1..(Len(q) + 1) -> Nat] :
        /\ s[1] = total /\ s[Len(q) + 1] = 0
        /\ \A i \in 1..Len(q) : s[i] = s[i + 1] + q[i]
  BY DEF Sums
<1> DEFINE t == [i \in 1..(Len(q) + 2) |-> IF i = Len(q) + 2 THEN 0 ELSE s[i] + n]
<1>2. t \in [1..(Len(q) + 2) -> Nat] /\ Len(q) \in Nat
  OBVIOUS
<1>3. Len(Append(q, n)) = Len(q) + 1
  OBVIOUS
<1>4. t[1] = total + n /\ t[Len(q) + 2] = 0
  BY <1>1, <1>2
<1>5. ASSUME NEW i \in 1..(Len(q) + 1) PROVE t[i] = t[i + 1] + Append(q, n)[i]
  <2>1. CASE i = Len(q) + 1
    BY <1>1, <1>2, <2>1
  <2>2. CASE i \in 1..Len(q)
    <3>1. t[i] = s[i] + n /\ t[i + 1] = s[i + 1] + n /\ Append(q, n)[i] = q[i]
      BY <1>2, <2>2
    <3>2. s[i] = s[i + 1] + q[i] /\ s[i + 1] \in Nat /\ q[i] \in Nat
      BY <1>1, <1>2, <2>2
    <3> QED BY <3>1, <3>2
  <2> QED BY <1>2, <2>1, <2>2
<1> HIDE DEF t
<1>6. t \in [1..(Len(Append(q, n)) + 1) -> Nat] /\ t[Len(Append(q, n)) + 1] = 0
  BY <1>2, <1>3, <1>4
<1>7. \A i \in 1..Len(Append(q, n)) : t[i] = t[i + 1] + Append(q, n)[i]
  BY <1>3, <1>5
<1> QED BY <1>4, <1>6, <1>7 DEF Sums

\* The write that has drained takes its bytes away, and there were as many.
LEMMA SumsTail ==
  ASSUME NEW q \in Seq(Nat), NEW total \in Nat, q # <<>>, Sums(q, total)
  PROVE  Head(q) <= total /\ Sums(Tail(q), total - Head(q))
<1>1. PICK s \in [1..(Len(q) + 1) -> Nat] :
        /\ s[1] = total /\ s[Len(q) + 1] = 0
        /\ \A i \in 1..Len(q) : s[i] = s[i + 1] + q[i]
  BY DEF Sums
<1> DEFINE t == [i \in 1..Len(q) |-> s[i + 1]]
<1>2. Len(q) \in Nat /\ Len(q) > 0 /\ Len(Tail(q)) = Len(q) - 1 /\ Head(q) = q[1] /\ q[1] \in Nat
  OBVIOUS
<1>3. t \in [1..Len(q) -> Nat]
  BY <1>1, <1>2
<1>4. t[1] = total - Head(q) /\ t[Len(q)] = 0 /\ Head(q) <= total
  <2>1. s[1] = s[2] + q[1] /\ s[2] \in Nat /\ t[1] = s[2] /\ t[Len(q)] = s[Len(q) + 1]
    BY <1>1, <1>2
  <2> QED BY <1>1, <1>2, <2>1
<1>5. \A i \in 1..(Len(q) - 1) : t[i] = t[i + 1] + Tail(q)[i]
  BY <1>1, <1>2
<1> HIDE DEF t
<1>6. t \in [1..(Len(Tail(q)) + 1) -> Nat] /\ t[Len(Tail(q)) + 1] = 0
  BY <1>2, <1>3, <1>4
<1>7. \A i \in 1..Len(Tail(q)) : t[i] = t[i + 1] + Tail(q)[i]
  BY <1>2, <1>5
<1> QED BY <1>4, <1>6, <1>7 DEF Sums

\* Writes are queued within the permit and drain in order.
LEMMA DrainingNext ==
  ASSUME SockInv, [Next]_vars
  PROVE  Draining'
<1> USE IoAssumption DEF SockInv, Draining
<1>0. /\ output.queue \in Seq(Chunks) /\ output.queue \in Seq(Nat) /\ output.queued \in 0..HighWater
      /\ Chunks \subseteq Nat
  BY DEF Outputs, Chunks
<1>1. ASSUME NEW n \in Chunks, Write(n) PROVE Draining'
  <2>1. output.queued + n \in 0..HighWater /\ Append(output.queue, n) \in Seq(Chunks) /\ n \in Nat
    BY <1>0, <1>1 DEF Write
  <2>2. output'.queue = Append(output.queue, n) /\ output'.queued = output.queued + n
    BY <1>1 DEF Write, Outputs
  <2>3. output' \in Outputs
    BY <1>1, <2>1 DEF Write, Outputs
  <2>4. Sums(Append(output.queue, n), output.queued + n)
    BY <1>0, <2>1, SumsAppend
  <2>5. Append(output.queue, n) # <<>>
    BY <1>0, <2>1
  <2> QED BY <2>2, <2>3, <2>4, <2>5
<1>2. ASSUME output.queue # <<>>, \E b \in BOOLEAN :
               output' = [output EXCEPT !.queue = Tail(@), !.queued = @ - Head(output.queue),
                                        !.busy = FALSE, !.failed = b]
      PROVE  Draining'
  <2>1. Head(output.queue) <= output.queued /\ Sums(Tail(output.queue), output.queued - Head(output.queue))
    BY <1>0, <1>2, SumsTail
  <2>2. Tail(output.queue) \in Seq(Chunks) /\ Head(output.queue) \in Chunks
    BY <1>0, <1>2
  <2>3. output.queued - Head(output.queue) \in 0..HighWater
    BY <1>0, <2>1, <2>2
  <2>4. output' \in Outputs
    BY <1>2, <2>2, <2>3 DEF Outputs
  <2>5. /\ output'.queue = Tail(output.queue) /\ ~output'.busy
        /\ output'.queued = output.queued - Head(output.queue)
    BY <1>2 DEF Outputs
  <2> QED BY <2>1, <2>4, <2>5
<1>3. ASSUME SinkCalled PROVE Draining'
  <2>1. output' \in Outputs /\ output'.queue = output.queue /\ output'.queued = output.queued
    BY <1>3 DEF SinkCalled, Outputs
  <2> QED BY <1>3, <2>1 DEF SinkCalled
<1>4. ASSUME output' \in {output, [output EXCEPT !.closed = TRUE]} PROVE Draining'
  <2>1. /\ output' \in Outputs /\ output'.queue = output.queue /\ output'.queued = output.queued
        /\ output'.busy = output.busy
    BY <1>4 DEF Outputs
  <2> QED BY <2>1
<1>5. Next => \/ \E n \in Chunks : Write(n)
              \/ (\E ok \in BOOLEAN : SinkSettles(ok)) \/ SinkSkips \/ SinkCalled
              \/ output' \in {output, [output EXCEPT !.closed = TRUE]}
  <2>1. Guest => (\E n \in Chunks : Write(n)) \/ output' \in {output, [output EXCEPT !.closed = TRUE]}
    BY DEF Guest, StartBind, FinishBind, StartConnect, FinishConnect, StartListen, FinishListen,
           Accept, Dispose, Shutdown, Read, DropInput, DropOutput, BlockingRead,
           BlockingFlush, Poll, io
  <2>2. ASSUME SinkStep PROVE (\E ok \in BOOLEAN : SinkSettles(ok)) \/ SinkSkips \/ SinkCalled
    <3>1. Deliverable \in BOOLEAN
      BY DEF Deliverable
    <3> QED BY <2>2, <3>1 DEF SinkStep, SinkBegins, SinkEnds, SinkDrains
  <2>3. ASSUME Platform, ~SinkStep PROVE output' = output
    BY <2>3 DEF Platform, DialSettles, ListenSettles, ListenerFails, Connection, PeerSends,
       PeerStops,
           Receives, FinGoes, Resumption, io
  <2>4. ASSUME NEW f \in Frames, Return(f) PROVE output' = output
    BY <2>4 DEF Return, Wakes
  <2> QED BY <2>1, <2>2, <2>3, <2>4 DEF Next
<1>6. ASSUME NEW ok \in BOOLEAN, SinkSettles(ok) PROVE Draining'
  <2>1. (~ok) \in BOOLEAN
    OBVIOUS
  <2> QED BY <1>2, <1>6, <2>1 DEF SinkSettles
<1>7. ASSUME SinkSkips PROVE Draining'
  <2>1. output' = [output EXCEPT !.queue = Tail(@), !.queued = @ - Head(output.queue),
          !.busy = FALSE,
                                 !.failed = output.failed]
    BY <1>7 DEF SinkSkips, Outputs
  <2>2. output.failed \in BOOLEAN
    BY DEF Outputs
  <2> QED BY <1>2, <1>7, <2>1, <2>2 DEF SinkSkips
<1> QED BY <1>1, <1>3, <1>4, <1>5, <1>6, <1>7 DEF vars, io

\* Dial, bind, listen and drop in any order hand the connection on, or close it.
LEMMA DiallingNext ==
  ASSUME SockInv, [Next]_vars
  PROVE  Dialling' /\ Listening'
<1> USE TcpAssumption DEF SockInv, Dialling, Listening
<1> USE DEF Socks, Conns, Listeners, States, In, Goto, Connectable
<1>1. ASSUME StartBind \/ FinishBind \/ StartConnect PROVE Dialling' /\ Listening'
  BY <1>1 DEF StartBind, FinishBind, StartConnect
<1>2. ASSUME FinishConnect PROVE Dialling' /\ Listening'
  <2>1. Listening'
    BY <1>2 DEF FinishConnect
  <2>2. CASE sock.dial = "failed"
    BY <1>2, <2>1, <2>2 DEF FinishConnect
  <2>3. CASE sock.dial # "failed"
    <3>1. PICK applied \in BOOLEAN :
            /\ sock' = [sock EXCEPT !.state = "connected", !.minted = applied]
            /\ conn' = [conn EXCEPT !.held = TRUE]
      BY <1>2, <2>3 DEF FinishConnect
    <3>2. /\ sock' \in Socks /\ sock'.state = "connected" /\ sock'.dial = sock.dial
          /\ sock'.minted = applied /\ sock'.alive = sock.alive
      BY <3>1
    <3> QED BY <1>2, <2>1, <3>1, <3>2 DEF FinishConnect
  <2> QED BY <2>2, <2>3
<1>3. ASSUME StartListen PROVE Dialling' /\ Listening'
  BY <1>3 DEF StartListen
<1>4. ASSUME FinishListen PROVE Dialling' /\ Listening'
  <2>1. CASE listener.up = "failed"
    <3>1. /\ sock' = [sock EXCEPT !.state = "closed"] /\ conn' = conn
          /\ listener' = [listener EXCEPT !.closed = TRUE, !.queue = 0]
          /\ sock.alive /\ sock.state = "listen-in-progress"
      BY <1>4, <2>1 DEF FinishListen, Closed
    <3>2. Dialling'
      BY <3>1
    <3>3. 0 \in 0..MaxQueuedConnections
      OBVIOUS
    <3>4. Listening'
      BY <3>1, <3>3
    <3> QED BY <3>2, <3>4
  <2>2. CASE listener.up # "failed"
    BY <1>4, <2>2 DEF FinishListen
  <2> QED BY <2>1, <2>2
<1>5. ASSUME Accept \/ Connection PROVE Dialling' /\ Listening'
  BY <1>5 DEF Accept, Connection
<1>6. ASSUME Dispose PROVE Dialling' /\ Listening'
  <2>1. /\ sock' = [sock EXCEPT !.alive = FALSE, !.state = "closed"] /\ sock.alive
        /\ conn' = IF conn.held THEN [conn EXCEPT !.os = "closed", !.held = FALSE] ELSE conn
        /\ listener' = IF listener.up = "none" THEN listener
                       ELSE [listener EXCEPT !.closed = TRUE, !.queue = 0]
    BY <1>6 DEF Dispose, Closes, Closed
  <2>2. Listening'
    <3>1. CASE listener.up = "none"
      BY <2>1, <3>1
    <3>2. CASE listener.up # "none"
      <4>1. 0 \in 0..MaxQueuedConnections
        OBVIOUS
      <4> QED BY <2>1, <3>2, <4>1
    <3> QED BY <3>1, <3>2
  <2>3. Dialling'
    <3>1. CASE conn.held
      BY <2>1, <3>1
    <3>2. CASE ~conn.held
      BY <2>1, <3>2
    <3> QED BY <3>1, <3>2
  <2> QED BY <2>2, <2>3
<1>7. ASSUME NEW ok \in BOOLEAN, DialSettles(ok) PROVE Dialling' /\ Listening'
  BY <1>7 DEF DialSettles
<1>8. ASSUME (\E ok \in BOOLEAN : ListenSettles(ok)) \/ ListenerFails PROVE Dialling' /\ Listening'
  BY <1>8 DEF ListenSettles, ListenerFails
<1>9. ASSUME PeerSends \/ \E how \in {"fin", "reset"} : PeerStops(how) PROVE Dialling' /\ Listening'
  BY <1>9 DEF PeerSends, PeerStops
<1>10. ASSUME Receives PROVE Dialling' /\ Listening'
  <2>1. UNCHANGED <<sock, listener>>
    BY <1>10 DEF Receives
  <2>2. \E n \in Nat : conn' = [conn EXCEPT !.inbound = @ - n] /\ n <= conn.inbound
    <3>1. conn.inbound \in Nat /\ conn.inbound - 0 = conn.inbound
      OBVIOUS
    <3>2. CASE conn' = conn
      <4>1. conn' = [conn EXCEPT !.inbound = @ - 0]
        BY <3>1, <3>2
      <4> QED BY <3>1, <4>1
    <3>3. CASE conn' # conn
      <4>1. PICK n \in 1..conn.inbound : conn' = [conn EXCEPT !.inbound = @ - n]
        BY <1>10, <3>3 DEF Receives
      <4>2. n \in Nat /\ n <= conn.inbound
        BY <3>1
      <4> QED BY <4>1, <4>2
    <3> QED BY <3>2, <3>3
  <2>3. PICK n \in Nat : conn' = [conn EXCEPT !.inbound = @ - n] /\ n <= conn.inbound
    BY <2>2
  <2>4. conn.inbound - n \in 0..MaxInbound
    BY <2>3
  <2> QED BY <2>1, <2>3, <2>4
<1>11. ASSUME UNCHANGED <<sock, conn, listener>> PROVE Dialling' /\ Listening'
  BY <1>11
<1> HIDE DEF SockInv, Dialling, Listening, Socks, Conns, Listeners, States, In, Goto, Connectable
<1>12. Next => \/ StartBind \/ FinishBind \/ StartConnect \/ FinishConnect \/ StartListen \/ FinishListen
               \/ Accept \/ Connection \/ Dispose \/ (\E ok \in BOOLEAN : DialSettles(ok) \/ ListenSettles(ok))
               \/ ListenerFails \/ PeerSends \/ (\E how \in {"fin", "reset"} : PeerStops(how)) \/ Receives
               \/ UNCHANGED <<sock, conn, listener>>
  BY DEF Next, Guest, Platform, Shutdown, FinGoes, SinkStep, SinkBegins, SinkEnds, SinkDrains, Resumption,
     Return, Still
<1> QED BY <1>1, <1>2, <1>3, <1>4, <1>5, <1>6, <1>7, <1>8, <1>9, <1>10, <1>11, <1>12 DEF vars, io

\* What becomes ready in a step is among ps, and so is what is drained.
Opens(ps) ==
  /\ \A p \in Pollables \ ps : Ready(p)' => Ready(p)
  /\ "out" \in ps \/ (OutDrained' => OutDrained)

\* A step that changes only what belongs to ps opens nothing else.
LEMMA OpensThese ==
  ASSUME NEW ps,
         "in" \in ps \/ (InReady' => InReady),
         "out" \in ps \/ ((OutReady' => OutReady) /\ (OutDrained' => OutDrained)),
         "dial" \in ps \/ (sock'.dial \in {"ok", "failed"} => sock.dial \in {"ok", "failed"}),
         "listen" \in ps \/ (listener'.up \in {"live", "failed"} => listener.up \in {"live", "failed"}),
         \/ "accept" \in ps
         \/ listener'.queue > 0 \/ listener'.up = "failed" \/ listener'.closed =>
              listener.queue > 0 \/ listener.up = "failed" \/ listener.closed
  PROVE  Opens(ps)
BY DEF Opens, Ready, Pollables

\* Who is signalled looks again, the others wait for what is still not there.
LEMMA SignalledPark ==
  ASSUME Parked, NEW ps, Signal(ps), Opens(ps)
  PROVE  Parked'
<1> USE DEF Parked, Signal, Opens
<1>1. frames' \in [Frames -> Parkings]
  BY DEF Parkings
<1>2. ASSUME NEW f \in Frames
      PROVE  /\ frames'[f].in = frames[f].in /\ frames'[f].on = frames[f].on
             /\ frames'[f].woken = (frames[f].woken \/ frames[f].on \cap ps # {})
  BY <1>2 DEF Parkings
<1>3. ASSUME NEW f \in Frames, frames'[f] # Idle, ~frames'[f].woken
      PROVE  ~Satisfied(f, ReadyNow)'
  <2>1. ~frames[f].woken /\ frames[f].on \cap ps = {}
    BY <1>2, <1>3
  <2>2. frames[f] # Idle
    <3>1. frames'[f] = [frames[f] EXCEPT !.woken = frames[f].woken \/ frames[f].on \cap ps # {}]
      OBVIOUS
    <3>2. ASSUME frames[f] = Idle PROVE FALSE
      <4>1. PICK i \in {"none", "read", "flush", "poll"}, o \in {{}, {"in"}, {"out"}} \cup PollSets,
                w \in BOOLEAN : frames'[f] = [in |-> i, on |-> o, woken |-> w]
        BY <1>1 DEF Parkings
      <4>2. i = "none" /\ o = {} /\ ~w
        BY <1>2, <1>3, <3>2, <4>1 DEF Idle
      <4>3. frames'[f] = [in |-> "none", on |-> {}, woken |-> FALSE]
        BY <4>1, <4>2
      <4> QED BY <1>3, <4>3 DEF Idle
    <3> QED BY <3>2
  <2>3. ~Satisfied(f, ReadyNow)
    BY <2>1, <2>2
  <2>4. CASE frames[f].in = "read"
    BY <1>2, <2>1, <2>3, <2>4 DEF Satisfied, Ready, Pollables
  <2>5. CASE frames[f].in = "flush"
    BY <1>2, <2>1, <2>3, <2>5 DEF Satisfied
  <2>6. CASE frames[f].in \notin {"read", "flush"}
    BY <1>2, <2>1, <2>3, <2>6 DEF Satisfied, ReadyNow
  <2> QED BY <2>4, <2>5, <2>6
<1> QED BY <1>1, <1>2, <1>3

\* Without a signal, what was not ready is not ready now.
LEMMA UnsignalledPark ==
  ASSUME Parked, frames' = frames, Opens({})
  PROVE  Parked'
<1>1. Signal({})
  BY DEF Parked, Parkings, Signal
<1> QED BY <1>1, SignalledPark

\* A frame that parks has looked; one that runs on is idle or has looked again.
LEMMA MovesPark ==
  ASSUME Parked, UNCHANGED <<sock, listener, output>>, NEW f \in Frames, NEW g \in Parkings,
         frames' = [frames EXCEPT ![f] = g],
         InReady' => InReady,
         g.in = "read" => g.on = {"in"}, g.in = "flush" => g.on = {"out"},
         g # Idle => ~Satisfied(f, ReadyNow)'
  PROVE  Parked'
<1> USE DEF Parked
<1>1. Opens({})
  BY OpensThese DEF OutReady, OutDrained
<1>2. ASSUME NEW h \in Frames, h # f, frames[h] # Idle, ~frames[h].woken
      PROVE  ~Satisfied(h, ReadyNow)'
  <2>1. frames'[h] = frames[h] /\ ~Satisfied(h, ReadyNow)
    BY <1>2
  <2>2. CASE frames[h].in = "read"
    BY <2>1, <2>2 DEF Satisfied
  <2>3. CASE frames[h].in = "flush"
    BY <2>1, <2>3 DEF Satisfied, OutDrained
  <2>4. CASE frames[h].in \notin {"read", "flush"}
    BY <1>1, <2>1, <2>4 DEF Satisfied, ReadyNow, Opens
  <2> QED BY <2>2, <2>3, <2>4
<1> QED BY <1>2

\* Every step that makes something ready signals those who wait for it.
LEMMA ParkedNext ==
  ASSUME SockInv, [Next]_vars
  PROVE  Parked'
<1> USE DEF SockInv
<1>1. ASSUME StartBind \/ FinishBind \/ StartConnect \/ FinishConnect \/ StartListen \/ Accept
      PROVE  Parked'
  <2>1. frames' = frames /\ input' = input /\ output' = output
    BY <1>1 DEF StartBind, FinishBind, StartConnect, FinishConnect, StartListen, Accept, io
  <2>2. /\ sock'.dial \in {"pending", sock.dial}
        /\ listener'.up \in {"binding", listener.up} /\ listener'.closed = listener.closed
        /\ listener'.queue > 0 => listener.queue > 0
    BY <1>1 DEF StartBind, FinishBind, StartConnect, FinishConnect, StartListen, Accept, Goto,
                Dialling, Listening, Socks, Listeners
  <2>3. Opens({})
    BY <2>1, <2>2, OpensThese DEF InReady, OutReady, OutDrained
  <2> QED BY <2>1, <2>3, UnsignalledPark
<1>2. ASSUME FinishListen PROVE Parked'
  <2>1. input' = input /\ output' = output /\ sock'.dial = sock.dial
    BY <1>2 DEF FinishListen, Goto, Dialling, Socks
  <2>2. CASE listener.up = "failed"
    <3>1. Signal({"accept"}) /\ listener'.up = listener.up
      BY <1>2, <2>2 DEF FinishListen, Closed, Listening, Listeners
    <3>2. Opens({"accept"})
      BY <2>1, <3>1, OpensThese DEF InReady, OutReady, OutDrained
    <3> QED BY <3>1, <3>2, SignalledPark
  <2>3. CASE listener.up # "failed"
    <3>1. frames' = frames /\ listener' = listener
      BY <1>2, <2>3 DEF FinishListen
    <3>2. Opens({})
      BY <2>1, <3>1, OpensThese DEF InReady, OutReady, OutDrained
    <3> QED BY <3>1, <3>2, UnsignalledPark
  <2> QED BY <2>2, <2>3
<1>3. ASSUME Dispose PROVE Parked'
  <2>1. sock'.dial = sock.dial /\ listener'.up = listener.up /\ Signal({"in", "out", "accept"})
    BY <1>3 DEF Dispose, Closed, Dialling, Socks, Listening, Listeners
  <2>2. Opens({"in", "out", "accept"})
    BY <2>1, OpensThese
  <2> QED BY <2>1, <2>2, SignalledPark
<1>4. ASSUME NEW how, Shutdown(how) PROVE Parked'
  <2>1. /\ sock' = sock /\ listener' = listener /\ output' = output
        /\ Signal({"in"}) \/ (frames' = frames /\ input' = input)
    BY <1>4 DEF Shutdown
  <2>2. Opens({"in"}) /\ (input' = input => Opens({}))
    BY <2>1, OpensThese DEF InReady, OutReady, OutDrained
  <2> QED BY <2>1, <2>2, SignalledPark, UnsignalledPark
<1>5. ASSUME Still, NEW n \in Chunks, Read(n) \/ Write(n) PROVE Parked'
  <2>1. frames' = frames /\ sock' = sock /\ listener' = listener
    BY <1>5 DEF Still, Read, Write
  <2>2. InReady' => InReady
    BY <1>5 DEF Read, Write, InReady
  <2>3. /\ output.queued \in Int /\ output'.queued \in Int /\ output'.queued >= output.queued
        /\ output'.closed = output.closed /\ output'.failed = output.failed
    <3>1. output.queued \in Int /\ n \in Nat
      BY IoAssumption DEF Draining, Outputs, Chunks
    <3>2. CASE Read(n)
      BY <3>1, <3>2 DEF Read
    <3>3. CASE Write(n)
      <4>1. /\ output'.queued = output.queued + n /\ output'.closed = output.closed
            /\ output'.failed = output.failed
        BY <3>3 DEF Write, Draining, Outputs
      <4> QED BY <3>1, <4>1
    <3> QED BY <1>5, <3>2, <3>3
  <2>4. (OutReady' => OutReady) /\ (OutDrained' => OutDrained)
    BY <2>3, IoAssumption DEF OutReady, OutDrained
  <2>5. Opens({})
    BY <2>1, <2>2, <2>4, OpensThese
  <2> QED BY <2>1, <2>5, UnsignalledPark
<1>6. ASSUME Still, DropInput \/ DropOutput PROVE Parked'
  <2>1. sock' = sock /\ listener' = listener
    BY <1>6 DEF Still
  <2>2. CASE DropInput
    <3>1. Opens({"in"}) /\ Signal({"in"})
      BY <2>1, <2>2, OpensThese DEF DropInput, OutReady, OutDrained
    <3> QED BY <3>1, SignalledPark
  <2>3. CASE DropOutput
    <3>1. Opens({"out"}) /\ Signal({"out"})
      BY <2>1, <2>3, OpensThese DEF DropOutput, InReady
    <3> QED BY <3>1, SignalledPark
  <2> QED BY <1>6, <2>2, <2>3
<1>7. ASSUME Still, NEW f \in Frames,
             BlockingRead(f) \/ BlockingFlush(f) \/ \E ps \in PollSets : Poll(f, ps, ReadyNow)
      PROVE  Parked'
  <2>1. /\ UNCHANGED <<sock, listener, output, input>>
        /\ \E what \in {"read", "flush", "poll"}, on \in {{"in"}, {"out"}} \cup PollSets :
             /\ frames' = [frames EXCEPT ![f] = [in |-> what, on |-> on, woken |-> FALSE]]
             /\ what = "read" => on = {"in"} /\ ~InReady
             /\ what = "flush" => on = {"out"} /\ output.queued > 0 /\ ~output.failed
             /\ what = "poll" => on \cap ReadyNow = {}
    BY <1>7 DEF Still, BlockingRead, BlockingFlush, Poll, Park, Writable
  <2>2. PICK what \in {"read", "flush", "poll"}, on \in {{"in"}, {"out"}} \cup PollSets :
             /\ frames' = [frames EXCEPT ![f] = [in |-> what, on |-> on, woken |-> FALSE]]
             /\ what = "read" => on = {"in"} /\ ~InReady
             /\ what = "flush" => on = {"out"} /\ output.queued > 0 /\ ~output.failed
             /\ what = "poll" => on \cap ReadyNow = {}
    BY <2>1
  <2> DEFINE g == [in |-> what, on |-> on, woken |-> FALSE]
  <2>3. g \in Parkings /\ g.in = what /\ g.on = on
    BY DEF Parkings
  <2>4. frames'[f].in = what /\ frames'[f].on = on
    BY <2>2 DEF Parked
  <2>5. ReadyNow' = ReadyNow /\ InReady' = InReady /\ OutDrained' = OutDrained
    BY <2>1 DEF ReadyNow, Ready, InReady, OutReady, OutDrained
  <2>6. ~Satisfied(f, ReadyNow)'
    BY <2>2, <2>4, <2>5 DEF Satisfied, OutDrained
  <2> QED BY <2>1, <2>2, <2>3, <2>5, <2>6, MovesPark
<1>8. ASSUME NEW ok \in BOOLEAN, DialSettles(ok) PROVE Parked'
  <2>1. Opens({"dial"}) /\ Signal({"dial"})
    BY <1>8, OpensThese DEF DialSettles, InReady, OutReady, OutDrained
  <2> QED BY <2>1, SignalledPark
<1>9. ASSUME NEW ok \in BOOLEAN, ListenSettles(ok) PROVE Parked'
  <2>1. /\ UNCHANGED <<sock, input, output>> /\ listener'.queue = listener.queue
        /\ listener'.closed = listener.closed /\ listener'.up = (IF ok THEN "live" ELSE "failed")
    BY <1>9 DEF ListenSettles, Listening, Listeners
  <2>2. CASE ok
    <3>1. Opens({"listen"}) /\ Signal({"listen"})
      BY <1>9, <2>1, <2>2, OpensThese DEF ListenSettles, InReady, OutReady, OutDrained
    <3> QED BY <3>1, SignalledPark
  <2>3. CASE ~ok
    <3>1. Opens({"listen", "accept"}) /\ Signal({"listen", "accept"})
      BY <1>9, <2>1, <2>3, OpensThese DEF ListenSettles, InReady, OutReady, OutDrained
    <3> QED BY <3>1, SignalledPark
  <2> QED BY <2>2, <2>3
<1>10. ASSUME ListenerFails \/ Connection PROVE Parked'
  <2>1. /\ UNCHANGED <<sock, input, output>> /\ Signal({"accept"})
        /\ listener'.up \in {"live", "failed"} => listener.up \in {"live", "failed"}
    BY <1>10 DEF ListenerFails, Connection
  <2>2. Opens({"accept"})
    BY <2>1, OpensThese DEF InReady, OutReady, OutDrained
  <2> QED BY <2>1, <2>2, SignalledPark
<1>11. ASSUME Receives PROVE Parked'
  <2>1. /\ UNCHANGED <<sock, listener, output>>
        /\ Signal({"in"}) \/ (frames' = frames /\ input.closed)
    BY <1>11 DEF Receives, Fed, FeedEnds
  <2>2. Opens({"in"}) /\ (input.closed => Opens({}))
    BY <2>1, OpensThese DEF InReady, OutReady, OutDrained
  <2> QED BY <2>1, <2>2, SignalledPark, UnsignalledPark
<1>12. ASSUME SinkStep PROVE Parked'
  <2>1. UNCHANGED <<sock, listener, input>>
    BY <1>12 DEF SinkStep, SinkBegins, SinkEnds, SinkDrains
  <2>2. CASE SinkBegins
    <3>1. /\ frames' = frames /\ output'.queued = output.queued
          /\ output'.closed = output.closed /\ output'.failed = output.failed
      BY <2>2 DEF SinkBegins, SinkCalled, Draining, Outputs
    <3>2. Opens({})
      BY <2>1, <3>1, OpensThese DEF InReady, OutReady, OutDrained
    <3> QED BY <3>1, <3>2, UnsignalledPark
  <2>3. CASE ~SinkBegins
    <3>1. Signal({"out"})
      BY <1>12, <2>3 DEF SinkStep, SinkDrains, SinkEnds, SinkSettles, SinkSkips
    <3>2. Opens({"out"})
      BY <2>1, OpensThese DEF InReady
    <3> QED BY <3>1, <3>2, SignalledPark
  <2> QED BY <2>2, <2>3
<1>13. ASSUME Resumption PROVE Parked'
  <2>1. /\ UNCHANGED <<sock, listener, output, frames>> /\ input'.buffered = input.buffered
        /\ input'.eof = input.eof /\ input'.closed = input.closed
    BY <1>13 DEF Resumption, FeedResumes, Still, Feeding, Inputs
  <2>2. Opens({})
    BY <2>1, OpensThese DEF InReady, OutReady, OutDrained
  <2> QED BY <2>1, <2>2, UnsignalledPark
<1>14. ASSUME NEW f \in Frames, Return(f) PROVE Parked'
  <2>1. PICK n \in Chunks : Wakes(f, n, ReadyNow) /\ Still
    BY <1>14 DEF Return
  <2>2. UNCHANGED <<sock, listener, output>>
    BY <2>1 DEF Wakes, Still
  <2>3. CASE Satisfied(f, ReadyNow)
    <3>1. frames' = [frames EXCEPT ![f] = Idle] /\ input' \in {input, Taken(n)}
      BY <2>1, <2>3 DEF Wakes
    <3>2. InReady' => InReady
      BY <3>1, IoAssumption DEF InReady, Taken, Resume, Feeding, Inputs, Chunks
    <3>3. Idle \in Parkings /\ Idle.in = "none"
      BY DEF Idle, Parkings
    <3> QED BY <2>2, <3>1, <3>2, <3>3, MovesPark
  <2>4. CASE ~Satisfied(f, ReadyNow)
    <3> DEFINE g == [frames[f] EXCEPT !.woken = FALSE]
    <3>1. frames' = [frames EXCEPT ![f] = g] /\ input' = input
      BY <2>1, <2>4 DEF Wakes
    <3>2. /\ frames[f] \in Parkings /\ g \in Parkings /\ g.in = frames[f].in /\ g.on = frames[f].on
          /\ frames'[f] = g
      BY <3>1 DEF Parked, Parkings
    <3>3. ReadyNow' = ReadyNow /\ InReady' = InReady /\ OutDrained' = OutDrained
      BY <2>2, <3>1 DEF ReadyNow, Ready, InReady, OutReady, OutDrained
    <3>4. ~Satisfied(f, ReadyNow)'
      BY <2>4, <3>2, <3>3 DEF Satisfied
    <3> QED BY <2>2, <3>1, <3>2, <3>3, <3>4, MovesPark DEF Parked
  <2> QED BY <2>3, <2>4
<1>15. ASSUME UNCHANGED <<sock, listener, input, output, frames>> PROVE Parked'
  <2>1. Opens({})
    BY <1>15, OpensThese DEF InReady, OutReady, OutDrained
  <2> QED BY <1>15, <2>1, UnsignalledPark
<1>16. Next => \/ StartBind \/ FinishBind \/ StartConnect \/ FinishConnect \/ StartListen \/ Accept
               \/ FinishListen \/ Dispose \/ (\E how \in {"receive", "send", "both"} : Shutdown(how))
               \/ Still /\ \/ \E n \in Chunks : Read(n) \/ Write(n)
                           \/ DropInput \/ DropOutput
                           \/ \E f \in Frames : \/ BlockingRead(f) \/ BlockingFlush(f)
                                               \/ \E ps \in PollSets : Poll(f, ps, ReadyNow)
               \/ (\E ok \in BOOLEAN : DialSettles(ok) \/ ListenSettles(ok)) \/ ListenerFails \/ Connection
               \/ Receives \/ SinkStep \/ Resumption \/ (\E f \in Frames : Return(f))
               \/ UNCHANGED <<sock, listener, input, output, frames>>
  BY DEF Next, Guest, Platform, PeerSends, PeerStops, FinGoes, io
<1> QED BY <1>1, <1>2, <1>3, <1>4, <1>5, <1>6, <1>7, <1>8, <1>9, <1>10, <1>11, <1>12, <1>13, <1>14,
           <1>15, <1>16 DEF vars, io

\* The socket of 0.2 keeps its invariant.
LEMMA SockNext ==
  ASSUME SockInv, [Next]_vars
  PROVE  SockInv'
BY FeedingNext, DrainingNext, DiallingNext, ParkedNext DEF SockInv

\* What it says of the socket.
LEMMA SockSafe == SockInv => TypeOK /\ NoLostWakeup /\ DropReleases
<1> SUFFICES ASSUME SockInv PROVE TypeOK /\ NoLostWakeup /\ DropReleases
  OBVIOUS
<1> USE DEF SockInv
<1>1. TypeOK
  BY DEF TypeOK, IoTypeOK, Feeding, Inputs, Draining, Outputs, Dialling, Socks, Conns, Listening,
         Listeners, Parked, Parkings
<1>2. NoLostWakeup
  BY DEF NoLostWakeup, Parked, Feeding
<1>3. DropReleases
  BY DEF DropReleases, Dialling, Listening
<1> QED BY <1>1, <1>2, <1>3

\* After the drop no step opens a connection.
LEMMA SockCloses ==
  ASSUME SockInv, [Next]_vars, ~sock.alive
  PROVE  conn'.os \in {conn.os, "closed"}
<1> USE DEF SockInv, Dialling, Socks, Conns
<1>1. ASSUME conn' = conn PROVE conn'.os \in {conn.os, "closed"}
  BY <1>1
<1>2. ASSUME NEW ok \in BOOLEAN, DialSettles(ok) PROVE conn'.os \in {conn.os, "closed"}
  BY <1>2 DEF DialSettles
<1>3. Guest => conn' = conn
  <2>1. ASSUME \/ StartBind \/ FinishBind \/ StartConnect \/ FinishConnect \/ StartListen
               \/ FinishListen \/ Accept \/ Dispose
        PROVE  conn' = conn
    BY <2>1 DEF StartBind, FinishBind, StartConnect, FinishConnect, StartListen, FinishListen,
         Accept, Dispose, In
  <2>2. ASSUME NEW how \in {"receive", "send", "both"}, Shutdown(how) PROVE conn' = conn
    BY <2>2 DEF Shutdown
  <2> QED BY <2>1, <2>2 DEF Guest, Still
<1>4. Platform => (\E ok \in BOOLEAN : DialSettles(ok)) \/ conn'.os = conn.os
  <2>1. ASSUME \/ ListenerFails \/ Connection \/ FinGoes \/ Resumption \/ SinkStep
               \/ \E ok \in BOOLEAN : ListenSettles(ok)
        PROVE  conn' = conn
    BY <2>1 DEF ListenSettles, ListenerFails, Connection, FinGoes, SinkStep, SinkBegins, SinkEnds, SinkDrains,
         Resumption, Still
  <2>2. ASSUME PeerSends \/ Receives \/ (\E how \in {"fin", "reset"} : PeerStops(how))
        PROVE  conn'.os = conn.os
    BY <2>2 DEF PeerSends, PeerStops, Receives
  <2> QED BY <2>1, <2>2 DEF Platform
<1>5. ASSUME NEW f \in Frames, Return(f) PROVE conn' = conn
  BY <1>5 DEF Return, Still
<1> QED BY <1>1, <1>2, <1>3, <1>4, <1>5 DEF Next, vars

-----------------------------------------------------------------------------
(* The TCP socket of 0.3: one OS socket under several users.                   *)

\* The types of the parts of a socket of 0.3.
SocketStates == {"unbound", "bound", "connecting", "connected", "listening", "closed"}
SocketConns == [os : {"none", "open", "closed"}, held : BOOLEAN, peer : {"open", "fin", "reset"},
                 data : BOOLEAN]
SocketListeners ==
  [call : {"none", "parked", "over"}, up : {"none", "binding", "live", "failed", "closed"},
    queue : 0..MaxQueue]
Accepts == [at : {"none", "accept", "spin", "yield", "over"}, gone : BOOLEAN]
Sendings ==
  [at : {"none", "pull", "write", "fin", "over"},
    future : {"none", "pending", "ok", "err", "rejected"},
   source : {"none", "open", "ended", "dropped"}]
Receivings ==
  [at : {"none", "read", "yield", "over"}, gone : BOOLEAN,
    future : {"none", "pending", "ok", "err"}]

\* Every part but the listeners and the count has its type.
Typed ==
  /\ state \in SocketStates /\ handle \in BOOLEAN /\ dial \in {"none", "pending", "over"}
  /\ conn3 \in SocketConns /\ sending \in Sendings /\ receiving \in Receivings

\* A user of the socket counts for one.
One(b) == IF b THEN 1 ELSE 0
\* The accept streams that run.
LiveAccepts == {l \in Listens : T3!AcceptLive(l)}

\* #refs counts the users: the handle, the pump of send, the source of receive, and the
\* accept streams.
Counted ==
  refs = One(handle) + One(T3!SendLive) + One(T3!ReceiveLive) + Cardinality(LiveAccepts)

\* The connection is #conn as long as it is open; who sends or receives has one; a dial
\* finds none, and settles on a socket whose handle is there, or is hung up.
Owned ==
  /\ conn3.held <=> conn3.os = "open"
  /\ T3!SendLive \/ T3!ReceiveLive => conn3.held
  /\ state \in T3!Connectable => dial = "none" /\ conn3.os = "none"
  /\ dial = "pending" => conn3.os = "none"
  /\ state \in T3!Connectable \cup {"connecting"} => handle
  /\ refs = 0 => ~conn3.held

\* An accept stream that was not dropped has its listener; a listener that is live is
\* #listener, or a later call of listen has taken its place.
Accepting ==
  /\ listener3 \in [Listens -> SocketListeners] /\ accepts \in [Listens -> Accepts]
  /\ current \in Listens \cup {None}
  /\ refs = 0 => current = None
  /\ \A l \in Listens :
       /\ listener3[l].call # "over" => accepts[l].at = "none"
       /\ T3!AcceptLive(l) /\ ~accepts[l].gone => listener3[l].up \in {"live", "failed"}
       /\ listener3[l].up = "live" => current = l \/ \E k \in Listens \ {l} : accepts[k].at # "none"

\* What is over has settled its future, and has ended or dropped the stream of the guest.
Settling ==
  /\ sending.at = "fin" => sending.source = "ended"
  /\ T3!FuturesSettle

\* What the socket of 0.3 keeps.
SharedInv == Typed /\ Counted /\ Owned /\ Accepting /\ Settling

\* A fresh socket, and an element of an accept stream.
LEMMA SharedInit ==
  ASSUME T3!Init
  PROVE  SharedInv
<1> USE ProviderAssumption DEF T3!Init, T3!SendLive, T3!ReceiveLive, T3!AcceptLive
<1>1. Typed
  <2>1. conn3 \in SocketConns
    <3>1. \/ conn3 = [os |-> "none", held |-> FALSE, peer |-> "open", data |-> FALSE]
          \/ conn3 = [os |-> "open", held |-> TRUE, peer |-> "open", data |-> FALSE]
      OBVIOUS
    <3>2. [os |-> "none", held |-> FALSE, peer |-> "open", data |-> FALSE] \in SocketConns
      BY DEF SocketConns
    <3>3. [os |-> "open", held |-> TRUE, peer |-> "open", data |-> FALSE] \in SocketConns
      BY DEF SocketConns
    <3> QED BY <3>1, <3>2, <3>3
  <2>2. sending \in Sendings /\ receiving \in Receivings
    BY DEF Sendings, Receivings
  <2> QED BY <2>1, <2>2 DEF Typed, SocketStates
<1>2. Counted
  <2>1. LiveAccepts = {}
    BY DEF LiveAccepts
  <2>2. Cardinality(LiveAccepts) = 0
    BY <2>1, FS_EmptySet
  <2> QED BY <2>2 DEF Counted, One
<1>3. Owned
  BY DEF Owned, T3!Connectable
<1>4. Accepting
  BY DEF Accepting, SocketListeners, Accepts
<1>5. Settling
  BY DEF Settling, T3!FuturesSettle
<1> QED BY <1>1, <1>2, <1>3, <1>4, <1>5 DEF SharedInv

\* Every step keeps the types.
LEMMA TypedNext ==
  ASSUME SharedInv, T3!Next
  PROVE  Typed'
<1> USE DEF SharedInv, Typed, SocketStates
<1>1. ASSUME T3!Bind \/ T3!Connect PROVE Typed'
  BY <1>1 DEF T3!Bind, T3!Connect, T3!Connectable
<1>2. ASSUME T3!Send PROVE Typed'
  BY <1>2 DEF T3!Send, Sendings
<1>3. ASSUME T3!Receive PROVE Typed'
  BY <1>3 DEF T3!Receive, Receivings
<1>4. ASSUME NEW c \in SocketConns, T3!ReleaseOf(c) PROVE conn3' \in SocketConns
  BY <1>4 DEF T3!ReleaseOf, SocketConns
<1>5. ASSUME T3!Dispose PROVE Typed'
  <2>1. conn3' \in SocketConns
    BY <1>4, <1>5 DEF T3!Dispose, T3!Release
  <2> QED BY <1>5, <2>1 DEF T3!Dispose
<1>6. ASSUME NEW ok \in BOOLEAN, T3!Dialled(ok) PROVE Typed'
  <2>1. conn3' \in SocketConns
    BY <1>6 DEF T3!Dialled, SocketConns
  <2> QED BY <1>6, <2>1 DEF T3!Dialled
<1>7. ASSUME NEW ok \in BOOLEAN, NEW l \in Listens, T3!Listened(l, ok) PROVE Typed'
  BY <1>7 DEF T3!Listened
<1>8. ASSUME NEW what \in {"chunk", "end", "trap"}, T3!SendPull(what) PROVE Typed'
  <2>1. sending' \in Sendings
    <3>1. \/ sending' = [sending EXCEPT !.at = "write"]
          \/ sending' = [sending EXCEPT !.at = "fin", !.source = "ended"]
          \/ sending' = [at |-> "over", future |-> "rejected", source |-> "ended"]
      <4>1. CASE what = "chunk"
        BY <1>8, <4>1 DEF T3!SendPull
      <4>2. CASE what = "end"
        BY <1>8, <4>2 DEF T3!SendPull
      <4>3. CASE what = "trap"
        BY <1>8, <4>3 DEF T3!SendPull
      <4> QED BY <4>1, <4>2, <4>3
    <3>2. [sending EXCEPT !.at = "write"] \in Sendings
      BY DEF Sendings
    <3>3. [sending EXCEPT !.at = "fin", !.source = "ended"] \in Sendings
      BY DEF Sendings
    <3>4. [at |-> "over", future |-> "rejected", source |-> "ended"] \in Sendings
      BY DEF Sendings
    <3> QED BY <3>1, <3>2, <3>3, <3>4
  <2>2. conn3' \in SocketConns
    BY <1>4, <1>8 DEF T3!SendPull, T3!Release
  <2> QED BY <1>8, <2>1, <2>2 DEF T3!SendPull
<1>9. ASSUME T3!SendWritten \/ T3!SendFin PROVE Typed'
  <2>1. sending' \in Sendings
    <3>1. [sending EXCEPT !.at = "pull"] \in Sendings
      BY DEF Sendings
    <3>2. [at |-> "over", future |-> "err", source |-> "dropped"] \in Sendings
      BY DEF Sendings
    <3>3. [sending EXCEPT !.at = "over", !.future = "ok"] \in Sendings
      BY DEF Sendings
    <3> QED BY <1>9, <3>1, <3>2, <3>3 DEF T3!SendWritten, T3!SendFin
  <2>2. conn3' \in SocketConns
    BY <1>4, <1>9 DEF T3!SendWritten, T3!SendFin, T3!Release
  <2> QED BY <1>9, <2>1, <2>2 DEF T3!SendWritten, T3!SendFin
<1>10. ASSUME T3!ReceiveRead \/ T3!ReceiveTaken \/ T3!ReceiveDropped PROVE Typed'
  <2>1. receiving' \in Receivings
    <3>1. ASSUME NEW f \in {"ok", "err"} PROVE [receiving EXCEPT !.at = "over",
                 !.future = f] \in Receivings
      BY DEF Receivings
    <3>2. \A at \in {"yield", "read"} : [receiving EXCEPT !.at = at] \in Receivings
      BY DEF Receivings
    <3>3. [at |-> "over", gone |-> TRUE, future |-> "ok"] \in Receivings
      BY DEF Receivings
    <3>4. [receiving EXCEPT !.gone = TRUE] \in Receivings
      BY DEF Receivings
    <3> QED
      BY <1>10, <3>1, <3>2, <3>3, <3>4 DEF T3!ReceiveRead, T3!ReceiveTaken, T3!ReceiveDropped,
         T3!Retire
  <2>2. [conn3 EXCEPT !.data = FALSE] \in SocketConns
    BY DEF SocketConns
  <2>3. conn3' \in SocketConns
    BY <1>4, <1>10, <2>2 DEF T3!ReceiveRead, T3!ReceiveTaken, T3!ReceiveDropped, T3!Retire,
       T3!Release
  <2> QED BY <1>10, <2>1, <2>3 DEF T3!ReceiveRead, T3!ReceiveTaken, T3!ReceiveDropped
<1>11. ASSUME NEW l \in Listens, \/ T3!Listen(l) \/ T3!Accepted(l) \/ T3!AcceptTaken(l)
                                 \/ T3!AcceptRetries(l)
                                 \/ T3!Connection(l) \/ T3!ListenerFails(l)
       PROVE  Typed'
  BY <1>11 DEF T3!Listen, T3!Accepted, T3!AcceptTaken, T3!AcceptRetries, T3!Connection,
       T3!ListenerFails
<1>12. ASSUME NEW l \in Listens, T3!AcceptEnds(l) \/ T3!AcceptDropped(l) PROVE Typed'
  <2>1. conn3' \in SocketConns
    BY <1>4, <1>12 DEF T3!AcceptEnds, T3!AcceptDropped, T3!Release
  <2> QED BY <1>12, <2>1 DEF T3!AcceptEnds, T3!AcceptDropped
<1>13. ASSUME NEW what \in {"data", "fin", "reset"}, T3!Peer(what) PROVE Typed'
  <2>1. conn3' \in SocketConns
    BY <1>13 DEF T3!Peer, SocketConns
  <2> QED BY <1>13, <2>1 DEF T3!Peer
<1> QED BY <1>1, <1>2, <1>3, <1>5, <1>6, <1>7, <1>8, <1>9, <1>10, <1>11, <1>12, <1>13 DEF T3!Next

\* Whoever begins takes a reference, whoever ends gives one back, once.
LEMMA CountedNext ==
  ASSUME SharedInv, T3!Next
  PROVE  Counted'
<1> USE DEF SharedInv, Typed, Counted, One, T3!SendLive, T3!ReceiveLive
<1>0. /\ IsFiniteSet(LiveAccepts) /\ Cardinality(LiveAccepts) \in Nat
      /\ handle \in BOOLEAN /\ accepts \in [Listens -> Accepts] /\ refs \in Nat
  <2>1. LiveAccepts \subseteq Listens
    BY DEF LiveAccepts
  <2>2. IsFiniteSet(LiveAccepts) /\ Cardinality(LiveAccepts) \in Nat
    BY <2>1, ProviderAssumption, FS_Subset, FS_CardinalityType
  <2> QED BY <2>2 DEF Accepting
<1>1. ASSUME accepts' = accepts PROVE Cardinality(LiveAccepts') = Cardinality(LiveAccepts)
  BY <1>1 DEF LiveAccepts, T3!AcceptLive
<1>2. ASSUME NEW l \in Listens, accepts[l].at \in {"none", "over"},
             accepts'[l].at \notin {"none", "over"},
             \A k \in Listens \ {l} : accepts'[k] = accepts[k]
      PROVE  Cardinality(LiveAccepts') = Cardinality(LiveAccepts) + 1
  <2>1. LiveAccepts' = LiveAccepts \cup {l} /\ l \notin LiveAccepts
    BY <1>2 DEF LiveAccepts, T3!AcceptLive
  <2> QED BY <1>0, <2>1, FS_AddElement
<1>3. ASSUME NEW l \in Listens, accepts[l].at \notin {"none", "over"},
             accepts'[l].at \in {"none", "over"},
             \A k \in Listens \ {l} : accepts'[k] = accepts[k]
      PROVE  Cardinality(LiveAccepts') = Cardinality(LiveAccepts) - 1
  <2>1. LiveAccepts' = LiveAccepts \ {l} /\ l \in LiveAccepts
    BY <1>3 DEF LiveAccepts, T3!AcceptLive
  <2> QED BY <1>0, <2>1, FS_RemoveElement
<1>4. ASSUME NEW l \in Listens, accepts[l].at \notin {"none", "over"},
             accepts'[l].at \notin {"none", "over"},
             \A k \in Listens \ {l} : accepts'[k] = accepts[k]
      PROVE  Cardinality(LiveAccepts') = Cardinality(LiveAccepts)
  <2>1. LiveAccepts' = LiveAccepts
    BY <1>4 DEF LiveAccepts, T3!AcceptLive
  <2> QED BY <2>1
<1>5. ASSUME NEW c, T3!ReleaseOf(c) PROVE refs' = refs - 1
  BY <1>5 DEF T3!ReleaseOf
<1>6. ASSUME T3!Bind \/ T3!Connect PROVE Counted'
  <2>1. accepts' = accepts
    BY <1>6 DEF T3!Bind, T3!Connect
  <2> QED BY <1>1, <1>6, <2>1 DEF T3!Bind, T3!Connect
<1>7. ASSUME T3!Send \/ T3!Receive PROVE Counted'
  <2>1. accepts' = accepts /\ refs' = refs + 1 /\ handle' = handle
    BY <1>7 DEF T3!Send, T3!Receive
  <2>2. Cardinality(LiveAccepts') = Cardinality(LiveAccepts)
    BY <1>1, <2>1
  <2>3. CASE T3!Send
    <3>1. T3!ReceiveLive' <=> T3!ReceiveLive
      BY <2>3 DEF T3!Send
    <3>2. ~T3!SendLive /\ T3!SendLive'
      BY <2>3 DEF T3!Send
    <3> QED BY <1>0, <2>1, <2>2, <3>1, <3>2
  <2>4. CASE T3!Receive
    <3>1. T3!SendLive' <=> T3!SendLive
      BY <2>4 DEF T3!Receive
    <3>2. ~T3!ReceiveLive /\ T3!ReceiveLive'
      BY <2>4 DEF T3!Receive
    <3> QED BY <1>0, <2>1, <2>2, <3>1, <3>2
  <2> QED BY <1>7, <2>3, <2>4
<1>8. ASSUME T3!Dispose PROVE Counted'
  <2>1. refs' = refs - 1 /\ accepts' = accepts /\ sending' = sending /\ receiving' = receiving
    BY <1>5, <1>8 DEF T3!Dispose, T3!Release
  <2>2. Cardinality(LiveAccepts') = Cardinality(LiveAccepts)
    BY <1>1, <2>1
  <2>3. handle /\ ~handle'
    BY <1>8 DEF T3!Dispose
  <2> QED BY <1>0, <2>1, <2>2, <2>3
<1>9. ASSUME NEW ok \in BOOLEAN, T3!Dialled(ok) PROVE Counted'
  <2>1. accepts' = accepts
    BY <1>9 DEF T3!Dialled
  <2> QED BY <1>1, <1>9, <2>1 DEF T3!Dialled
<1>10. ASSUME NEW ok \in BOOLEAN, NEW l \in Listens, T3!Listened(l, ok) PROVE Counted'
  <2>1. CASE ok
    <3>1. accepts[l].at = "none"
      BY <1>10 DEF T3!Listened, Accepting
    <3>2. accepts'[l].at = "accept" /\ \A k \in Listens \ {l} : accepts'[k] = accepts[k]
      BY <1>0, <1>10, <2>1 DEF T3!Listened, Accepts
    <3>3. Cardinality(LiveAccepts') = Cardinality(LiveAccepts) + 1
      BY <1>2, <3>1, <3>2
    <3>4. refs' = refs + 1 /\ sending' = sending /\ receiving' = receiving /\ handle' = handle
      BY <1>10, <2>1 DEF T3!Listened
    <3> QED BY <1>0, <3>3, <3>4
  <2>2. CASE ~ok
    <3>1. accepts' = accepts
      BY <1>10, <2>2 DEF T3!Listened
    <3> QED BY <1>1, <1>10, <2>2, <3>1 DEF T3!Listened
  <2> QED BY <2>1, <2>2
<1>11. ASSUME sending' = sending, receiving' = receiving, accepts' = accepts, handle' = handle,
              refs' = refs
       PROVE  Counted'
  BY <1>1, <1>11
<1>12. ASSUME T3!SendLive, receiving' = receiving, accepts' = accepts, handle' = handle,
              \/ sending'.at = "over" /\ T3!Release
              \/ sending'.at \in {"pull", "write", "fin"} /\ refs' = refs
       PROVE  Counted'
  <2>1. Cardinality(LiveAccepts') = Cardinality(LiveAccepts)
    BY <1>1, <1>12
  <2>2. CASE sending'.at = "over" /\ T3!Release
    <3>1. refs' = refs - 1
      BY <1>5, <2>2 DEF T3!Release
    <3> QED BY <1>0, <1>12, <2>1, <2>2, <3>1
  <2>3. CASE sending'.at \in {"pull", "write", "fin"} /\ refs' = refs
    BY <1>0, <1>12, <2>1, <2>3
  <2> QED BY <1>12, <2>2, <2>3
<1>13. ASSUME NEW what \in {"chunk", "end", "trap"}, T3!SendPull(what) PROVE Counted'
  <2>1. T3!SendLive /\ receiving' = receiving /\ accepts' = accepts /\ handle' = handle
    BY <1>13 DEF T3!SendPull
  <2>2. CASE what \in {"chunk", "end"}
    <3>1. sending'.at \in {"write", "fin"} /\ refs' = refs
      BY <1>13, <2>2 DEF T3!SendPull, Sendings
    <3> QED BY <1>12, <2>1, <3>1
  <2>3. CASE what = "trap"
    <3>1. sending'.at = "over" /\ T3!Release
      BY <1>13, <2>3 DEF T3!SendPull
    <3> QED BY <1>12, <2>1, <3>1
  <2> QED BY <2>2, <2>3
<1>14. ASSUME T3!SendWritten \/ T3!SendFin PROVE Counted'
  <2>1. T3!SendLive /\ receiving' = receiving /\ accepts' = accepts /\ handle' = handle
    BY <1>14 DEF T3!SendWritten, T3!SendFin
  <2>2. CASE T3!SendFin
    <3>1. sending'.at = "over" /\ T3!Release
      BY <2>2 DEF T3!SendFin, Sendings
    <3> QED BY <1>12, <2>1, <3>1
  <2>3. CASE T3!SendWritten
    <3>1. (sending'.at = "pull" /\ refs' = refs) \/ (sending'.at = "over" /\ T3!Release)
      BY <2>3 DEF T3!SendWritten, Sendings
    <3> QED BY <1>12, <2>1, <3>1
  <2> QED BY <1>14, <2>2, <2>3
<1>15. ASSUME T3!ReceiveLive, sending' = sending, accepts' = accepts, handle' = handle,
              \/ receiving'.at = "over" /\ \E c \in SocketConns : T3!ReleaseOf(c)
              \/ receiving'.at \in {"read", "yield"} /\ refs' = refs
       PROVE  Counted'
  <2>1. Cardinality(LiveAccepts') = Cardinality(LiveAccepts)
    BY <1>1, <1>15
  <2>2. CASE receiving'.at = "over" /\ \E c \in SocketConns : T3!ReleaseOf(c)
    <3>1. refs' = refs - 1
      BY <1>5, <2>2
    <3> QED BY <1>0, <1>15, <2>1, <2>2, <3>1
  <2>3. CASE receiving'.at \in {"read", "yield"} /\ refs' = refs
    BY <1>0, <1>15, <2>1, <2>3
  <2> QED BY <1>15, <2>2, <2>3
<1>16. conn3 \in SocketConns /\ [conn3 EXCEPT !.data = FALSE] \in SocketConns
  BY DEF SocketConns
<1>17. ASSUME T3!ReceiveRead PROVE Counted'
  BY <1>15, <1>16, <1>17 DEF T3!ReceiveRead, T3!Retire, T3!Release, Receivings
<1>18. ASSUME T3!ReceiveTaken \/ T3!ReceiveDropped PROVE Counted'
  BY <1>15, <1>16, <1>18 DEF T3!ReceiveTaken, T3!ReceiveDropped, T3!Release, Receivings
<1>19. ASSUME NEW l \in Listens, T3!Listen(l) \/ T3!Connection(l) \/ T3!ListenerFails(l) PROVE Counted'
  BY <1>11, <1>19 DEF T3!Listen, T3!Connection, T3!ListenerFails
<1>20. ASSUME NEW l \in Listens, sending' = sending, receiving' = receiving, handle' = handle,
              accepts[l].at \notin {"none", "over"},
                \A k \in Listens \ {l} : accepts'[k] = accepts[k],
              \/ accepts'[l].at = "over" /\ T3!Release
              \/ accepts'[l].at \in {"accept", "spin", "yield"} /\ refs' = refs
       PROVE  Counted'
  <2>2. CASE accepts'[l].at = "over" /\ T3!Release
    <3>1. refs' = refs - 1
      BY <1>5, <2>2 DEF T3!Release
    <3>2. Cardinality(LiveAccepts') = Cardinality(LiveAccepts) - 1
      BY <1>3, <1>20, <2>2
    <3> QED BY <1>0, <1>20, <3>1, <3>2
  <2>3. CASE accepts'[l].at \in {"accept", "spin", "yield"} /\ refs' = refs
    <3>1. Cardinality(LiveAccepts') = Cardinality(LiveAccepts)
      BY <1>4, <1>20, <2>3
    <3> QED BY <1>0, <1>20, <2>3, <3>1
  <2> QED BY <1>20, <2>2, <2>3
<1>21. ASSUME NEW l \in Listens, \/ T3!Accepted(l) \/ T3!AcceptTaken(l) \/ T3!AcceptEnds(l)
                                 \/ T3!AcceptRetries(l) \/ T3!AcceptDropped(l)
       PROVE  Counted'
  BY <1>0, <1>20, <1>21 DEF T3!Accepted, T3!AcceptTaken, T3!AcceptEnds, T3!AcceptRetries,
       T3!AcceptDropped, Accepts
<1>22. ASSUME NEW what \in {"data", "fin", "reset"}, T3!Peer(what) PROVE Counted'
  BY <1>11, <1>22 DEF T3!Peer
<1> QED
  BY <1>6, <1>7, <1>8, <1>9, <1>10, <1>13, <1>14, <1>17, <1>18, <1>19, <1>21, <1>22 DEF T3!Next

\* What the count says.
CountTold ==
  /\ refs \in 0..(3 + Cardinality(Listens))
  /\ refs = 0 => /\ ~handle /\ ~T3!SendLive /\ ~T3!ReceiveLive
                 /\ \A l \in Listens : ~T3!AcceptLive(l)
  /\ handle \/ T3!SendLive \/ T3!ReceiveLive \/ (\E l \in Listens : T3!AcceptLive(l)) => refs > 0

\* A sum of four counts is zero only when nobody is left.
LEMMA CountOf ==
  ASSUME NEW h \in BOOLEAN, NEW s \in BOOLEAN, NEW r \in BOOLEAN, NEW L \in SUBSET Listens,
         NEW n, n = One(h) + One(s) + One(r) + Cardinality(L)
  PROVE  /\ n \in 0..(3 + Cardinality(Listens))
         /\ n = 0 => ~h /\ ~s /\ ~r /\ L = {}
         /\ h \/ s \/ r \/ L # {} => n > 0
<1>1. /\ IsFiniteSet(L) /\ Cardinality(L) \in Nat /\ Cardinality(Listens) \in Nat
      /\ Cardinality(L) <= Cardinality(Listens)
  BY ProviderAssumption, FS_Subset, FS_CardinalityType
<1>2. Cardinality(L) = 0 <=> L = {}
  BY <1>1, FS_EmptySet
<1>3. /\ One(h) \in 0..1 /\ One(s) \in 0..1 /\ One(r) \in 0..1
      /\ (One(h) = 0 <=> ~h) /\ (One(s) = 0 <=> ~s) /\ (One(r) = 0 <=> ~r)
  BY DEF One
<1>4. n \in 0..(3 + Cardinality(Listens))
  BY <1>1, <1>3
<1>5. n = 0 <=> One(h) = 0 /\ One(s) = 0 /\ One(r) = 0 /\ Cardinality(L) = 0
  BY <1>1, <1>3
<1> QED BY <1>2, <1>3, <1>4, <1>5

\* The count of the users, as far as the steps need it.
LEMMA CountSays == Counted /\ handle \in BOOLEAN => CountTold
<1> SUFFICES ASSUME Counted, handle \in BOOLEAN PROVE CountTold
  OBVIOUS
<1>1. T3!SendLive \in BOOLEAN /\ T3!ReceiveLive \in BOOLEAN /\ LiveAccepts \in SUBSET Listens
  BY DEF T3!SendLive, T3!ReceiveLive, LiveAccepts
<1>2. LiveAccepts = {} <=> \A l \in Listens : ~T3!AcceptLive(l)
  BY DEF LiveAccepts
<1> QED BY <1>1, <1>2, CountOf DEF Counted, CountTold

\* The same after a step.
LEMMA CountSaysNext == Counted' /\ handle' \in BOOLEAN => CountTold'
<1> SUFFICES ASSUME Counted', handle' \in BOOLEAN PROVE CountTold'
  OBVIOUS
<1>1. T3!SendLive' \in BOOLEAN /\ T3!ReceiveLive' \in BOOLEAN /\ LiveAccepts' \in SUBSET Listens
  BY DEF T3!SendLive, T3!ReceiveLive, LiveAccepts
<1>2. LiveAccepts' = {} <=> \A l \in Listens : ~T3!AcceptLive(l)'
  BY DEF LiveAccepts
<1> QED BY <1>1, <1>2, CountOf DEF Counted, CountTold

\* What a release does: nothing, or, when it is the last, it closes.
LEMMA ReleaseDoes ==
  ASSUME SharedInv, NEW c \in SocketConns, c.held = conn3.held, c.os = conn3.os,
         T3!ReleaseOf(c), refs > 0
  PROVE  \/ refs' > 0 /\ conn3' = c /\ listener3' = listener3 /\ current' = current
         \/ /\ refs' = 0 /\ ~conn3'.held /\ conn3'.os # "open" /\ current' = None
            /\ conn3.held \/ conn3'.os = conn3.os
            /\ listener3' = IF current = None THEN listener3 ELSE T3!Close(current)
<1>0. refs \in Nat
  BY CountSays DEF SharedInv, Typed, CountTold
<1>1. CASE refs > 1
  BY <1>0, <1>1 DEF T3!ReleaseOf
<1>2. CASE ~(refs > 1)
  <2>1. refs' = 0
    BY <1>0, <1>2 DEF T3!ReleaseOf
  <2>2. conn3' = IF c.held THEN [c EXCEPT !.os = "closed", !.held = FALSE] ELSE c
    BY <1>0, <1>2 DEF T3!ReleaseOf
  <2>3. ~conn3'.held /\ conn3'.os # "open" /\ (conn3.held \/ conn3'.os = conn3.os)
    BY <2>2 DEF SharedInv, Owned, SocketConns
  <2> QED BY <1>0, <1>2, <2>1, <2>3 DEF T3!ReleaseOf
<1> QED BY <1>1, <1>2

\* The connection changes hands in one piece.
LEMMA OwnedNext ==
  ASSUME SharedInv, T3!Next
  PROVE  Owned'
<1>0. /\ Typed /\ Owned /\ CountTold /\ refs \in Nat /\ CountTold' /\ Typed' /\ conn3 \in SocketConns
  BY CountSays, CountSaysNext, CountedNext, TypedNext DEF SharedInv, Typed, CountTold
<1> USE DEF T3!Connectable
<1>1. ASSUME T3!Bind \/ T3!Connect PROVE Owned'
  BY <1>0, <1>1 DEF T3!Bind, T3!Connect, Owned, T3!SendLive, T3!ReceiveLive
<1>2. ASSUME T3!Send \/ T3!Receive PROVE Owned'
  BY <1>0, <1>2 DEF T3!Send, T3!Receive, T3!Usable, Owned
<1>3. ASSUME NEW c \in SocketConns, c.held = conn3.held, c.os = conn3.os, T3!ReleaseOf(c), refs > 0,
             dial' = dial, state' \in {state, "closed"}, state' = state \/ ~handle',
             state' = "closed" \/ handle' = handle,
             T3!SendLive' => T3!SendLive, T3!ReceiveLive' => T3!ReceiveLive
      PROVE  Owned'
  <2>1. CASE refs' > 0 /\ conn3' = c
    BY <1>0, <1>3, <2>1 DEF Owned
  <2>2. CASE refs' = 0 /\ ~conn3'.held /\ conn3'.os # "open" /\ (conn3.held \/ conn3'.os = conn3.os)
    <3>1. ~handle' /\ ~T3!SendLive' /\ ~T3!ReceiveLive'
      BY <1>0, <2>2 DEF CountTold
    <3>2. state' \notin {"unbound", "bound", "connecting"}
      BY <1>0, <1>3, <3>1 DEF Owned, Typed
    <3>3. dial' = "pending" => conn3'.os = "none"
      BY <1>0, <1>3, <2>2 DEF Owned
    <3> QED BY <2>2, <3>1, <3>2, <3>3 DEF Owned
  <2> QED BY <1>3, <2>1, <2>2, ReleaseDoes
<1>4. ASSUME T3!Dispose PROVE Owned'
  <2>1. /\ T3!ReleaseOf(conn3) /\ refs > 0 /\ dial' = dial /\ ~handle'
        /\ sending' = sending /\ receiving' = receiving
    BY <1>0, <1>4 DEF T3!Dispose, T3!Release, CountTold
  <2>2. state' = "closed" \/ (state' = state /\ state \notin {"unbound", "bound", "connecting"})
    BY <1>4 DEF T3!Dispose
  <2>3. (T3!SendLive' => T3!SendLive) /\ (T3!ReceiveLive' => T3!ReceiveLive)
    BY <2>1 DEF T3!SendLive, T3!ReceiveLive
  <2>4. CASE refs' > 0 /\ conn3' = conn3
    BY <1>0, <2>1, <2>2, <2>3, <2>4 DEF Owned
  <2>5. CASE refs' = 0 /\ ~conn3'.held /\ conn3'.os # "open" /\ (conn3.held \/ conn3'.os = conn3.os)
    <3>1. ~T3!SendLive' /\ ~T3!ReceiveLive'
      BY <1>0, <2>5 DEF CountTold
    <3> QED BY <1>0, <2>1, <2>2, <2>5, <3>1 DEF Owned
  <2> QED BY <1>0, <2>1, <2>4, <2>5, ReleaseDoes
<1>5. ASSUME NEW ok \in BOOLEAN, T3!Dialled(ok) PROVE Owned'
  <2>1. ~conn3.held /\ conn3.os = "none" /\ ~T3!SendLive /\ ~T3!ReceiveLive /\ dial' = "over"
    BY <1>0, <1>5 DEF Owned, T3!Dialled
  <2>2. /\ ~T3!SendLive' /\ ~T3!ReceiveLive' /\ refs' = refs /\ handle' = handle
        /\ state' \notin {"unbound", "bound", "connecting"}
    BY <1>0, <1>5, <2>1 DEF T3!Dialled, T3!SendLive, T3!ReceiveLive, Typed, Owned
  <2>3. CASE ok /\ state = "connecting"
    <3>1. conn3'.os = "open" /\ conn3'.held
      BY <1>0, <1>5, <2>3 DEF T3!Dialled, SocketConns
    <3>2. refs > 0
      BY <1>0, <2>3 DEF Owned, CountTold
    <3> QED BY <1>0, <2>1, <2>2, <3>1, <3>2 DEF Owned
  <2>4. CASE ~(ok /\ state = "connecting")
    <3>1. ~conn3'.held /\ conn3'.os # "open"
      BY <1>0, <1>5, <2>1, <2>4 DEF T3!Dialled, SocketConns
    <3> QED BY <1>0, <2>1, <2>2, <3>1 DEF Owned
  <2> QED BY <2>3, <2>4
<1>6. ASSUME NEW ok \in BOOLEAN, NEW l \in Listens, T3!Listened(l, ok) PROVE Owned'
  BY <1>0, <1>6 DEF T3!Listened, Owned, T3!SendLive, T3!ReceiveLive
<1>7. ASSUME conn3' = conn3, refs' = refs, state' = state, handle' = handle, dial' = dial,
             T3!SendLive' => T3!SendLive, T3!ReceiveLive' => T3!ReceiveLive
      PROVE  Owned'
  BY <1>0, <1>7 DEF Owned
<1>8. ASSUME T3!Release, refs > 0, state' = state, handle' = handle, dial' = dial,
             T3!SendLive' => T3!SendLive, T3!ReceiveLive' => T3!ReceiveLive
      PROVE  Owned'
  BY <1>0, <1>3, <1>8 DEF T3!Release
<1>9. ASSUME NEW what \in {"chunk", "end", "trap"}, T3!SendPull(what) PROVE Owned'
  <2>1. /\ T3!SendLive /\ state' = state /\ handle' = handle /\ dial' = dial
        /\ T3!ReceiveLive' => T3!ReceiveLive
    BY <1>9 DEF T3!SendPull, T3!SendLive, T3!ReceiveLive
  <2>2. T3!Release \/ (conn3' = conn3 /\ refs' = refs)
    BY <1>9 DEF T3!SendPull
  <2> QED BY <1>0, <1>7, <1>8, <2>1, <2>2 DEF CountTold
<1>10. ASSUME T3!SendWritten \/ T3!SendFin PROVE Owned'
  <2>1. /\ T3!SendLive /\ state' = state /\ handle' = handle /\ dial' = dial
        /\ T3!ReceiveLive' => T3!ReceiveLive
    BY <1>10 DEF T3!SendWritten, T3!SendFin, T3!SendLive, T3!ReceiveLive
  <2>2. T3!Release \/ (conn3' = conn3 /\ refs' = refs)
    BY <1>10 DEF T3!SendWritten, T3!SendFin
  <2> QED BY <1>0, <1>7, <1>8, <2>1, <2>2 DEF CountTold
<1>11. ASSUME T3!ReceiveRead \/ T3!ReceiveTaken \/ T3!ReceiveDropped PROVE Owned'
  <2> DEFINE emptied == [conn3 EXCEPT !.data = FALSE]
  <2>1. /\ T3!ReceiveLive /\ state' = state /\ handle' = handle /\ dial' = dial
        /\ T3!SendLive' => T3!SendLive
    BY <1>11 DEF T3!ReceiveRead, T3!ReceiveTaken, T3!ReceiveDropped, T3!SendLive, T3!ReceiveLive
  <2>2. emptied \in SocketConns /\ emptied.held = conn3.held /\ emptied.os = conn3.os
    BY <1>0 DEF SocketConns
  <2> HIDE DEF emptied
  <2>3. T3!Release \/ T3!ReleaseOf(emptied) \/ (refs' = refs /\ conn3' \in {conn3, emptied})
    BY <1>11 DEF T3!ReceiveRead, T3!ReceiveTaken, T3!ReceiveDropped, T3!Retire, emptied
  <2>4. CASE refs' = refs /\ conn3' \in {conn3, emptied}
    BY <1>0, <2>1, <2>2, <2>4 DEF Owned
  <2>5. refs > 0
    BY <1>0, <2>1 DEF CountTold
  <2> QED BY <1>3, <1>8, <2>1, <2>2, <2>3, <2>4, <2>5
<1>12. ASSUME NEW l \in Listens, \/ T3!Listen(l) \/ T3!Accepted(l) \/ T3!AcceptTaken(l)
                                 \/ T3!AcceptRetries(l)
                                 \/ T3!Connection(l) \/ T3!ListenerFails(l)
       PROVE  Owned'
  BY <1>7, <1>12 DEF T3!Listen, T3!Accepted, T3!AcceptTaken, T3!AcceptRetries, T3!Connection,
       T3!ListenerFails, T3!SendLive, T3!ReceiveLive
<1>13. ASSUME NEW l \in Listens, T3!AcceptEnds(l) \/ T3!AcceptDropped(l) PROVE Owned'
  <2>1. /\ T3!AcceptLive(l) /\ state' = state /\ handle' = handle /\ dial' = dial
        /\ sending' = sending /\ receiving' = receiving
    BY <1>13 DEF T3!AcceptEnds, T3!AcceptDropped, T3!AcceptLive
  <2>2. T3!Release \/ (conn3' = conn3 /\ refs' = refs)
    BY <1>13 DEF T3!AcceptEnds, T3!AcceptDropped
  <2>3. (T3!SendLive' => T3!SendLive) /\ (T3!ReceiveLive' => T3!ReceiveLive) /\ refs > 0
    BY <1>0, <2>1 DEF T3!SendLive, T3!ReceiveLive, CountTold
  <2> QED BY <1>7, <1>8, <2>1, <2>2, <2>3
<1>14. ASSUME NEW what \in {"data", "fin", "reset"}, T3!Peer(what) PROVE Owned'
  <2>1. conn3'.os = conn3.os /\ conn3'.held = conn3.held
    BY <1>0, <1>14 DEF T3!Peer, SocketConns
  <2> QED BY <1>0, <1>14, <2>1 DEF T3!Peer, Owned, T3!SendLive, T3!ReceiveLive
<1> QED
  BY <1>1, <1>2, <1>4, <1>5, <1>6, <1>9, <1>10, <1>11, <1>12, <1>13, <1>14 DEF T3!Next

\* Listeners and accept streams stay together, whatever call of listen comes between.
LEMMA AcceptingNext ==
  ASSUME SharedInv, T3!Next
  PROVE  Accepting'
<1>0. /\ Accepting /\ CountTold /\ CountTold' /\ refs \in Nat /\ conn3 \in SocketConns
  BY CountSays, CountSaysNext, CountedNext, TypedNext DEF SharedInv, Typed, CountTold
<1> DEFINE Fits(l) ==
      /\ listener3[l].call # "over" => accepts[l].at = "none"
      /\ T3!AcceptLive(l) /\ ~accepts[l].gone => listener3[l].up \in {"live", "failed"}
      /\ listener3[l].up = "live" => current = l \/ \E k \in Listens \ {l} : accepts[k].at # "none"
<1>1. ASSUME accepts' = accepts, listener3' = listener3, current' = current, refs' = 0 => refs = 0
      PROVE  Accepting'
  BY <1>0, <1>1 DEF Accepting, T3!AcceptLive
<1>2. ASSUME NEW c \in SocketConns, c.held = conn3.held, c.os = conn3.os, T3!ReleaseOf(c), refs > 0,
             accepts' \in [Listens -> Accepts],
             \A l \in Listens : \/ accepts'[l] = accepts[l]
                                \/ T3!AcceptLive(l) /\ ~T3!AcceptLive(l)' /\ listener3[l].call = "over"
                                   /\ accepts'[l].at = "over"
      PROVE  Accepting'
  <2>1. \A l \in Listens : (T3!AcceptLive(l)' => accepts'[l] = accepts[l] /\ T3!AcceptLive(l))
                            /\ (accepts'[l].at = "none" <=> accepts[l].at = "none")
    BY <1>2 DEF T3!AcceptLive
  <2>2. CASE refs' > 0 /\ listener3' = listener3 /\ current' = current
    BY <1>0, <2>1, <1>2, <2>2 DEF Accepting
  <2>3. CASE refs' = 0 /\ current' = None /\ listener3' = IF current = None THEN listener3 ELSE T3!Close(current)
    <3>1. \A l \in Listens : ~T3!AcceptLive(l)'
      BY <1>0, <2>3 DEF CountTold
    <3>2. listener3' \in [Listens -> SocketListeners]
      BY <1>0, <2>3, ProviderAssumption DEF Accepting, T3!Close, SocketListeners
    <3>3. ASSUME NEW l \in Listens
          PROVE  /\ listener3'[l].call = listener3[l].call
                 /\ listener3'[l].up = "live" => listener3[l].up = "live" /\ current # l
      BY <1>0, <2>3, ProviderAssumption DEF Accepting, T3!Close, SocketListeners
    <3> QED BY <1>0, <1>2, <2>1, <2>3, <3>1, <3>2, <3>3 DEF Accepting
  <2> QED BY <1>2, <2>2, <2>3, ReleaseDoes
<1>3. ASSUME \/ T3!Bind \/ T3!Connect \/ T3!Send \/ T3!Receive PROVE Accepting'
  BY <1>0, <1>1, <1>3 DEF T3!Bind, T3!Connect, T3!Send, T3!Receive
<1>4. ASSUME T3!Dispose PROVE Accepting'
  <2>1. T3!ReleaseOf(conn3) /\ refs > 0 /\ accepts' = accepts
    BY <1>0, <1>4 DEF T3!Dispose, T3!Release, CountTold
  <2> QED BY <1>0, <1>2, <2>1 DEF Accepting
<1>5. ASSUME NEW ok \in BOOLEAN, T3!Dialled(ok) PROVE Accepting'
  BY <1>1, <1>5 DEF T3!Dialled
<1>6. ASSUME NEW ok \in BOOLEAN, NEW l \in Listens, T3!Listened(l, ok) PROVE Accepting'
  <2>1. CASE ok
    <3>1. /\ listener3' = [listener3 EXCEPT ![l].call = "over", ![l].up = "live"]
          /\ current' = l /\ refs' = refs + 1 /\ accepts' = [accepts EXCEPT ![l].at = "accept"]
      BY <1>6, <2>1 DEF T3!Listened
    <3>2. listener3' \in [Listens -> SocketListeners] /\ accepts' \in [Listens -> Accepts]
      <4>1. listener3' \in [Listens -> SocketListeners]
        BY ZenonT(60), <1>0, <3>1 DEF Accepting, SocketListeners
      <4>2. accepts' \in [Listens -> Accepts]
        BY <1>0, <3>1 DEF Accepting, Accepts
      <4> QED BY <4>1, <4>2
    <3>3. /\ listener3'[l].call = "over" /\ listener3'[l].up = "live" /\ accepts'[l].at = "accept"
          /\ \A k \in Listens \ {l} : listener3'[k] = listener3[k] /\ accepts'[k] = accepts[k]
      BY <1>0, <3>1 DEF Accepting, SocketListeners, Accepts
    <3> QED BY <1>0, <3>1, <3>2, <3>3 DEF Accepting, T3!AcceptLive
  <2>2. CASE ~ok
    <3>1. /\ listener3' = [listener3 EXCEPT ![l].call = "over", ![l].up = "closed"]
          /\ current' = current /\ refs' = refs /\ accepts' = accepts /\ listener3[l].call = "parked"
      BY <1>6, <2>2 DEF T3!Listened
    <3>2. listener3' \in [Listens -> SocketListeners]
      BY ZenonT(60), <1>0, <3>1 DEF Accepting, SocketListeners
    <3>3. /\ listener3'[l].call = "over" /\ listener3'[l].up = "closed"
          /\ \A k \in Listens \ {l} : listener3'[k] = listener3[k]
      BY <1>0, <3>1 DEF Accepting, SocketListeners
    <3> QED BY <1>0, <3>1, <3>2, <3>3 DEF Accepting, T3!AcceptLive
  <2> QED BY <2>1, <2>2
<1>7. ASSUME NEW what \in {"chunk", "end", "trap"}, T3!SendPull(what) PROVE Accepting'
  <2>1. T3!SendLive /\ accepts' = accepts
    BY <1>7 DEF T3!SendPull, T3!SendLive
  <2>2. T3!ReleaseOf(conn3) \/ (listener3' = listener3 /\ current' = current /\ refs' = refs)
    BY <1>7 DEF T3!SendPull, T3!Release
  <2> QED BY <1>0, <1>1, <1>2, <2>1, <2>2 DEF CountTold, Accepting
<1>8. ASSUME T3!SendWritten \/ T3!SendFin PROVE Accepting'
  <2>1. T3!SendLive /\ accepts' = accepts
    BY <1>8 DEF T3!SendWritten, T3!SendFin, T3!SendLive
  <2>2. T3!ReleaseOf(conn3) \/ (listener3' = listener3 /\ current' = current /\ refs' = refs)
    BY <1>8 DEF T3!SendWritten, T3!SendFin, T3!Release
  <2> QED BY <1>0, <1>1, <1>2, <2>1, <2>2 DEF CountTold, Accepting
<1>9. ASSUME T3!ReceiveRead \/ T3!ReceiveTaken \/ T3!ReceiveDropped PROVE Accepting'
  <2> DEFINE emptied == [conn3 EXCEPT !.data = FALSE]
  <2>1. T3!ReceiveLive /\ accepts' = accepts
    BY <1>9 DEF T3!ReceiveRead, T3!ReceiveTaken, T3!ReceiveDropped, T3!ReceiveLive
  <2>2. emptied \in SocketConns /\ emptied.held = conn3.held /\ emptied.os = conn3.os
    BY <1>0 DEF SocketConns
  <2> HIDE DEF emptied
  <2>3. \/ T3!ReleaseOf(conn3) \/ T3!ReleaseOf(emptied)
        \/ listener3' = listener3 /\ current' = current /\ refs' = refs
    BY <1>9 DEF T3!ReceiveRead, T3!ReceiveTaken, T3!ReceiveDropped, T3!Retire, T3!Release, emptied
  <2> QED BY <1>0, <1>1, <1>2, <2>1, <2>2, <2>3 DEF CountTold, Accepting
<1>10. ASSUME NEW l \in Listens, T3!Listen(l) PROVE Accepting'
  <2>1. /\ listener3' = [listener3 EXCEPT ![l].call = "parked", ![l].up = "binding"]
        /\ listener3[l].call = "none" /\ UNCHANGED <<current, refs, accepts>>
    BY <1>10 DEF T3!Listen
  <2>2. listener3' \in [Listens -> SocketListeners]
    BY ZenonT(60), <1>0, <2>1 DEF Accepting, SocketListeners
  <2>3. /\ listener3'[l].call = "parked" /\ listener3'[l].up = "binding"
        /\ \A k \in Listens \ {l} : listener3'[k] = listener3[k]
    BY <1>0, <2>1 DEF Accepting, SocketListeners
  <2> QED BY <1>0, <2>1, <2>2, <2>3 DEF Accepting, T3!AcceptLive
<1>11. ASSUME NEW l \in Listens, T3!Connection(l) \/ T3!ListenerFails(l) PROVE Accepting'
  <2>1. /\ listener3[l].up = "live" /\ UNCHANGED <<current, refs, accepts>>
        /\ \/ listener3' = [listener3 EXCEPT ![l].queue = @ + 1] /\ listener3[l].queue < MaxQueue
           \/ listener3' = [listener3 EXCEPT ![l].up = "failed"]
    BY <1>11 DEF T3!Connection, T3!ListenerFails
  <2>2. listener3' \in [Listens -> SocketListeners]
    BY <1>0, <2>1, ProviderAssumption DEF Accepting, SocketListeners
  <2>3. /\ listener3'[l].call = listener3[l].call /\ listener3'[l].up \in {"live", "failed"}
        /\ \A k \in Listens \ {l} : listener3'[k] = listener3[k]
    BY <1>0, <2>1 DEF Accepting, SocketListeners
  <2> QED BY <1>0, <2>1, <2>2, <2>3 DEF Accepting, T3!AcceptLive
<1>12. ASSUME NEW l \in Listens, T3!Accepted(l) PROVE Accepting'
  <2>1. /\ listener3[l].up = "live" /\ listener3[l].queue > 0 /\ UNCHANGED <<current, refs>>
        /\ listener3' = [listener3 EXCEPT ![l].queue = @ - 1] /\ accepts[l].at = "accept"
        /\ accepts' = [accepts EXCEPT ![l].at = "yield"]
    BY <1>12 DEF T3!Accepted
  <2>2. listener3' \in [Listens -> SocketListeners] /\ accepts' \in [Listens -> Accepts]
    BY <1>0, <2>1, ProviderAssumption DEF Accepting, SocketListeners, Accepts
  <2>3. /\ \A k \in Listens : listener3'[k].up = listener3[k].up /\ listener3'[k].call = listener3[k].call
        /\ accepts'[l].at = "yield" /\ accepts'[l].gone = accepts[l].gone
        /\ \A k \in Listens \ {l} : accepts'[k] = accepts[k]
    BY <1>0, <2>1 DEF Accepting, SocketListeners, Accepts
  <2> QED BY <1>0, <2>1, <2>2, <2>3 DEF Accepting, T3!AcceptLive
<1>13. ASSUME NEW l \in Listens, T3!AcceptTaken(l) PROVE Accepting'
  <2>1. /\ accepts[l].at = "yield" /\ UNCHANGED <<current, refs, listener3>>
        /\ accepts' = [accepts EXCEPT ![l].at = "accept"]
    BY <1>13 DEF T3!AcceptTaken
  <2>2. accepts' \in [Listens -> Accepts]
    BY <1>0, <2>1 DEF Accepting, Accepts
  <2>3. /\ accepts'[l].at = "accept" /\ accepts'[l].gone = accepts[l].gone
        /\ \A k \in Listens \ {l} : accepts'[k] = accepts[k]
    BY <1>0, <2>1 DEF Accepting, Accepts
  <2> QED BY <1>0, <2>1, <2>2, <2>3 DEF Accepting, T3!AcceptLive
<1>14. ASSUME NEW l \in Listens, T3!AcceptEnds(l) PROVE Accepting'
  <2>1. /\ accepts[l].at = "accept" /\ accepts' = [accepts EXCEPT ![l].at = "over"]
        /\ T3!ReleaseOf(conn3)
    BY <1>14 DEF T3!AcceptEnds, T3!Release
  <2>2. /\ accepts' \in [Listens -> Accepts] /\ accepts'[l].at = "over"
        /\ \A k \in Listens \ {l} : accepts'[k] = accepts[k]
    BY <1>0, <2>1 DEF Accepting, Accepts
  <2>3. T3!AcceptLive(l) /\ ~T3!AcceptLive(l)' /\ listener3[l].call = "over" /\ refs > 0
    BY <1>0, <2>1, <2>2 DEF T3!AcceptLive, Accepting, CountTold
  <2> QED BY <1>0, <1>2, <2>1, <2>2, <2>3
<1>15. ASSUME NEW l \in Listens, T3!AcceptDropped(l), accepts[l].at # "yield" PROVE Accepting'
  <2>1. /\ accepts' = [accepts EXCEPT ![l].gone = TRUE] /\ UNCHANGED <<current, refs>>
        /\ listener3' = [listener3 EXCEPT ![l].up = "closed", ![l].queue = 0]
    BY <1>15 DEF T3!AcceptDropped, T3!Close
  <2>2. listener3' \in [Listens -> SocketListeners] /\ accepts' \in [Listens -> Accepts]
    <3> DEFINE shut == [listener3[l] EXCEPT !.up = "closed", !.queue = 0]
    <3>0. 0 \in 0..MaxQueue /\ listener3[l] \in SocketListeners
      BY <1>0, ProviderAssumption DEF Accepting
    <3>1. listener3' \in [Listens -> SocketListeners]
      <4>1. shut \in SocketListeners
        BY <3>0 DEF SocketListeners
      <4>2. listener3' = [listener3 EXCEPT ![l] = shut]
        BY <2>1
      <4> HIDE DEF shut
      <4> QED BY <1>0, <4>1, <4>2 DEF Accepting
    <3>2. accepts' \in [Listens -> Accepts]
      BY <1>0, <2>1 DEF Accepting, Accepts
    <3> QED BY <3>1, <3>2
  <2>3. /\ \A k \in Listens \ {l} : listener3'[k] = listener3[k] /\ accepts'[k] = accepts[k]
        /\ listener3'[l].call = listener3[l].call /\ listener3'[l].up = "closed"
        /\ accepts'[l].at = accepts[l].at /\ accepts'[l].gone
    BY <1>0, <2>1 DEF Accepting, SocketListeners, Accepts
  <2> QED BY <1>0, <2>1, <2>2, <2>3 DEF Accepting, T3!AcceptLive
<1>16. ASSUME NEW l \in Listens, T3!AcceptDropped(l), accepts[l].at = "yield" PROVE Accepting'
  <2>1. /\ accepts[l].at = "yield" /\ accepts' = [accepts EXCEPT ![l] = [at |-> "over", gone |-> TRUE]]
        /\ T3!ReleaseOf(conn3)
    BY <1>16 DEF T3!AcceptDropped, T3!Release
  <2>2. /\ accepts' \in [Listens -> Accepts] /\ accepts'[l].at = "over"
        /\ \A k \in Listens \ {l} : accepts'[k] = accepts[k]
    BY <1>0, <2>1 DEF Accepting, Accepts
  <2>3. T3!AcceptLive(l) /\ ~T3!AcceptLive(l)' /\ listener3[l].call = "over" /\ refs > 0
    BY <1>0, <2>1, <2>2 DEF T3!AcceptLive, Accepting, CountTold
  <2> QED BY <1>0, <1>2, <2>1, <2>2, <2>3
<1>17. ASSUME NEW what \in {"data", "fin", "reset"}, T3!Peer(what) PROVE Accepting'
  BY <1>1, <1>17 DEF T3!Peer
<1>18. ASSUME NEW l \in Listens, T3!AcceptRetries(l) PROVE Accepting'
  <2>1. /\ accepts[l].at = "accept" /\ accepts' = [accepts EXCEPT ![l].at = "spin"]
        /\ UNCHANGED <<refs, listener3, current>> /\ accepts[l] \in Accepts
    BY <1>0, <1>18 DEF T3!AcceptRetries, Accepting
  <2>2. accepts' \in [Listens -> Accepts]
    BY <1>0, <2>1 DEF Accepting, Accepts
  <2>3. /\ accepts'[l].at = "spin" /\ accepts'[l].gone = accepts[l].gone
        /\ \A k \in Listens \ {l} : accepts'[k] = accepts[k]
    BY <1>0, <2>1 DEF Accepting, Accepts
  <2> QED BY <1>0, <2>1, <2>2, <2>3 DEF Accepting, T3!AcceptLive
<1> QED
  BY <1>3, <1>4, <1>5, <1>6, <1>7, <1>8, <1>9, <1>10, <1>11, <1>12, <1>13, <1>14, <1>15, <1>16,
     <1>17, <1>18
  DEF T3!Next

\* A pump that ends settles its future.
LEMMA SettlingNext ==
  ASSUME SharedInv, T3!Next
  PROVE  Settling'
<1> USE DEF SharedInv, Typed, Settling, T3!FuturesSettle
<1>1. CASE UNCHANGED <<sending, receiving>>
  BY <1>1
<1>2. ASSUME T3!Send \/ T3!Receive PROVE Settling'
  BY <1>2 DEF T3!Send, T3!Receive
<1>3. ASSUME NEW what \in {"chunk", "end", "trap"}, T3!SendPull(what) PROVE Settling'
  <2>1. CASE what = "chunk"
    BY <1>3, <2>1 DEF T3!SendPull, Sendings
  <2>2. CASE what = "end"
    BY <1>3, <2>2 DEF T3!SendPull, Sendings
  <2>3. CASE what = "trap"
    BY <1>3, <2>3 DEF T3!SendPull, Sendings
  <2> QED BY <2>1, <2>2, <2>3
<1>4. ASSUME T3!SendWritten \/ T3!SendFin PROVE Settling'
  <2>1. receiving' = receiving
    BY <1>4 DEF T3!SendWritten, T3!SendFin
  <2>2. CASE T3!SendFin
    <3>1. sending'.at = "over" /\ sending'.future = "ok" /\ sending'.source = sending.source /\ sending.at = "fin"
      BY <2>2 DEF T3!SendFin, Sendings
    <3> QED BY <2>1, <3>1
  <2>3. CASE T3!SendWritten
    <3>1. \/ sending' = [sending EXCEPT !.at = "pull"]
          \/ sending' = [at |-> "over", future |-> "err", source |-> "dropped"]
      BY <2>3 DEF T3!SendWritten
    <3> QED BY <2>1, <3>1 DEF Sendings
  <2> QED BY <1>4, <2>2, <2>3
<1>5. ASSUME T3!ReceiveRead \/ T3!ReceiveTaken \/ T3!ReceiveDropped PROVE Settling'
  <2>1. sending' = sending
    BY <1>5 DEF T3!ReceiveRead, T3!ReceiveTaken, T3!ReceiveDropped
  <2>2. \/ \E f \in {"ok", "err"} : receiving' = [receiving EXCEPT !.at = "over", !.future = f]
        \/ \E at \in {"yield", "read"} : receiving' = [receiving EXCEPT !.at = at]
        \/ receiving' = [at |-> "over", gone |-> TRUE, future |-> "ok"]
        \/ receiving' = [receiving EXCEPT !.gone = TRUE] /\ receiving.at = "read"
    BY <1>5 DEF T3!ReceiveRead, T3!ReceiveTaken, T3!ReceiveDropped, T3!Retire
  <2>3. receiving'.at = "over" => receiving'.future # "pending"
    <3>1. ASSUME NEW f \in {"ok", "err"}, receiving' = [receiving EXCEPT !.at = "over",
                 !.future = f]
          PROVE  receiving'.future # "pending"
      BY <3>1 DEF Receivings
    <3>2. ASSUME NEW at \in {"yield", "read"}, receiving' = [receiving EXCEPT !.at = at]
          PROVE  receiving'.at # "over"
      BY <3>2 DEF Receivings
    <3>3. receiving' = [receiving EXCEPT !.gone = TRUE] /\ receiving.at = "read" => receiving'.at # "over"
      BY DEF Receivings
    <3> QED BY <2>2, <3>1, <3>2, <3>3
  <2> QED BY <2>1, <2>3
<1>6. T3!Next => \/ UNCHANGED <<sending, receiving>> \/ T3!Send \/ T3!Receive
                 \/ (\E what \in {"chunk", "end", "trap"} : T3!SendPull(what))
                 \/ T3!SendWritten \/ T3!SendFin
                 \/ T3!ReceiveRead \/ T3!ReceiveTaken \/ T3!ReceiveDropped
  BY DEF T3!Next, T3!Bind, T3!Connect, T3!Dispose, T3!Dialled, T3!Listened, T3!Listen, T3!Accepted,
         T3!AcceptTaken, T3!AcceptEnds, T3!AcceptRetries, T3!AcceptDropped, T3!Connection,
         T3!ListenerFails, T3!Peer
<1> QED BY <1>1, <1>2, <1>3, <1>4, <1>5, <1>6

\* The socket of 0.3 keeps its invariant.
LEMMA SharedNext ==
  ASSUME SharedInv, T3!Next \/ UNCHANGED tvars
  PROVE  SharedInv'
<1>1. CASE UNCHANGED tvars
  BY <1>1 DEF tvars, SharedInv, Typed, Counted, Owned, Accepting, Settling, T3!FuturesSettle,
     LiveAccepts,
         T3!AcceptLive, T3!SendLive, T3!ReceiveLive
<1>2. CASE T3!Next
  BY <1>2, TypedNext, CountedNext, OwnedNext, AcceptingNext, SettlingNext DEF SharedInv
<1> QED BY <1>1, <1>2

\* What it says of the socket: its types,
LEMMA SharedTypes == SharedInv => T3!TypeOK
<1> SUFFICES ASSUME SharedInv PROVE T3!TypeOK
  OBVIOUS
<1>1. T3!Cardinality(Listens) = Cardinality(Listens)
  BY Zenon DEF T3!Cardinality, Cardinality
<1>2. CountTold
  BY CountSays DEF SharedInv, Typed
<1> QED BY <1>1, <1>2 DEF T3!TypeOK, SharedInv, Typed, CountTold, Accepting, SocketStates,
      SocketConns, SocketListeners,
             Accepts, Sendings, Receivings

\* nobody closes under a user,
LEMMA SharedStays == SharedInv => T3!StaysOpen
BY DEF SharedInv, Owned, Accepting, T3!StaysOpen

\* and after the last one nothing is open.
LEMMA SharedCloses == SharedInv => T3!ClosesAtLast
<1> SUFFICES ASSUME SharedInv, ~handle, ~T3!SendLive, ~T3!ReceiveLive,
                    \A l \in Listens : ~T3!AcceptLive(l)
             PROVE  /\ conn3.os # "open"
                    /\ \A l \in Listens : listener3[l].up = "live" =>
                         \E k \in Listens \ {l} : accepts[k].at = "over"
  BY DEF T3!ClosesAtLast
<1>1. refs = 0
  <2>1. LiveAccepts = {}
    BY DEF LiveAccepts
  <2>2. Cardinality(LiveAccepts) = 0
    BY <2>1, FS_EmptySet
  <2> QED BY <2>2 DEF SharedInv, Counted, One
<1>2. \A k \in Listens : accepts[k].at \in {"none", "over"}
  BY DEF T3!AcceptLive
<1> QED BY <1>1, <1>2, ProviderAssumption DEF SharedInv, Owned, Accepting

-----------------------------------------------------------------------------
(* The UDP socket: its queue, its remote, and who is parked at it.             *)

\* The types of the parts of a UDP socket.
Datagrams ==
  [up : {"none", "open", "closed"}, link : Addrs \cup {None}, queue : Seq(Addrs), failed : BOOLEAN]
Pairs == [remote : Addrs \cup {None}, failing : 0..1, failure : BOOLEAN]
Receiving ==
  [at : {"none", "receive", "given", "fails", "poll", "woken"}, got : Addrs \cup {None}]

\* Of a call of connect whose callback is due, the OS knows and the provider does not.
DialsDue ==
  track = "p3" => \A d \in dials : d.ok => remote = None /\ conn4.link = d.to

\* The remote, and what the socket is bound to.
Linked ==
  /\ track \in {"p2", "p3"} /\ bound \in {"unbound", "bind-in-progress", "bound", "closed"}
  /\ remote \in Addrs \cup {None} /\ dials \subseteq [to : Addrs, ok : BOOLEAN]
  /\ went \in [meant : Addrs \cup {None}, to : Addrs \cup {None}]
  /\ filters \in BOOLEAN
  /\ U!LinkAgrees /\ DialsDue

\* The OS socket and its queue, which is bounded.
Queueing == conn4 \in Datagrams /\ Len(conn4.queue) <= MaxDatagrams
\* The receivers, none of whom is parked beside what he waits for.
Waiting == parked \in [Receivers -> Receiving] /\ U!NoneParkedBeside

\* What the UDP socket keeps.
UdpInv == Queueing /\ Linked /\ pairs \in Seq(Pairs) /\ Waiting

\* A fresh socket.
LEMMA UdpInit == U!Init => UdpInv
<1> SUFFICES ASSUME U!Init PROVE UdpInv
  OBVIOUS
<1> USE ProviderAssumption DEF U!Init
<1>1. Queueing
  BY DEF Queueing, Datagrams, U!NoConn
<1>2. Linked
  BY DEF Linked, DialsDue, U!LinkAgrees, U!NoConn, U!Undirected
<1>3. pairs \in Seq(Pairs)
  OBVIOUS
<1>4. Waiting
  BY DEF Waiting, Receiving, U!Idle, U!NoneParkedBeside, U!In
<1> QED BY <1>1, <1>2, <1>3, <1>4 DEF UdpInv

\* A nonempty set of positions has a first one.
LEMMA FirstOf ==
  ASSUME NEW n \in Nat, NEW S \in SUBSET (1..n), S # {}
  PROVE  \E i \in S : \A j \in S : i <= j
<1>1. S \subseteq Nat
  OBVIOUS
<1>2. PICK i \in S : \A j \in S : ~(<<j, i>> \in OpToRel(<, Nat))
  BY <1>1, WFMin, NatLessThanWellFounded
<1>3. \A j \in S : ~(j < i)
  BY <1>1, <1>2 DEF OpToRel
<1> QED BY <1>1, <1>3

\* Datagrams arrive within the bound and leave in order.
LEMMA QueueingNext ==
  ASSUME UdpInv, [U!Next]_uvars
  PROVE  Queueing'
<1> USE ProviderAssumption DEF UdpInv, Queueing, Datagrams
<1>1. ASSUME NEW q \in Seq(Addrs), Len(q) <= MaxDatagrams, conn4' = [conn4 EXCEPT !.queue = q]
      PROVE  Queueing'
  BY <1>1
<1> DEFINE Turned == conn4' \in Datagrams /\ conn4'.queue = conn4.queue
<1>2. ASSUME Turned PROVE Queueing'
  BY <1>2
<1>3. ASSUME NEW r \in Receivers, U!Receive(r) \/ U!LooksOn(r) PROVE Queueing'
  <2>1. conn4' = conn4 \/ (conn4.queue # <<>> /\ conn4' = [conn4 EXCEPT !.queue = Tail(@)])
    BY <1>3 DEF U!Receive, U!LooksOn
  <2>2. CASE conn4' = conn4
    BY <1>2, <2>2
  <2>3. CASE conn4.queue # <<>> /\ conn4' = [conn4 EXCEPT !.queue = Tail(@)]
    <3>1. Tail(conn4.queue) \in Seq(Addrs) /\ Len(Tail(conn4.queue)) <= Len(conn4.queue)
      BY <2>3
    <3>2. Len(Tail(conn4.queue)) <= MaxDatagrams
      BY <2>3, <3>1
    <3> QED BY <1>1, <2>3, <3>1, <3>2
  <2> QED BY <2>1, <2>2, <2>3
<1>4. ASSUME NEW a \in Addrs, NEW r \in Receivers, U!Message(a, r) PROVE Queueing'
  <2>1. CASE conn4' = conn4
    BY <1>2, <2>1
  <2>2. CASE conn4' # conn4
    <3>1. Len(conn4.queue) < MaxDatagrams /\ conn4' = [conn4 EXCEPT !.queue = Append(@, a)]
      BY <1>4, <2>2 DEF U!Message
    <3>2. Append(conn4.queue, a) \in Seq(Addrs) /\ Len(Append(conn4.queue, a)) = Len(conn4.queue) + 1
      OBVIOUS
    <3>3. Len(Append(conn4.queue, a)) <= MaxDatagrams
      BY <3>1, <3>2
    <3> QED BY <1>1, <3>1, <3>2, <3>3
  <2> QED BY <2>1, <2>2
<1>5. ASSUME U!ReceivePair PROVE Queueing'
  <2> DEFINE hits == {i \in 1..Len(conn4.queue) : U!Matches(conn4.queue[i])}
             n == IF hits = {} THEN Len(conn4.queue) ELSE CHOOSE i \in hits : \A j \in hits : i <= j
  <2>1. Len(conn4.queue) \in Nat /\ hits \in SUBSET (1..Len(conn4.queue))
    OBVIOUS
  <2>2. hits # {} => n \in hits
    BY <2>1, FirstOf
  <2>3. n \in 0..Len(conn4.queue)
    BY <2>1, <2>2
  <2>4. conn4' = [conn4 EXCEPT !.queue = SubSeq(@, n + 1, Len(@))]
    BY <1>5 DEF U!ReceivePair
  <2> HIDE DEF n
  <2>5. /\ SubSeq(conn4.queue, n + 1, Len(conn4.queue)) \in Seq(Addrs)
        /\ Len(SubSeq(conn4.queue, n + 1, Len(conn4.queue))) <= Len(conn4.queue)
    BY <2>1, <2>3
  <2>6. Len(SubSeq(conn4.queue, n + 1, Len(conn4.queue))) <= MaxDatagrams
    BY <2>1, <2>5
  <2> QED BY <1>1, <2>4, <2>5, <2>6
<1>6. ASSUME NEW a \in Addrs, NEW ok \in BOOLEAN, U!Dials(a, ok) PROVE Turned
  BY <1>6 DEF U!Dials
<1>7. ASSUME U!Bind \/ U!Disconnect \/ U!Error \/ U!Dispose PROVE Turned
  BY <1>7 DEF U!Bind, U!Disconnect, U!Error, U!Dispose
<1>8. ASSUME NEW a \in Addrs \cup {None}, U!Send(a) PROVE Turned
  BY <1>8 DEF U!Send
<1>9. ASSUME NEW a \in Addrs \cup {None}, NEW ok \in BOOLEAN, U!Stream(a, ok) PROVE Turned
  <2>1. CASE a # None
    BY <1>6, <1>9, <2>1 DEF U!Stream
  <2>2. CASE a = None
    <3>1. \E l \in Addrs \cup {None} : conn4' = [conn4 EXCEPT !.link = l]
      BY <1>9, <2>2 DEF U!Stream
    <3> QED BY <3>1
  <2> QED BY <2>1, <2>2
<1>11. ASSUME NEW a \in Addrs, NEW ok \in BOOLEAN, U!Connect(a, ok) PROVE Turned
  BY <1>6, <1>11 DEF U!Connect
<1>12. U!Next => \/ conn4' = conn4 \/ Turned \/ U!ReceivePair
                 \/ \E r \in Receivers : U!Receive(r) \/ U!LooksOn(r) \/ \E a \in Addrs : U!Message(a, r)
  <2> HIDE DEF Turned
  <2>1. SUFFICES ASSUME U!Next
                 PROVE  \/ conn4' = conn4 \/ Turned \/ U!ReceivePair
                        \/ \E r \in Receivers : U!Receive(r) \/ U!LooksOn(r) \/ \E a \in Addrs : U!Message(a, r)
    OBVIOUS
  <2> QED BY <1>7, <1>8, <1>9, <1>11, <2>1
          DEF U!Next, U!FinishBind, U!Connected, U!Surfaces, U!SendPair, U!SendFailed, U!Returns,
            U!Fails,
              U!Polls, U!PollWakes
<1>13. conn4' = conn4 => Turned
  OBVIOUS
<1> QED BY <1>2, <1>3, <1>4, <1>5, <1>12, <1>13 DEF uvars

\* The remote as the OS, the provider and the guest know it.
LEMMA LinkedNext ==
  ASSUME UdpInv, [U!Next]_uvars
  PROVE  Linked'
<1> USE ProviderAssumption DEF UdpInv, Queueing, Datagrams, Linked, U!LinkAgrees, DialsDue
<1>1. ASSUME NEW a \in Addrs, NEW ok \in BOOLEAN, U!Connect(a, ok) PROVE Linked'
  <2>1. /\ track' = track /\ track = "p3" /\ remote = None /\ UNCHANGED <<filters, remote, went>>
        /\ bound' = "bound" /\ dials' = dials \cup {[to |-> a, ok |-> ok /\ conn4.link = None]}
        /\ conn4'.link = IF ok /\ conn4.link = None THEN a ELSE conn4.link
    BY <1>1 DEF U!Connect, U!Dials
  <2>2. CASE ok /\ conn4.link = None
    <3>1. conn4'.link = a /\ dials' = dials \cup {[to |-> a, ok |-> TRUE]} /\ \A d \in dials : ~d.ok
      BY <2>1, <2>2
    <3>2. [to |-> a, ok |-> TRUE] \in [to : Addrs, ok : BOOLEAN]
      OBVIOUS
    <3>3. dials' \subseteq [to : Addrs, ok : BOOLEAN]
      BY <3>1, <3>2
    <3>4. \A d \in dials' : d.ok => d.to = a
      BY <3>1
    <3> QED BY <2>1, <3>1, <3>3, <3>4
  <2>3. CASE ~(ok /\ conn4.link = None)
    <3>1. conn4'.link = conn4.link /\ dials' = dials \cup {[to |-> a, ok |-> FALSE]}
      BY <2>1, <2>3
    <3>2. [to |-> a, ok |-> FALSE] \in [to : Addrs, ok : BOOLEAN]
      OBVIOUS
    <3>3. dials' \subseteq [to : Addrs, ok : BOOLEAN] /\ dials \subseteq dials'
      BY <3>1, <3>2
    <3>4. \A d \in dials' : d.ok => d \in dials
      BY <3>1
    <3> QED BY <2>1, <3>1, <3>3, <3>4
  <2> QED BY <2>2, <2>3
<1>2. ASSUME NEW d \in dials, U!Connected(d) PROVE Linked'
  <2>1. /\ dials' = dials \ {d} /\ remote' = (IF d.ok THEN d.to ELSE remote)
        /\ UNCHANGED <<track, filters, bound, conn4, went>>
    BY <1>2 DEF U!Connected
  <2>2. CASE d.ok
    <3>0. d \in [to : Addrs, ok : BOOLEAN] /\ d.to \in Addrs
      OBVIOUS
    <3>1. ASSUME track = "p3", NEW e \in dials, e.ok PROVE e = d
      BY <2>2, <3>1
    <3>2. remote' = d.to /\ (track = "p3" => conn4.link = d.to)
      BY <2>1, <2>2
    <3>3. track = "p3" => \A e \in dials' : ~e.ok
      BY <2>1, <3>1
    <3> QED BY <2>1, <3>2, <3>3
  <2>3. CASE ~d.ok
    BY <2>1, <2>3
  <2> QED BY <2>2, <2>3
<1>3. ASSUME U!Disconnect PROVE Linked'
  BY <1>3 DEF U!Disconnect
<1>4. ASSUME NEW to \in Addrs \cup {None}, U!Send(to) PROVE Linked'
  <2>1. conn4'.link = conn4.link /\ bound' = "bound" /\ UNCHANGED <<track, filters, remote, dials>>
    BY <1>4 DEF U!Send
  <2>2. went' \in [meant : Addrs \cup {None}, to : Addrs \cup {None}] /\ went'.to = went'.meant
    BY <1>4 DEF U!Send, U!Undirected
  <2> QED BY <2>1, <2>2
<1>5. ASSUME NEW a \in Addrs \cup {None}, NEW ok \in BOOLEAN, U!Stream(a, ok) \/ U!SendPair(a, ok) PROVE Linked'
  <2>1. track = "p2" /\ UNCHANGED <<track, filters, bound, dials>> /\ remote' \in Addrs \cup {None}
    BY <1>5 DEF U!Stream, U!SendPair, U!LivePair
  <2>2. went' \in [meant : Addrs \cup {None}, to : Addrs \cup {None}]
    BY <1>5 DEF U!Stream, U!SendPair, U!Undirected
  <2> QED BY <2>1, <2>2
<1>6. ASSUME conn4'.link = conn4.link,
             bound' \in {"unbound", "bind-in-progress", "bound", "closed"},
             UNCHANGED <<track, filters, remote, dials, went>>
      PROVE  Linked'
  BY <1>6
<1> DEFINE Same == /\ conn4'.link = conn4.link /\ bound' \in {"unbound", "bind-in-progress", "bound", "closed"}
                   /\ UNCHANGED <<track, filters, remote, dials, went>>
<1>7. ASSUME U!Bind \/ U!FinishBind \/ U!Surfaces \/ U!ReceivePair \/ U!Dispose \/ U!Error PROVE Same
  BY <1>7 DEF U!Bind, U!FinishBind, U!Surfaces, U!ReceivePair, U!Dispose, U!Error
<1>8. ASSUME NEW r \in Receivers,
             \/ U!Receive(r) \/ U!Returns(r) \/ U!LooksOn(r) \/ U!Fails(r) \/ U!Polls(r) \/ U!PollWakes(r)
             \/ \E a \in Addrs : U!Message(a, r)
      PROVE Same
  BY <1>8 DEF U!Receive, U!Returns, U!LooksOn, U!Fails, U!Polls, U!PollWakes, U!Message
<1>9. ASSUME NEW g, U!SendFailed(g) PROVE Same
  BY <1>9 DEF U!SendFailed
<1>10. ASSUME UNCHANGED uvars PROVE Same
  BY <1>10 DEF uvars
<1> HIDE DEF Same
<1>11. U!Next => \/ (\E a \in Addrs, ok \in BOOLEAN : U!Connect(a, ok)) \/ (\E d \in dials : U!Connected(d))
                 \/ U!Disconnect \/ (\E to \in Addrs \cup {None} : U!Send(to))
                 \/ (\E a \in Addrs \cup {None}, ok \in BOOLEAN : U!Stream(a, ok) \/ U!SendPair(a, ok))
                 \/ Same
  BY <1>7, <1>8, <1>9 DEF U!Next
<1> QED BY <1>1, <1>2, <1>3, <1>4, <1>5, <1>6, <1>10, <1>11 DEF Same

\* The pairs of streams keep their types.
LEMMA PairsNext ==
  ASSUME UdpInv, [U!Next]_uvars
  PROVE  pairs' \in Seq(Pairs)
<1> USE DEF UdpInv
<1>1. ASSUME NEW a \in Addrs \cup {None}, NEW ok \in BOOLEAN, U!Stream(a, ok)
      PROVE  pairs' \in Seq(Pairs)
  BY <1>1 DEF U!Stream, Pairs
<1>2. ASSUME NEW g \in 1..Len(pairs), NEW p \in Pairs, pairs' = [pairs EXCEPT ![g] = p]
      PROVE  pairs' \in Seq(Pairs)
  BY <1>2, ExceptSeq
<1>4. Len(pairs) \in Nat /\ DOMAIN pairs = 1..Len(pairs) /\ (pairs # <<>> => Len(pairs) \in 1..Len(pairs))
  OBVIOUS
<1>5. ASSUME U!Surfaces PROVE pairs' \in Seq(Pairs)
  <2>1. pairs' = [pairs EXCEPT ![Len(pairs)].failure = FALSE] /\ Len(pairs) \in 1..Len(pairs)
    BY <1>4, <1>5 DEF U!Surfaces, U!LivePair
  <2>2. pairs[Len(pairs)] \in Pairs
    BY <2>1
  <2>3. [pairs[Len(pairs)] EXCEPT !.failure = FALSE] \in Pairs
    BY <2>2 DEF Pairs
  <2> QED BY <1>2, <2>1, <2>3
<1>6. ASSUME NEW a, NEW ok, U!SendPair(a, ok) PROVE pairs' \in Seq(Pairs)
  <2>1. pairs' \in {pairs, [pairs EXCEPT ![Len(pairs)].failing = 1]} /\ Len(pairs) \in 1..Len(pairs)
    BY <1>4, <1>6 DEF U!SendPair, U!LivePair
  <2>2. pairs[Len(pairs)] \in Pairs
    BY <2>1
  <2>3. [pairs[Len(pairs)] EXCEPT !.failing = 1] \in Pairs
    BY <2>2 DEF Pairs
  <2> QED BY <1>2, <2>1, <2>3
<1>7. ASSUME NEW g, U!SendFailed(g) PROVE pairs' \in Seq(Pairs)
  <2>1. pairs' = [pairs EXCEPT ![g].failing = 0, ![g].failure = TRUE] /\ g \in 1..Len(pairs)
    BY <1>4, <1>7 DEF U!SendFailed
  <2>2. pairs[g] \in Pairs
    BY <2>1
  <2> DEFINE p == [pairs[g] EXCEPT !.failing = 0]
             q == [pairs EXCEPT ![g] = p]
  <2>3. p \in Pairs
    BY <2>2 DEF Pairs
  <2>4. q \in Seq(Pairs) /\ Len(q) = Len(pairs) /\ q[g] = p
    BY <2>1, <2>3, ExceptSeq
  <2>5. [p EXCEPT !.failure = TRUE] \in Pairs
    BY <2>3 DEF Pairs
  <2>6. pairs' = [q EXCEPT ![g] = [p EXCEPT !.failure = TRUE]]
    BY <2>1, <2>4
  <2> HIDE DEF p, q
  <2> DEFINE e == [p EXCEPT !.failure = TRUE]
  <2>7. e \in Pairs /\ pairs' = [q EXCEPT ![g] = e]
    BY <2>5, <2>6
  <2>8. g \in 1..Len(q)
    BY <2>1, <2>4
  <2> HIDE DEF e
  <2>9. [q EXCEPT ![g] = e] \in Seq(Pairs)
    BY <2>4, <2>7, <2>8, ExceptSeq
  <2> QED BY <2>7, <2>9
<1>8. U!Next => \/ (\E a \in Addrs \cup {None}, ok \in BOOLEAN : U!Stream(a, ok) \/ U!SendPair(a, ok))
                \/ U!Surfaces \/ (\E g \in 1..MaxPairs : U!SendFailed(g)) \/ pairs' = pairs
  BY DEF U!Next, U!Bind, U!FinishBind, U!Connected, U!Disconnect, U!ReceivePair, U!Dispose, U!Error,
         U!Connect, U!Send, U!Receive, U!Returns, U!LooksOn, U!Fails, U!Polls, U!PollWakes,
           U!Message
<1> QED BY <1>1, <1>5, <1>6, <1>7, <1>8 DEF uvars

\* Whoever makes the socket readable, or kills it, wakes those who wait.
LEMMA WaitingNext ==
  ASSUME UdpInv, [U!Next]_uvars
  PROVE  Waiting'
<1> USE DEF UdpInv, Waiting, Queueing, Datagrams, U!NoneParkedBeside, U!In, U!Live, U!Readable
<1>1. ASSUME parked' = parked, conn4'.queue = conn4.queue \/ conn4.queue # <<>>,
             conn4'.up \in {conn4.up, "open"}, conn4'.failed = conn4.failed,
             Queueing'
      PROVE  Waiting'
  BY <1>1
<1>2. ASSUME NEW r \in Receivers, U!Receive(r) PROVE Waiting'
  <2>1. CASE conn4.queue = <<>>
    <3>1. parked' = [parked EXCEPT ![r].at = "receive"] /\ conn4' = conn4 /\ U!Live /\ ~conn4.failed
      BY <1>2, <2>1 DEF U!Receive
    <3>2. parked' \in [Receivers -> Receiving] /\ parked'[r].at = "receive"
      BY <3>1 DEF Receiving
    <3> QED BY <2>1, <3>1, <3>2
  <2>2. CASE conn4.queue # <<>>
    <3>1. Head(conn4.queue) \in Addrs /\ conn4' = [conn4 EXCEPT !.queue = Tail(@)]
      BY <1>2, <2>2 DEF U!Receive
    <3>2. parked' = [parked EXCEPT ![r] = [at |-> "given", got |-> Head(conn4.queue)]]
      BY <1>2, <2>2 DEF U!Receive
    <3> QED BY <2>2, <3>1, <3>2 DEF Receiving
  <2> QED BY <2>1, <2>2
<1>3. ASSUME NEW r \in Receivers, U!Returns(r) \/ U!Fails(r) PROVE Waiting'
  BY SMTT(60), <1>3 DEF U!Returns, U!Fails, U!Idle, Receiving
<1>4. ASSUME NEW r \in Receivers, U!LooksOn(r) PROVE Waiting'
  <2>1. parked[r].at = "given" /\ parked[r] \in Receiving
    BY <1>4 DEF U!LooksOn
  <2>2. CASE ~U!Live \/ conn4.failed
    <3>1. parked' = [parked EXCEPT ![r] = [at |-> "fails", got |-> None]] /\ conn4' = conn4
      BY <1>4, <2>2 DEF U!LooksOn
    <3> QED BY <3>1 DEF Receiving
  <2>3. CASE U!Live /\ ~conn4.failed /\ conn4.queue # <<>>
    <3>1. /\ Head(conn4.queue) \in Addrs /\ conn4' = [conn4 EXCEPT !.queue = Tail(@)]
          /\ parked' = [parked EXCEPT ![r].got = Head(conn4.queue)]
      BY <1>4, <2>3 DEF U!LooksOn
    <3>2. parked'[r] \in Receiving /\ parked'[r].at = "given"
      BY <2>1, <3>1 DEF Receiving
    <3> QED BY <2>1, <2>3, <3>1, <3>2 DEF Receiving
  <2>4. CASE U!Live /\ ~conn4.failed /\ conn4.queue = <<>>
    <3>1. parked' = [parked EXCEPT ![r] = [at |-> "receive", got |-> None]] /\ conn4' = conn4
      BY <1>4, <2>4 DEF U!LooksOn
    <3> QED BY <2>4, <3>1 DEF Receiving
  <2> QED BY <2>2, <2>3, <2>4
<1>5. ASSUME NEW r \in Receivers, U!Polls(r) \/ U!PollWakes(r) PROVE Waiting'
  <2>1. conn4' = conn4
    BY <1>5 DEF U!Polls, U!PollWakes
  <2>2. CASE U!Readable
    <3>1. parked' = [parked EXCEPT ![r] = U!Idle]
      BY <1>5, <2>2 DEF U!Polls, U!PollWakes
    <3> QED BY <2>1, <3>1 DEF U!Idle, Receiving
  <2>3. CASE ~U!Readable
    <3>1. /\ parked' \in [Receivers -> Receiving] /\ parked'[r].at = "poll"
          /\ \A s \in Receivers : s # r => parked'[s] = parked[s]
      <4>1. CASE U!Polls(r)
        BY <4>1 DEF U!Polls, Receiving
      <4>2. CASE U!PollWakes(r)
        BY <2>3, <4>2 DEF U!PollWakes, Receiving
      <4> QED BY <1>5, <4>1, <4>2
    <3> QED BY <2>1, <2>3, <3>1
  <2> QED BY <2>2, <2>3
<1>6. ASSUME U!Dispose PROVE Waiting'
  BY <1>6 DEF U!Dispose, U!Wake, Receiving
<1>7. ASSUME U!Error PROVE Waiting'
  BY <1>7 DEF U!Error, U!Wake, Receiving
<1>8. ASSUME NEW a \in Addrs, NEW r \in Receivers, U!Message(a, r) PROVE Waiting'
  <2>1. CASE U!In("receive") # {}
    <3>1. parked' = [parked EXCEPT ![r] = [at |-> "given", got |-> a]] /\ conn4' = conn4
      BY <1>8, <2>1 DEF U!Message
    <3> QED BY <3>1 DEF Receiving
  <2>2. CASE U!In("receive") = {}
    <3>1. U!Wake({})
      BY <1>8, <2>2 DEF U!Message
    <3>2. \A s \in Receivers : parked'[s].at # "poll" /\ parked'[s].at # "receive"
      BY <2>2, <3>1 DEF U!Wake, Receiving
    <3>3. parked' \in [Receivers -> Receiving]
      BY <3>1 DEF U!Wake, Receiving
    <3> QED BY <3>2, <3>3
  <2> QED BY <2>1, <2>2
<1>9. ASSUME UNCHANGED <<conn4, parked>> PROVE Waiting'
  BY <1>9
<1> DEFINE Slept == /\ parked' = parked /\ (conn4'.queue = conn4.queue \/ conn4.queue # <<>>)
                    /\ conn4'.up \in {conn4.up, "open"} /\ conn4'.failed = conn4.failed
<1>10. ASSUME U!Bind \/ U!Disconnect \/ U!ReceivePair PROVE Slept
  BY <1>10 DEF U!Bind, U!Disconnect, U!ReceivePair
<1>11. ASSUME NEW a \in Addrs \cup {None}, NEW ok \in BOOLEAN, U!Connect(a, ok) \/ U!Stream(a, ok) \/ U!Send(a)
       PROVE Slept
  BY <1>11 DEF U!Connect, U!Stream, U!Send, U!Dials
<1> HIDE DEF Slept
<1>12. U!Next => \/ Slept \/ U!Dispose \/ U!Error \/ UNCHANGED <<conn4, parked>>
                 \/ \E r \in Receivers : \/ U!Receive(r) \/ U!Returns(r) \/ U!LooksOn(r) \/ U!Fails(r)
                                         \/ U!Polls(r) \/ U!PollWakes(r) \/ \E a \in Addrs : U!Message(a, r)
  BY <1>10, <1>11 DEF U!Next, U!FinishBind, U!Connected, U!Surfaces, U!SendPair, U!SendFailed
<1> QED BY <1>1, <1>2, <1>3, <1>4, <1>5, <1>6, <1>7, <1>8, <1>9, <1>12, QueueingNext
      DEF Slept, uvars

\* The UDP socket keeps its invariant.
LEMMA UdpNext ==
  ASSUME UdpInv, [U!Next]_uvars
  PROVE  UdpInv'
BY QueueingNext, LinkedNext, PairsNext, WaitingNext DEF UdpInv

\* What it says of the socket.
LEMMA UdpSafe == UdpInv => U!TypeOK /\ U!NoneParkedBeside /\ U!LinkAgrees
<1> SUFFICES ASSUME UdpInv PROVE U!TypeOK /\ U!NoneParkedBeside /\ U!LinkAgrees
  OBVIOUS
<1> QED BY DEF UdpInv, U!TypeOK, Queueing, Linked, Waiting, Datagrams, Pairs, Receiving

-----------------------------------------------------------------------------
(* The HTTP message, its request and the response.                             *)

\* What is built on is the handle's own array, and a message's headers are frozen.
Headers ==
  /\ fields["mine"].of = "mine"
  /\ \A h \in H!Handles : fields[h].there => fields[h].of = h
  /\ message.at # "none" => ~fields["mine"].mutable

\* A request goes on when the policy allowed it, and reaches nobody before.
Granted == options.policy = "absent" \/ (options.policy = "ask" /\ egress.verdict = "allow")

\* How far the request has come, and what has been done for it on the way.
Egress ==
  /\ message.at \in {"none", "built", "policy"} =>
       ~egress.dispatched /\ source \notin {"drained", "failed"}
  /\ message.at \in {"collect", "trailers", "fetch", "answered"} => Granted
  /\ message.at \in {"fetch", "answered"} => egress.dispatched
  /\ egress.dispatched \/ source \in {"drained", "failed"} => Granted
  /\ message.at = "policy" => options.policy = "ask"
  /\ message.at = "none" => message.transmission = "none"
  /\ message.transmission = "ok" => message.at \in {"consumed", "answered"}

\* Who has the response, where its body is, and what its trailers are told.
Response ==
  /\ resp.at = "none" => resp.body = "none"
  /\ resp.at # "none" => message.at = "answered"
  /\ resp.at = "held" => resp.body \in {"null", "open"}
  /\ resp.at = "dropped" => resp.body # "open"
  /\ reading.at # "none" <=> resp.at = "consumed"
  /\ trailers = "none" <=> reading.at = "none"
  /\ trailers = "pending" <=> reading.at \in {"read", "yield"}
  /\ trailers = "ok" => resp.body \in {"null", "ended", "cancelled"}
  /\ trailers = "err" => resp.body \in {"failed", "cancelled"}
  /\ reading.at \in {"read", "yield"} =>
       /\ reading.outcome = "done" => resp.body = "ended"
       /\ reading.outcome = "error" => resp.body = "failed"
       /\ reading.outcome \notin {"done", "error"} => resp.body = "open"
  /\ reading.at \in {"none", "yield"} => reading.outcome = "pending"

\* What the HTTP provider keeps.
HttpInv == H!TypeOK /\ Headers /\ Egress /\ Response

\* Nothing is built yet.
LEMMA HttpInit == H!Init => HttpInv
<1> SUFFICES ASSUME H!Init PROVE HttpInv
  OBVIOUS
<1> USE DEF H!Init
<1>1. fields \in [H!Handles -> H!Fields] /\ message \in H!Messages /\ source \in H!Sources
  BY DEF H!Handles, H!NoFields, H!Fields, H!Messages, H!Sources
<1>2. egress \in H!Verdicts /\ resp \in H!Responses /\ reading \in H!Readings
  BY DEF H!Verdicts, H!Responses, H!Readings
<1>3. Headers /\ Egress /\ Response
  BY DEF Headers, Egress, Response, H!Handles, H!NoFields
<1> QED BY <1>1, <1>2, <1>3 DEF HttpInv, H!TypeOK

\* What a step does to the fields keeps their type, and the headers of a message.
LEMMA FieldsNext ==
  ASSUME H!TypeOK, Headers, [H!Next]_hvars
  PROVE  /\ fields' \in [H!Handles -> H!Fields]
         /\ \A h \in H!Handles : fields'[h].there => fields'[h].of = h
         /\ fields'["mine"].of = "mine"
         /\ fields["mine"].mutable = FALSE => fields'["mine"] = fields["mine"]
         /\ message'.at # "none" => ~fields'["mine"].mutable
<1> DEFINE Kept == /\ fields' \in [H!Handles -> H!Fields]
                   /\ \A h \in H!Handles : fields'[h].there => fields'[h].of = h
                   /\ fields'["mine"].of = "mine"
                   /\ fields["mine"].mutable = FALSE => fields'["mine"] = fields["mine"]
                   /\ message'.at # "none" => ~fields'["mine"].mutable
<1> USE DEF H!TypeOK, Headers, H!Handles, H!Fields
<1>1. ASSUME NEW h \in H!Handles, NEW entries \in SUBSET Names, H!Edit(h, entries) PROVE Kept
  BY <1>1 DEF H!Edit, H!Editable
<1>2. ASSUME NEW h \in H!Handles, NEW name \in Names, H!Append(h, name) PROVE Kept
  BY SMTT(60), <1>2 DEF H!Append, H!Editable
<1>3. ASSUME NEW h \in H!Handles, H!Clone(h) PROVE Kept
  BY <1>3 DEF H!Clone, H!Copied, H!Entries
<1>4. ASSUME H!GetHeaders PROVE Kept
  BY <1>4 DEF H!GetHeaders, H!Copied, H!Entries
<1>5. ASSUME NEW kind, H!New(kind) PROVE Kept
  BY <1>5 DEF H!New
<1>6. ASSUME fields' = fields, message.at = "none" => message'.at = "none" PROVE Kept
  BY <1>6
<1>7. H!Next => \/ \E h \in H!Handles : \/ H!Clone(h) \/ (\E entries \in SUBSET Names : H!Edit(h, entries))
                                       \/ \E name \in Names : H!Append(h, name)
                \/ H!GetHeaders \/ (\E kind \in {"request", "response"} : H!New(kind))
                \/ fields' = fields /\ (message.at = "none" => message'.at = "none")
  BY DEF H!Goto, H!Throw, H!Collect, H!Next, H!ConsumeStored, H!DropMessage, H!DropResponse,
     H!ConsumeFetched, H!ReadReturns,
         H!Taken, H!ReaderDropped, H!Send, H!Verdict, H!Collected, H!Fetched, H!Trailers,
         H!Reported, H!ReadSettles
<1> HIDE DEF Kept
<1>8. Kept
  BY <1>1, <1>2, <1>3, <1>4, <1>5, <1>6, <1>7 DEF hvars
<1> QED BY <1>8 DEF Kept

\* The rest of HttpInv.
HttpKept ==
  /\ options \in H!Options /\ message \in H!Messages
  /\ source \in H!Sources /\ egress \in H!Verdicts /\ resp \in H!Responses /\ reading \in H!Readings
  /\ trailers \in {"none", "pending", "ok", "err"}
  /\ Egress /\ Response

\* The request, the response, its body and the futures step together.
LEMMA HttpKeptNext ==
  ASSUME HttpKept, [H!Next]_hvars
  PROVE  HttpKept'
<1> USE DEF HttpKept
<1>1. ASSUME NEW kind \in {"request", "response"}, H!New(kind) PROVE HttpKept'
  <2>1. message' \in H!Messages
    BY <1>1 DEF H!New, H!Messages
  <2>2. Egress'
    BY <1>1 DEF H!New, Egress, Granted, H!Messages
  <2>3. resp.at = "none" /\ UNCHANGED <<resp, reading, trailers>>
    BY <1>1 DEF H!New, Response
  <2>4. Response'
    BY <2>3 DEF Response
  <2> QED BY <1>1, <2>1, <2>2, <2>4 DEF H!New
<1>2. ASSUME NEW fit \in BOOLEAN, H!Send(fit) PROVE HttpKept'
  <2>1. message' \in H!Messages
    BY <1>2 DEF H!Send, H!Throw, H!Goto, H!Collect, H!Messages
  <2>2. Egress'
    <3>1. /\ message.at = "built" /\ message'.at \in {"threw", "policy", "collect", "trailers"}
          /\ message'.transmission \in {"pending", "err", message.transmission}
          /\ message'.at = "policy" => options.policy = "ask"
          /\ message'.at \in {"collect", "trailers"} => options.policy = "absent"
          /\ UNCHANGED <<options, source, egress>>
      BY <1>2 DEF H!Send, H!Throw, H!Goto, H!Collect, H!Messages
    <3> QED BY <3>1 DEF Egress, Granted
  <2>3. resp.at = "none" /\ UNCHANGED <<resp, reading, trailers>>
    BY <1>2 DEF H!Send, H!Throw, H!Goto, H!Collect, Response
  <2>4. Response'
    BY <2>3 DEF Response
  <2> QED BY <1>2, <2>1, <2>2, <2>4 DEF H!Send
<1>3. ASSUME NEW v \in {"allow", "deny", "throws"}, H!Verdict(v) PROVE HttpKept'
  <2>1. message' \in H!Messages /\ egress' \in H!Verdicts
    BY ZenonT(60), <1>3 DEF H!Verdict, H!Throw, H!Goto, H!Collect, H!Messages, H!Verdicts
  <2>2. Egress'
    <3>1. /\ message.at = "policy" /\ message'.at \in {"threw", "collect", "trailers"}
          /\ message'.transmission \in {"err", message.transmission}
          /\ message'.at \in {"collect", "trailers"} => egress'.verdict = "allow"
          /\ UNCHANGED <<options, source>> /\ egress'.dispatched = egress.dispatched
      BY <1>3 DEF H!Verdict, H!Throw, H!Goto, H!Collect, H!Messages, H!Verdicts
    <3> QED BY <3>1 DEF Egress, Granted
  <2>3. resp.at = "none" /\ UNCHANGED <<resp, reading, trailers>>
    BY <1>3 DEF H!Verdict, H!Throw, H!Goto, H!Collect, Response
  <2>4. Response'
    BY <2>3 DEF Response
  <2> QED BY <1>3, <2>1, <2>2, <2>4 DEF H!Verdict
<1>4. ASSUME NEW ok \in BOOLEAN, H!Collected(ok) PROVE HttpKept'
  <2>1. message' \in H!Messages /\ source' \in H!Sources
    BY <1>4 DEF H!Collected, H!Throw, H!Goto, H!Messages, H!Sources
  <2>2. Egress'
    BY <1>4 DEF H!Collected, H!Throw, H!Goto, Egress, Granted, H!Messages
  <2>3. resp.at = "none" /\ UNCHANGED <<resp, reading, trailers>>
    BY <1>4 DEF H!Collected, H!Throw, H!Goto, Response
  <2>4. Response'
    BY <2>3 DEF Response
  <2> QED BY <1>4, <2>1, <2>2, <2>4 DEF H!Collected
<1>5. ASSUME NEW t \in {"none", "some", "error", "rejected"}, H!Trailers(t) PROVE HttpKept'
  <2>1. message' \in H!Messages /\ egress' \in H!Verdicts
    BY ZenonT(60), <1>5 DEF H!Trailers, H!Throw, H!Goto, H!Messages, H!Verdicts
  <2>2. Egress'
    <3>1. /\ message.at = "trailers" /\ message'.at \in {"threw", "fetch"}
          /\ message'.transmission \in {"pending", "err", message.transmission}
          /\ message'.at = "fetch" => egress'.dispatched
          /\ egress'.verdict = egress.verdict
      BY <1>5 DEF H!Trailers, H!Throw, H!Goto, H!Messages, H!Verdicts
    <3> QED BY <1>5, <3>1 DEF H!Trailers, Egress, Granted
  <2>3. resp.at = "none" /\ UNCHANGED <<resp, reading, trailers>>
    BY <1>5 DEF H!Trailers, H!Throw, H!Goto, Response
  <2>4. Response'
    BY <2>3 DEF Response
  <2> QED BY <1>5, <2>1, <2>2, <2>4 DEF H!Trailers
<1>6. ASSUME H!ConsumeStored \/ H!DropMessage PROVE HttpKept'
  <2>1. message' \in H!Messages /\ source' \in H!Sources
    BY <1>6 DEF H!ConsumeStored, H!DropMessage, H!Goto, H!Messages, H!Sources
  <2>2. Egress'
    BY <1>6 DEF H!ConsumeStored, H!DropMessage, H!Goto, Egress, Granted, H!Messages
  <2>3. resp.at = "none" /\ UNCHANGED <<resp, reading, trailers>>
    BY <1>6 DEF H!ConsumeStored, H!DropMessage, H!Goto, Response
  <2>4. Response'
    BY <2>3 DEF Response
  <2> QED BY <1>6, <2>1, <2>2, <2>4 DEF H!ConsumeStored, H!DropMessage
<1>7. ASSUME NEW outcome \in {"ok", "err"}, H!Reported(outcome) PROVE HttpKept'
  <2>1. message' \in H!Messages
    BY <1>7 DEF H!Reported, H!Messages
  <2>2. Egress'
    BY <1>7 DEF H!Reported, Egress, Granted, H!Messages
  <2>3. resp.at = "none" /\ UNCHANGED <<resp, reading, trailers>>
    BY <1>7 DEF H!Reported, Response
  <2>4. Response'
    BY <2>3 DEF Response
  <2> QED BY <1>7, <2>1, <2>2, <2>4 DEF H!Reported
<1>8. ASSUME NEW ok \in BOOLEAN, NEW empty \in BOOLEAN, H!Fetched(ok, empty) PROVE HttpKept'
  <2>1. message' \in H!Messages /\ resp' \in H!Responses
    <3>1. CASE ok
      <4>1. message' \in H!Messages
        BY <1>8, <3>1 DEF H!Fetched, H!Messages
      <4>2. \E b \in {"null", "open"} : resp' = [at |-> "held", body |-> b]
        BY <1>8, <3>1 DEF H!Fetched
      <4> QED BY <4>1, <4>2 DEF H!Responses
    <3>2. CASE ~ok
      BY <1>8, <3>2 DEF H!Fetched, H!Throw, H!Messages
    <3> QED BY <3>1, <3>2
  <2>2. Egress'
    BY <1>8 DEF H!Fetched, H!Throw, Egress, Granted, H!Messages
  <2>3. Response'
    <3>1. resp.at = "none" /\ reading.at = "none" /\ trailers = "none"
      BY <1>8 DEF H!Fetched, Response
    <3>2. reading' = reading /\ trailers' = trailers
      BY <1>8 DEF H!Fetched
    <3>3. \/ resp' = resp
          \/ message'.at = "answered" /\ resp'.at = "held" /\ resp'.body \in {"null", "open"}
      <4>1. CASE ok
        <5>1. message'.at = "answered"
          BY <1>8, <4>1 DEF H!Fetched, H!Messages
        <5>2. \E b \in {"null", "open"} : resp' = [at |-> "held", body |-> b]
          BY <1>8, <4>1 DEF H!Fetched
        <5> QED BY <5>1, <5>2
      <4>2. CASE ~ok
        BY <1>8, <4>2 DEF H!Fetched
      <4> QED BY <4>1, <4>2
    <3> QED BY <3>1, <3>2, <3>3 DEF Response
  <2> QED BY <1>8, <2>1, <2>2, <2>3 DEF H!Fetched
<1>9. ASSUME H!DropResponse \/ H!ConsumeFetched PROVE HttpKept'
  <2>1. resp' \in H!Responses /\ reading' \in H!Readings /\ trailers' \in {"none", "pending", "ok", "err"}
    BY <1>9 DEF H!DropResponse, H!ConsumeFetched, H!Responses, H!Readings
  <2>2. Egress'
    BY <1>9 DEF H!DropResponse, H!ConsumeFetched, Egress, Granted
  <2>3. Response'
    <3>1. resp.at = "held" /\ message' = message
      BY <1>9 DEF H!DropResponse, H!ConsumeFetched
    <3>2. CASE H!DropResponse
      <4>1. resp'.at = "dropped" /\ resp'.body # "open" /\ reading' = reading /\ trailers' = trailers
        BY <3>2 DEF H!DropResponse
      <4> QED BY <3>1, <4>1 DEF Response
    <3>3. CASE H!ConsumeFetched
      <4>1. resp'.at = "consumed" /\ resp'.body = resp.body
        BY <3>3 DEF H!ConsumeFetched, H!Responses
      <4>2. /\ reading'.outcome = reading.outcome /\ reading.outcome = "pending"
            /\ IF resp.body = "open"
               THEN reading'.at = "read" /\ trailers' = "pending"
               ELSE reading'.at = "over" /\ trailers' = "ok"
        BY <3>1, <3>3 DEF H!ConsumeFetched, H!Readings, Response
      <4>3. resp.body \in {"null", "open"} /\ reading.at = "none" /\ message.at = "answered"
        BY <3>1 DEF Response
      <4> QED BY <3>1, <4>1, <4>2, <4>3 DEF Response
    <3> QED BY <1>9, <3>2, <3>3
  <2> QED BY <1>9, <2>1, <2>2, <2>3 DEF H!DropResponse, H!ConsumeFetched
<1>10. ASSUME NEW outcome \in {"chunk", "done", "error", "timeout"}, H!ReadSettles(outcome)
       PROVE  HttpKept'
  <2>1. resp' \in H!Responses /\ reading' \in H!Readings /\ trailers' \in {"none", "pending", "ok", "err"}
    BY <1>10 DEF H!ReadSettles, H!Responses, H!Readings
  <2>2. Egress'
    BY <1>10 DEF H!ReadSettles, Egress, Granted
  <2>3. Response'
    BY <1>10 DEF H!ReadSettles, Response, H!Responses, H!Readings
  <2> QED BY <1>10, <2>1, <2>2, <2>3 DEF H!ReadSettles
<1>11. ASSUME H!ReadReturns PROVE HttpKept'
  <2>1. resp' \in H!Responses /\ reading' \in H!Readings /\ trailers' \in {"none", "pending", "ok", "err"}
    BY ZenonT(60), <1>11 DEF H!ReadReturns, H!Over, H!Settle, H!Responses, H!Readings
  <2>2. Egress'
    BY <1>11 DEF H!ReadReturns, H!Over, H!Settle, Egress, Granted
  <2>3. Response'
    <3>1. /\ reading.at = "read" /\ trailers = "pending" /\ resp.at = "consumed"
          /\ message' = message /\ resp'.at = "consumed"
      BY <1>11 DEF H!ReadReturns, H!Over, Response, H!Responses
    <3>2. CASE reading.outcome \in {"timeout", "error"}
      <4>1. /\ reading'.at = "over" /\ trailers' = "err"
            /\ resp'.body = IF resp.body = "open" THEN "cancelled" ELSE resp.body
        <5>1. H!Over("err")
          BY <1>11, <3>2 DEF H!ReadReturns
        <5> QED BY <3>1, <5>1 DEF H!Over, H!Settle, H!Responses, H!Readings
      <4> QED BY <3>1, <3>2, <4>1 DEF Response
    <3>3. CASE reading.outcome = "done" \/ (reading.outcome = "chunk" /\ reading.gone)
      <4>1. /\ reading'.at = "over" /\ trailers' = "ok"
            /\ resp'.body = IF resp.body = "open" THEN "cancelled" ELSE resp.body
        BY <1>11, <3>1, <3>3 DEF H!ReadReturns, H!Over, H!Settle, H!Responses, H!Readings
      <4> QED BY <3>1, <3>3, <4>1 DEF Response
    <3>4. CASE reading.outcome = "chunk" /\ ~reading.gone
      <4>1. reading'.at = "yield" /\ reading'.outcome = "pending" /\ UNCHANGED <<resp, trailers>>
        BY <1>11, <3>4 DEF H!ReadReturns, H!Readings
      <4> QED BY <3>1, <3>4, <4>1 DEF Response
    <3> QED BY <1>11, <3>2, <3>3, <3>4 DEF H!ReadReturns, H!Readings
  <2> QED BY <1>11, <2>1, <2>2, <2>3 DEF H!ReadReturns
<1>12. ASSUME H!Taken \/ H!ReaderDropped PROVE HttpKept'
  <2>1. resp' \in H!Responses /\ reading' \in H!Readings /\ trailers' \in {"none", "pending", "ok", "err"}
    BY ZenonT(60), <1>12 DEF H!Taken, H!ReaderDropped, H!Over, H!Settle, H!Responses, H!Readings
  <2>2. Egress'
    BY <1>12 DEF H!Taken, H!ReaderDropped, H!Over, H!Settle, Egress, Granted
  <2>3. Response'
    BY ZenonT(60), <1>12 DEF H!Taken, H!ReaderDropped, H!Over, H!Settle, Response, H!Responses, H!Readings
  <2> QED BY <1>12, <2>1, <2>2, <2>3 DEF H!Taken, H!ReaderDropped
<1>13. ASSUME H!GetHeaders \/ \E h \in H!Handles : \/ H!Clone(h) \/ (\E entries \in SUBSET Names : H!Edit(h, entries))
 \/ \E name \in Names : H!Append(h, name)
 PROVE UNCHANGED <<options, message, source, egress, resp, reading, trailers>>
  BY <1>13 DEF H!GetHeaders, H!Clone, H!Edit, H!Append
<1>14. CASE UNCHANGED <<options, message, source, egress, resp, reading, trailers>>
  BY <1>14 DEF Egress, Response, Granted
<1> QED BY <1>1, <1>2, <1>3, <1>4, <1>5, <1>6, <1>7, <1>8, <1>9, <1>10, <1>11, <1>12, <1>13, <1>14
      DEF H!Next, hvars

\* The HTTP provider keeps its invariant.
LEMMA HttpNext ==
  ASSUME HttpInv, [H!Next]_hvars
  PROVE  HttpInv'
<1>1. HttpKept /\ H!TypeOK /\ Headers
  BY DEF HttpInv, HttpKept, H!TypeOK
<1>2. HttpKept'
  BY <1>1, HttpKeptNext
<1>3. /\ fields' \in [H!Handles -> H!Fields] /\ fields'["mine"].of = "mine"
      /\ \A h \in H!Handles : fields'[h].there => fields'[h].of = h
      /\ message'.at # "none" => ~fields'["mine"].mutable
  BY <1>1, FieldsNext
<1> QED BY <1>2, <1>3 DEF HttpInv, HttpKept, H!TypeOK, Headers

\* What it says of requests, futures and bodies.
LEMMA HttpSafe == HttpInv => H!TypeOK /\ H!FailsClosed /\ H!FuturesTruthful /\ H!BodyReleased
<1> SUFFICES ASSUME HttpInv PROVE H!TypeOK /\ H!FailsClosed /\ H!FuturesTruthful /\ H!BodyReleased
  OBVIOUS
<1>1. H!FailsClosed
  BY DEF HttpInv, Egress, Granted, H!FailsClosed
<1>2. H!FuturesTruthful
  BY DEF HttpInv, Egress, Response, H!FuturesTruthful, H!TypeOK, H!Readings, H!Messages
<1>3. H!BodyReleased
  BY DEF HttpInv, Response, H!BodyReleased, H!TypeOK, H!Readings, H!Responses
<1> QED BY <1>1, <1>2, <1>3 DEF HttpInv

\* No step changes the headers of a message that is built.
LEMMA HttpFrozen ==
  ASSUME HttpInv, [H!Next]_hvars, message.at # "none"
  PROVE  H!Entries("mine")' = H!Entries("mine")
<1>1. "mine" \in H!Handles
  BY DEF H!Handles
<1>2. H!TypeOK /\ Headers /\ fields["mine"].mutable = FALSE
  BY <1>1 DEF HttpInv, Headers, H!TypeOK, H!Fields
<1>3. fields'["mine"] = fields["mine"] /\ fields["mine"].of = "mine"
  BY <1>2, FieldsNext DEF Headers
<1> QED BY <1>3 DEF H!Entries

-----------------------------------------------------------------------------
(* The directory: calls that are chains of steps on one disk.                  *)

\* The types of a call, of the grant and of what has happened.
Ats == {"none", "start", "sized", "held", "chunk", "pull", "probed", "move", "copy", "fill", "remove", "over"}
Cells == Calls \cup {None}
CallStates ==
  [op : F!Operations \cup {"none"}, at : Ats, name : Names \cup {None}, to : Names \cup {None},
   pos : 0..(MaxSize + 1), snap : Seq(Cells), ok : BOOLEAN, source : {"none", "open", "dropped"}]
Grants == [writable : BOOLEAN, backend : {"node", "web"}, moves : BOOLEAN]
Pasts == [overlap : BOOLEAN, self : BOOLEAN]

\* The disk, the ideal one, and the bound on files.
Stored ==
  /\ disk \in [Names -> F!Entry] /\ ideal \in [Names -> F!Entry] /\ past \in Pasts
  /\ \A n \in Names : Len(disk[n].data) <= MaxSize

\* What is so of one call, whatever the others do.
Fits(c) ==
  /\ F!UnderWay(c) => calls[c].name \in Names /\ calls[c].to \in Names
  /\ Len(calls[c].snap) <= MaxSize
  /\ calls[c].at = "start" => calls[c].op \notin {"stream", "read", "none"}
  /\ calls[c].at = "sized" => calls[c].op = "append"
  /\ calls[c].at = "held" => calls[c].op \in {"write", "append", "size", "stream"} /\ calls[c].pos <= MaxSize
  /\ calls[c].at = "chunk" => calls[c].op = "stream"
  /\ calls[c].at = "pull" => calls[c].op \in {"stream", "read"}
  /\ calls[c].at = "probed" => calls[c].op \in {"create", "mkdir", "unlink"}
  /\ calls[c].at \in {"move", "copy", "fill", "remove"} => calls[c].op = "rename"
  /\ calls[c].at \in {"copy", "fill", "remove"} => ~grant.moves
  /\ ~grant.writable /\ F!UnderWay(c) => calls[c].op = "read"
  /\ ~past.self /\ F!UnderWay(c) /\ calls[c].op = "rename" => calls[c].name # calls[c].to
  /\ calls[c].op = "stream" /\ calls[c].at = "over" /\ ~calls[c].ok => calls[c].source # "open"

\* A call in the middle of its chain of steps.
Busy(c) == calls[c].at \notin {"none", "pull", "over"}

\* Calls that never overlapped are one at a time; over node one chain runs at a time.
Apart ==
  /\ ~past.overlap => \A c, d \in Calls : F!UnderWay(c) /\ F!UnderWay(d) => c = d
  /\ grant.backend = "node" => \A c, d \in Calls : Busy(c) /\ Busy(d) => c = d

\* Nothing came between the steps of a call.
Serial == grant.backend = "node" \/ (~past.overlap /\ ~past.self)

\* What a call knows in the middle of its chain is still so: what it has probed, sized or
\* copied, and, before the last step of a copying rename, how far the disk is off.
Knows(c) ==
  /\ calls[c].at = "sized" => /\ disk[calls[c].name].kind = "file"
                              /\ calls[c].pos = Len(disk[calls[c].name].data) + 1
  /\ calls[c].at = "held" => /\ disk[calls[c].name] = F!File(calls[c].snap)
                             /\ calls[c].op = "append" => calls[c].pos = Len(calls[c].snap) + 1
  /\ calls[c].at = "probed" => disk[calls[c].name].kind = (IF calls[c].op = "unlink" THEN "file"
       ELSE "none")
  /\ calls[c].at = "fill" => disk[calls[c].name] = F!File(calls[c].snap)
  /\ calls[c].at = "remove" => /\ ideal[calls[c].name] = F!File(calls[c].snap)
                               /\ disk = [ideal EXCEPT ![calls[c].to] = F!File(calls[c].snap)]

\* Then the disk is the ideal one, but before the last step of a copying rename.
Agreeing ==
  Serial => /\ \A c \in Calls : Knows(c)
            /\ (\A c \in Calls : calls[c].at # "remove") => disk = ideal

\* What the filesystem provider keeps.
FsInv ==
  /\ grant \in Grants /\ (grant.backend = "node" => grant.moves)
  /\ Stored /\ calls \in [Calls -> CallStates]
  /\ (\A c \in Calls : Fits(c)) /\ Apart /\ Agreeing

\* Entries are entries; a file is told by its contents.
LEMMA EntriesOf ==
  /\ F!Absent \in F!Entry /\ F!Directory \in F!Entry
  /\ \A data \in Seq(Cells) : F!File(data) \in F!Entry
  /\ \A e \in F!Entry : e.data \in Seq(Cells) /\ (e.kind = "file" => e = F!File(e.data))
BY DEF F!Absent, F!Directory, F!File, F!Entry, Cells

\* No call has begun.
LEMMA FsInit == F!Init => FsInv
<1> SUFFICES ASSUME F!Init PROVE FsInv
  OBVIOUS
<1> USE ProviderAssumption DEF F!Init
<1>0. <<>> \in Seq(Cells) /\ Len(<<>>) = 0
  OBVIOUS
<1>1. grant \in Grants /\ (grant.backend = "node" => grant.moves)
  BY DEF Grants
<1>2. Stored
  <2>1. \A n \in Names : disk[n] \in F!Entry /\ Len(disk[n].data) = 0
    BY <1>0, EntriesOf DEF F!Absent, F!Directory, F!File
  <2>2. past \in Pasts
    BY DEF Pasts
  <2>3. disk \in [Names -> F!Entry]
    BY <2>1
  <2> QED BY <2>1, <2>2, <2>3 DEF Stored
<1>3. F!NoCall \in CallStates
  BY <1>0 DEF F!NoCall, CallStates, Ats
<1>4. calls \in [Calls -> CallStates] /\ \A c \in Calls : calls[c] = F!NoCall
  BY <1>3
<1>5. \A c \in Calls : Fits(c) /\ Knows(c) /\ ~F!UnderWay(c) /\ ~Busy(c)
  BY <1>0, <1>4 DEF Fits, Knows, F!UnderWay, Busy, F!NoCall
<1>6. Apart /\ Agreeing
  BY <1>5 DEF Apart, Agreeing
<1> QED BY <1>1, <1>2, <1>4, <1>5, <1>6 DEF FsInv

\* Of the calls only c takes a step.
Moved(c) == calls' \in [Calls -> CallStates] /\ \A d \in Calls \ {c} : calls'[d] = calls[d]

\* A step that gives c another record is one of c.
LEMMA Moves ==
  ASSUME calls \in [Calls -> CallStates], NEW c \in Calls,
         NEW r \in CallStates, calls' = [calls EXCEPT ![c] = r]
  PROVE  Moved(c) /\ calls'[c] = r
BY DEF Moved

\* What a step must keep of its own call, and of what it does to the disk, so that all is kept.
LEMMA FsKeeps ==
  ASSUME FsInv, NEW c \in Calls, Moved(c), grant' = grant, Stored',
         ~past'.overlap => ~past.overlap /\ (F!UnderWay(c)' => F!UnderWay(c) \/ F!Quiet),
         ~past'.self => ~past.self,
         grant.backend = "node" /\ Busy(c)' => \A d \in Calls \ {c} : ~Busy(d),
         Fits(c)', Serial' => Knows(c)',
         Busy(c) \/ (disk' = disk /\ ideal' = ideal),
         Serial' /\ (\A d \in Calls : calls'[d].at # "remove") => disk' = ideal'
  PROVE  FsInv'
<1>1. /\ grant' \in Grants /\ (grant'.backend = "node" => grant'.moves) /\ calls' \in [Calls -> CallStates]
      /\ Stored'
  BY DEF FsInv, Moved
<1>2. ASSUME NEW d \in Calls, d # c
      PROVE  /\ calls'[d] = calls[d]
             /\ F!UnderWay(d)' <=> F!UnderWay(d)
             /\ Busy(d)' <=> Busy(d)
  <2>1. calls'[d] = calls[d]
    BY <1>2 DEF Moved
  <2> QED BY <2>1 DEF F!UnderWay, Busy
<1>3. ASSUME NEW d \in Calls PROVE Fits(d)'
  <2>1. CASE d # c
    <3>1. calls'[d] = calls[d] /\ Fits(d) /\ (F!UnderWay(d)' <=> F!UnderWay(d))
      BY <1>2, <2>1 DEF FsInv
    <3> QED BY <3>1 DEF Fits
  <2> QED BY <2>1
<1>4. Apart'
  <2>1. ASSUME ~past'.overlap, NEW d \in Calls, NEW e \in Calls,
               F!UnderWay(d)', F!UnderWay(e)'
        PROVE  d = e
    <3>1. \A x, y \in Calls : F!UnderWay(x) /\ F!UnderWay(y) => x = y
      BY <2>1 DEF FsInv, Apart
    <3>2. CASE d # c /\ e # c
      BY <1>2, <2>1, <3>1, <3>2
    <3>3. CASE d = c /\ e # c
      <4>1. F!UnderWay(e) /\ ~F!Quiet
        BY <1>2, <2>1, <3>3 DEF F!Quiet
      <4> QED BY <2>1, <3>1, <3>3, <4>1
    <3>4. CASE d # c /\ e = c
      <4>1. F!UnderWay(d) /\ ~F!Quiet
        BY <1>2, <2>1, <3>4 DEF F!Quiet
      <4> QED BY <2>1, <3>1, <3>4, <4>1
    <3> QED BY <3>2, <3>3, <3>4
  <2>2. ASSUME grant.backend = "node", NEW d \in Calls, NEW e \in Calls, Busy(d)', Busy(e)'
        PROVE  d = e
    <3>1. \A x, y \in Calls : Busy(x) /\ Busy(y) => x = y
      BY <2>2 DEF FsInv, Apart
    <3> QED BY <1>2, <2>2, <3>1
  <2> QED BY <2>1, <2>2 DEF Apart
<1>5. Serial' => Serial
  BY DEF Serial
<1>6. ASSUME Serial', NEW d \in Calls PROVE Knows(d)'
  <2>1. CASE d = c
    BY <1>6, <2>1
  <2>2. CASE d # c /\ disk' = disk /\ ideal' = ideal
    <3>1. calls'[d] = calls[d] /\ Knows(d)
      BY <1>2, <1>5, <1>6, <2>2 DEF FsInv, Agreeing
    <3> QED BY <2>2, <3>1 DEF Knows
  <2>3. CASE d # c /\ Busy(c)
    <3>1. F!UnderWay(c) /\ (Busy(d) => F!UnderWay(d))
      BY <2>3 DEF F!UnderWay, Busy
    <3>2. ~Busy(d)
      BY <1>5, <1>6, <2>3, <3>1 DEF FsInv, Apart, Serial
    <3>3. ~Busy(d)'
      <4>1. d # c
        BY <2>3
      <4> QED BY <1>2, <3>2, <4>1
    <3> QED BY <3>3 DEF Knows, Busy
  <2> QED BY <2>1, <2>2, <2>3
<1> QED BY <1>1, <1>3, <1>4, <1>6 DEF FsInv, Agreeing

\* A step that leaves the disk alone and is not past the point of no return of a rename.
LEMMA FsStays ==
  ASSUME FsInv, NEW c \in Calls, Moved(c), F!Same, F!UnderWay(c), calls[c].at # "remove",
         grant.backend = "node" /\ Busy(c)' => \A d \in Calls \ {c} : ~Busy(d),
         Fits(c)', Serial => Knows(c)'
  PROVE  FsInv'
<1>1. grant' = grant /\ disk' = disk /\ ideal' = ideal /\ past' = past
  BY DEF F!Same
<1>2. Stored' /\ (Serial' <=> Serial)
  BY <1>1 DEF FsInv, Stored, Serial
<1>3. ASSUME Serial, \A d \in Calls : calls'[d].at # "remove" PROVE disk' = ideal'
  <2>1. \A d \in Calls : calls[d].at # "remove"
    BY <1>3 DEF Moved
  <2> QED BY <1>1, <1>3, <2>1 DEF FsInv, Agreeing
<1> QED BY <1>1, <1>2, <1>3, FsKeeps

\* Over node a call that steps finds no other in its chain.
LEMMA AloneSays ==
  ASSUME NEW c \in Calls, F!Alone(c), grant.backend = "node"
  PROVE  \A d \in Calls \ {c} : ~Busy(d)
BY DEF F!Alone, Busy, F!UnderWay

\* A call that is over knows nothing any more and needs nothing.
LEMMA OverDoes ==
  ASSUME FsInv, NEW c \in Calls, NEW ok \in BOOLEAN, F!Over(c, ok)
  PROVE  /\ Moved(c) /\ Knows(c)' /\ ~Busy(c)' /\ ~F!UnderWay(c)' /\ calls'[c].at = "over"
         /\ grant' = grant /\ past' = past => Fits(c)'
<1> DEFINE left == IF calls[c].source = "open" /\ ~ok THEN "dropped" ELSE calls[c].source
           r == [calls[c] EXCEPT !.at = "over", !.ok = ok, !.snap = <<>>, !.pos = 0, !.name = None,
                                 !.to = None, !.source = left]
<1>1. calls' = [calls EXCEPT ![c] = r]
  BY DEF FsInv, F!Over
<1>2. calls[c] \in CallStates /\ left \in {"none", "open", "dropped"} /\ (~ok => left # "open")
  BY DEF FsInv, CallStates
<1> HIDE DEF left
<1>3. /\ r \in CallStates /\ r.at = "over" /\ r.snap = <<>> /\ r.ok = ok /\ r.source = left
      /\ r.op = calls[c].op
  <2>1. <<>> \in Seq(Cells) /\ 0 \in 0..(MaxSize + 1) /\ None \in Names \cup {None} /\ "over" \in Ats
    BY ProviderAssumption DEF Ats
  <2> HIDE DEF Ats, Cells
  <2>2. r \in CallStates
    BY <1>2, <2>1 DEF CallStates
  <2> QED BY <1>2, <2>2 DEF CallStates
<1> HIDE DEF r
<1>4. Moved(c) /\ calls'[c] = r
  BY <1>1, <1>3, Moves DEF FsInv
<1>5. Knows(c)' /\ ~Busy(c)' /\ ~F!UnderWay(c)' /\ calls'[c].at = "over"
  BY <1>3, <1>4 DEF Knows, Busy, F!UnderWay
<1>6. Len(<<>>) = 0
  OBVIOUS
<1>7. Fits(c)'
  BY <1>2, <1>3, <1>4, <1>6, ProviderAssumption DEF Fits, F!UnderWay
<1> QED BY <1>4, <1>5, <1>7

\* A call that gives up before it has done anything keeps all.
LEMMA FsEnds ==
  ASSUME FsInv, NEW c \in Calls, NEW ok \in BOOLEAN, F!Over(c, ok), F!Same, F!UnderWay(c),
         calls[c].at # "remove"
  PROVE  FsInv'
<1>1. grant' = grant /\ past' = past
  BY DEF F!Same
<1> QED BY <1>1, OverDoes, FsStays

\* A step that takes effect on the disk and the ideal alike, and ends there.
LEMMA FsTakesEffect ==
  ASSUME FsInv, NEW c \in Calls, Busy(c), calls[c].at # "remove",
         Moved(c), ~Busy(c)', grant' = grant, past' = past,
         F!UnderWay(c)' => F!UnderWay(c), Fits(c)', Stored', Serial /\ disk = ideal => disk' = ideal'
  PROVE  FsInv'
<1>1. Knows(c)'
  BY DEF Knows, Busy
<1>2. Serial' <=> Serial
  BY DEF Serial
<1>3. ASSUME Serial, \A d \in Calls : calls'[d].at # "remove" PROVE disk' = ideal'
  <2>1. \A d \in Calls : calls[d].at # "remove"
    BY <1>3 DEF Moved
  <2> QED BY <1>3, <2>1 DEF FsInv, Agreeing
<1> QED BY <1>1, <1>2, <1>3, FsKeeps

\* A cell written at p is in the file, which is as long as it must be.
LEMMA PutOf ==
  ASSUME NEW data \in Seq(Cells), NEW p \in Nat, NEW v \in Cells
  PROVE  /\ F!Put(data, p, v) \in Seq(Cells)
         /\ Len(F!Put(data, p, v)) = IF p > Len(data) THEN p ELSE Len(data)
<1> DEFINE n == IF p > Len(data) THEN p ELSE Len(data)
<1>1. n \in Nat /\ None \in Cells
  BY DEF Cells
<1>2. F!Put(data, p, v) = [i \in 1..n |-> IF i = p THEN v ELSE IF i <= Len(data) THEN data[i]
        ELSE None]
  BY DEF F!Put
<1> HIDE DEF n, Cells
<1>3. F!Put(data, p, v) \in [1..n -> Cells]
  BY <1>1, <1>2
<1>4. F!Put(data, p, v) \in Seq(Cells) /\ Len(F!Put(data, p, v)) = n
  BY <1>1, <1>3
<1> QED BY <1>4 DEF n

\* A file that is sized has that length.
LEMMA SizedOf ==
  ASSUME NEW data \in Seq(Cells), NEW n \in Nat
  PROVE  F!Sized(data, n) \in Seq(Cells) /\ Len(F!Sized(data, n)) = n
<1>1. None \in Cells
  BY DEF Cells
<1> HIDE DEF Cells
<1>2. F!Sized(data, n) \in [1..n -> Cells]
  BY <1>1 DEF F!Sized
<1> QED BY <1>2

\* The contents that a call makes of others.
LEMMA ChangesTo ==
  ASSUME FsInv, NEW c \in Calls, NEW data \in Seq(Cells)
  PROVE  /\ F!Change(c, data) \in Seq(Cells) /\ F!Intended(c, data) \in Seq(Cells)
         /\ calls[c].pos <= MaxSize /\ Len(data) <= MaxSize => Len(F!Change(c, data)) <= MaxSize
<1>1. calls[c].pos \in Nat /\ c \in Cells /\ Len(data) + 1 \in Nat /\ Len(data) \in Nat
  BY ProviderAssumption DEF FsInv, CallStates, Cells
<1> HIDE DEF Cells
<1>2. /\ F!Put(data, calls[c].pos, c) \in Seq(Cells) /\ F!Put(data, Len(data) + 1, c) \in Seq(Cells)
      /\ F!Sized(data, calls[c].pos) \in Seq(Cells)
      /\ Len(F!Sized(data, calls[c].pos)) = calls[c].pos
      /\ Len(F!Put(data, calls[c].pos, c)) = IF calls[c].pos > Len(data) THEN calls[c].pos
           ELSE Len(data)
  BY <1>1, PutOf, SizedOf
<1> QED BY <1>1, <1>2, ProviderAssumption DEF F!Change, F!Intended

\* A call that has not begun.
LEMMA NoCallIs ==
  F!NoCall \in CallStates /\ F!NoCall.snap = <<>> /\ F!NoCall.name = None
<1>1. <<>> \in Seq(Cells) /\ 0 \in 0..(MaxSize + 1) /\ "none" \in Ats
  BY ProviderAssumption DEF Ats
<1> HIDE DEF Cells, Ats
<1> QED BY <1>1 DEF F!NoCall, CallStates

\* One lemma per step of the provider.
LEMMA BeginNext ==
  ASSUME FsInv, NEW c \in Calls, NEW op \in F!Operations, NEW n \in Names, NEW m \in Names,
         NEW p \in 1..MaxSize, F!Begin(c, op, n, m, p)
  PROVE  FsInv'
<1> DEFINE refused == [F!NoCall EXCEPT !.op = op, !.at = "over",
             !.source = IF op = "stream" THEN "dropped" ELSE "none"]
           call == [F!NoCall EXCEPT !.op = op, !.name = n, !.to = m, !.pos = p,
                                    !.source = IF op = "stream" THEN "open" ELSE "none"]
           begun == [call EXCEPT !.at = IF op \in {"stream", "read"} THEN "pull" ELSE "start"]
           r == IF op \in F!Mutating /\ ~grant.writable THEN refused ELSE begun
<1>1. calls' = [calls EXCEPT ![c] = r] /\ calls[c].at = "none" /\ F!Alone(c)
  BY DEF F!Begin
<1>2. /\ past' = [overlap |-> past.overlap \/ ~F!Quiet, self |-> past.self \/ (op = "rename" /\ n = m)]
      /\ grant' = grant /\ disk' = disk /\ ideal' = ideal
  BY DEF F!Begin
<1>3. /\ refused \in CallStates /\ refused.op = op /\ refused.at = "over" /\ refused.snap = <<>>
      /\ refused.source # "open"
      /\ call \in CallStates /\ call.op = op /\ call.name = n /\ call.to = m /\ call.snap = <<>>
  <2>1. 0 \in 0..(MaxSize + 1) /\ p \in 0..(MaxSize + 1) /\ "over" \in Ats
    BY ProviderAssumption DEF Ats
  <2>2. op \in F!Operations \cup {"none"} /\ n \in Names \cup {None} /\ m \in Names \cup {None}
    OBVIOUS
  <2> HIDE DEF Cells, Ats
  <2>3. refused \in CallStates /\ call \in CallStates
    BY <2>1, <2>2, NoCallIs DEF CallStates
  <2>4. refused.op = op /\ refused.at = "over" /\ refused.snap = <<>> /\ refused.source # "open"
    BY NoCallIs DEF CallStates
  <2>5. call.op = op /\ call.name = n /\ call.to = m /\ call.snap = <<>>
    BY NoCallIs DEF CallStates
  <2> QED BY <2>3, <2>4, <2>5
<1> HIDE DEF call, refused
<1>3a. /\ begun \in CallStates /\ begun.op = op /\ begun.at = (IF op \in {"stream", "read"} THEN "pull" ELSE "start")
      /\ begun.snap = <<>> /\ begun.name = n /\ begun.to = m
  <2>1. {"pull", "start"} \subseteq Ats
    BY DEF Ats
  <2> HIDE DEF Cells, Ats
  <2> QED BY <1>3, <2>1 DEF CallStates
<1> HIDE DEF begun
<1>4. /\ r \in CallStates /\ r.op = op /\ r.snap = <<>> /\ r.at \in {"over", "pull", "start"}
      /\ r.at = "over" => r.source # "open"
      /\ r.at = "pull" => op \in {"stream", "read"}
      /\ r.at = "start" => op \notin {"stream", "read"}
      /\ r.at # "over" => r.name = n /\ r.to = m /\ (op \in F!Mutating => grant.writable)
  BY <1>3, <1>3a
<1> HIDE DEF r
<1>5. Moved(c) /\ calls'[c] = r
  BY <1>1, <1>4, Moves DEF FsInv
<1>6. op = "read" \/ op \in F!Mutating
  BY DEF F!Operations
<1>7. op # "none" /\ Len(<<>>) = 0
  BY DEF F!Operations, F!Mutating
<1>8. past' \in Pasts /\ (~past'.self => ~past.self /\ (op = "rename" => n # m))
                      /\ (~past'.overlap => ~past.overlap /\ F!Quiet)
  BY <1>2 DEF FsInv, Stored, Pasts
<1>9. Fits(c)'
  BY <1>2, <1>4, <1>5, <1>6, <1>7, <1>8, ProviderAssumption DEF Fits, F!UnderWay
<1>10. Knows(c)' /\ Stored'
  BY <1>2, <1>4, <1>5, <1>8 DEF Knows, FsInv, Stored
<1>11. ASSUME Serial', \A d \in Calls : calls'[d].at # "remove" PROVE disk' = ideal'
  <2>1. Serial
    BY <1>2, <1>8, <1>11 DEF Serial
  <2>2. \A d \in Calls : calls[d].at # "remove"
    BY <1>1, <1>5, <1>11 DEF Moved
  <2> QED BY <1>2, <2>1, <2>2 DEF FsInv, Agreeing
<1> QED BY <1>1, <1>2, <1>5, <1>8, <1>9, <1>10, <1>11, AloneSays, FsKeeps

\* An append reads the size of the file that is there.
LEMMA AppendAtNext ==
  ASSUME FsInv, NEW c \in Calls, F!AppendAt(c)
  PROVE  FsInv'
<1>1. calls[c].op = "append" /\ calls[c].at = "start" /\ F!Alone(c) /\ F!Same /\ F!UnderWay(c)
  BY DEF F!AppendAt, F!UnderWay
<1>2. CASE disk[calls[c].name].kind # "file"
  BY <1>1, <1>2, FsEnds DEF F!AppendAt
<1>3. CASE disk[calls[c].name].kind = "file"
  <2> DEFINE long == Len(disk[calls[c].name].data)
             r == [calls[c] EXCEPT !.pos = long + 1, !.at = "sized"]
  <2>1. calls[c] \in CallStates /\ calls[c].name \in Names /\ long \in Nat /\ long <= MaxSize
    BY <1>1, EntriesOf DEF FsInv, Fits, Stored
  <2>2. calls' = [calls EXCEPT ![c] = r]
    BY <1>1, <1>3 DEF F!AppendAt, FsInv
  <2> HIDE DEF long
  <2>3. /\ r \in CallStates /\ r.at = "sized" /\ r.pos = long + 1 /\ r.op = calls[c].op /\ r.name = calls[c].name
        /\ r.to = calls[c].to /\ r.snap = calls[c].snap
    <3>1. long + 1 \in 0..(MaxSize + 1) /\ "sized" \in Ats
      BY <2>1, ProviderAssumption DEF Ats
    <3> HIDE DEF Cells, Ats
    <3> QED BY <2>1, <3>1 DEF CallStates
  <2> HIDE DEF r
  <2>4. Moved(c) /\ calls'[c] = r
    BY <2>2, <2>3, Moves DEF FsInv
  <2>5. grant' = grant /\ disk' = disk /\ ideal' = ideal /\ past' = past /\ Fits(c)
    BY <1>1 DEF F!Same, FsInv
  <2>6. Fits(c)'
    BY <1>1, <2>3, <2>4, <2>5 DEF Fits, F!UnderWay
  <2>7. Knows(c)'
    BY <1>3, <2>3, <2>4, <2>5 DEF Knows, long
  <2> QED BY <1>1, <2>4, <2>6, <2>7, AloneSays, FsStays
<1> QED BY <1>2, <1>3

\* A writable is opened on a copy of the file.
LEMMA OpenedNext ==
  ASSUME FsInv, NEW c \in Calls, F!Opened(c)
  PROVE  FsInv'
<1>1. /\ F!Alone(c) /\ F!Same /\ F!UnderWay(c) /\ calls[c].at # "remove"
      /\ calls[c].op \in {"write", "size", "append", "stream"} /\ Fits(c)
      /\ (calls[c].op = "append" => calls[c].at = "sized")
  BY DEF F!Opened, F!UnderWay, FsInv, Fits
<1>2. CASE disk[calls[c].name].kind # "file" \/ calls[c].pos > MaxSize
  BY <1>1, <1>2, FsEnds DEF F!Opened
<1>3. CASE ~(disk[calls[c].name].kind # "file" \/ calls[c].pos > MaxSize)
  <2> DEFINE data == disk[calls[c].name].data
             r == [calls[c] EXCEPT !.snap = data, !.at = "held"]
  <2>1. /\ calls[c] \in CallStates /\ calls[c].name \in Names /\ data \in Seq(Cells) /\ Len(data) <= MaxSize
        /\ disk[calls[c].name] = F!File(data)
    BY <1>1, <1>3, EntriesOf DEF FsInv, Fits, Stored
  <2>2. calls' = [calls EXCEPT ![c] = r]
    BY <1>1, <1>3 DEF F!Opened, FsInv
  <2> HIDE DEF data
  <2>3. /\ r \in CallStates /\ r.at = "held" /\ r.pos = calls[c].pos /\ r.op = calls[c].op /\ r.name = calls[c].name
        /\ r.to = calls[c].to /\ r.snap = data
    <3> HIDE DEF Cells
    <3> QED BY <2>1, ProviderAssumption DEF CallStates, Ats
  <2> HIDE DEF r
  <2>4. Moved(c) /\ calls'[c] = r
    BY <2>2, <2>3, Moves DEF FsInv
  <2>5. grant' = grant /\ disk' = disk /\ ideal' = ideal /\ past' = past
    BY <1>1 DEF F!Same
  <2>6. calls[c].pos \in Nat /\ calls[c].pos <= MaxSize
    BY <1>3, <2>1, ProviderAssumption DEF CallStates
  <2>7. Fits(c)'
    BY <1>1, <2>1, <2>3, <2>4, <2>5, <2>6 DEF Fits, F!UnderWay
  <2>8. ASSUME Serial PROVE Knows(c)'
    <3>1. calls[c].op = "append" => calls[c].pos = Len(data) + 1
      BY <1>1, <2>8 DEF FsInv, Agreeing, Knows, data
    <3> QED BY <2>1, <2>3, <2>4, <2>5, <3>1 DEF Knows
  <2> QED BY <1>1, <2>4, <2>7, <2>8, AloneSays, FsStays
<1> QED BY <1>2, <1>3

\* A call that only goes from one stage to another.
LEMMA GotoDoes ==
  ASSUME FsInv, NEW c \in Calls, NEW at \in Ats, F!Goto(c, at)
  PROVE  Moved(c) /\ calls'[c] = [calls[c] EXCEPT !.at = at] /\ calls'[c] \in CallStates
<1> DEFINE r == [calls[c] EXCEPT !.at = at]
<1>1. calls' = [calls EXCEPT ![c] = r]
  BY DEF F!Goto, FsInv
<1>2. calls[c] \in CallStates
  BY DEF FsInv
<1>3. r \in CallStates
  <2> HIDE DEF Cells, Ats
  <2> QED BY <1>2 DEF CallStates
<1> HIDE DEF r
<1>4. Moved(c) /\ calls'[c] = r
  BY <1>1, <1>3, Moves DEF FsInv
<1> QED BY <1>3, <1>4 DEF r

\* What a call does to one entry.
LEMMA StoredPut ==
  ASSUME Stored, NEW n \in Names, NEW e \in F!Entry, NEW i \in F!Entry,
         Len(e.data) <= MaxSize, past' = past,
         disk' = [disk EXCEPT ![n] = e], ideal' = [ideal EXCEPT ![n] = i] \/ ideal' = ideal
  PROVE  Stored'
BY DEF Stored

\* The copy with its change takes the place of the file.
LEMMA ClosedNext ==
  ASSUME FsInv, NEW c \in Calls, F!Closed(c)
  PROVE  FsInv'
<1> DEFINE n == calls[c].name
<1>1. /\ calls[c].at = "held" /\ F!Alone(c) /\ F!UnderWay(c) /\ Busy(c) /\ n \in Names /\ Fits(c)
      /\ calls[c] \in CallStates /\ grant' = grant /\ past' = past
  BY DEF F!Closed, F!UnderWay, Busy, FsInv, Fits
<1>2. CASE disk[n].kind # "file"
  BY <1>1, <1>2, FsEnds DEF F!Closed, F!Same
<1>3. CASE disk[n].kind = "file"
  <2>1. /\ disk' = [disk EXCEPT ![n] = F!File(F!Change(c, calls[c].snap))]
        /\ ideal' = [ideal EXCEPT ![n] = F!File(F!Intended(c, ideal[n].data))]
    BY <1>3 DEF F!Closed
  <2>2. /\ calls[c].snap \in Seq(Cells) /\ ideal[n].data \in Seq(Cells) /\ calls[c].pos <= MaxSize
        /\ Len(calls[c].snap) <= MaxSize
    BY <1>1, EntriesOf DEF FsInv, Stored, CallStates, Fits
  <2>3. /\ F!File(F!Change(c, calls[c].snap)) \in F!Entry
        /\ F!File(F!Intended(c, ideal[n].data)) \in F!Entry
        /\ Len(F!File(F!Change(c, calls[c].snap)).data) <= MaxSize
    BY <2>2, ChangesTo, EntriesOf DEF F!File
  <2>4. Stored'
    BY <1>1, <2>1, <2>3, StoredPut DEF FsInv
  <2>5. ASSUME Serial, disk = ideal PROVE disk' = ideal'
    <3>1. disk[n] = F!File(calls[c].snap) /\ (calls[c].op = "append" => calls[c].pos = Len(calls[c].snap) + 1)
      BY <1>1, <2>5 DEF FsInv, Agreeing, Knows
    <3>2. ideal[n].data = calls[c].snap
      BY <2>5, <3>1 DEF F!File
    <3>3. F!Intended(c, calls[c].snap) = F!Change(c, calls[c].snap)
      BY <3>1 DEF F!Intended, F!Change
    <3> QED BY <2>1, <2>5, <3>2, <3>3
  <2>6. CASE calls[c].op = "stream"
    <3> DEFINE r == [calls[c] EXCEPT !.at = "pull", !.pos = calls[c].pos + 1]
    <3>1. calls' = [calls EXCEPT ![c] = r]
      BY <1>1, <1>3, <2>6 DEF F!Closed, FsInv
    <3>2. calls[c].pos + 1 \in 0..(MaxSize + 1) /\ "pull" \in Ats
      BY <1>1, <2>2, ProviderAssumption DEF Ats, CallStates
    <3>3. /\ r \in CallStates /\ r.at = "pull" /\ r.op = calls[c].op /\ r.name = calls[c].name
          /\ r.to = calls[c].to /\ r.snap = calls[c].snap
      <4> HIDE DEF Cells, Ats
      <4> QED BY <1>1, <3>2 DEF CallStates
    <3> HIDE DEF r
    <3>4. Moved(c) /\ calls'[c] = r
      BY <3>1, <3>3, Moves DEF FsInv
    <3>5. Fits(c)' /\ ~Busy(c)'
      BY <1>1, <2>6, <3>3, <3>4 DEF Fits, F!UnderWay, Busy
    <3> QED BY <1>1, <2>4, <2>5, <3>4, <3>5, FsTakesEffect
  <2>7. CASE calls[c].op # "stream"
    <3>1. F!Over(c, TRUE)
      BY <1>3, <2>7 DEF F!Closed
    <3> QED BY <1>1, <2>4, <2>5, <3>1, OverDoes, FsTakesEffect
  <2> QED BY <2>6, <2>7
<1> QED BY <1>2, <1>3

\* A chunk of the guest begins a write; other calls may be under way.
LEMMA ChunkNext ==
  ASSUME FsInv, NEW c \in Calls, F!Chunk(c)
  PROVE  FsInv'
<1>1. /\ calls[c].op = "stream" /\ calls[c].at = "pull" /\ F!Alone(c) /\ F!UnderWay(c) /\ Fits(c)
      /\ grant' = grant /\ disk' = disk /\ ideal' = ideal /\ F!Goto(c, "chunk") /\ calls[c] \in CallStates
      /\ past' = [past EXCEPT !.overlap = @ \/ \E d \in Calls \ {c} : F!UnderWay(d)]
  BY DEF F!Chunk, F!UnderWay, FsInv
<1>2. past' \in Pasts /\ past'.self = past.self /\ (~past'.overlap => ~past.overlap)
  BY <1>1 DEF FsInv, Stored, Pasts
<1>3. Moved(c) /\ calls'[c] = [calls[c] EXCEPT !.at = "chunk"]
  BY <1>1, GotoDoes DEF Ats
<1>4. /\ calls'[c].at = "chunk" /\ calls'[c].op = calls[c].op /\ calls'[c].name = calls[c].name
      /\ calls'[c].to = calls[c].to /\ calls'[c].snap = calls[c].snap
  BY <1>1, <1>3 DEF CallStates
<1>5. Fits(c)' /\ Knows(c)' /\ Stored'
  BY <1>1, <1>2, <1>4 DEF Fits, F!UnderWay, Knows, FsInv, Stored
<1>6. ASSUME Serial', \A d \in Calls : calls'[d].at # "remove" PROVE disk' = ideal'
  <2>1. Serial
    BY <1>1, <1>2, <1>6 DEF Serial
  <2>2. \A d \in Calls : calls[d].at # "remove"
    BY <1>1, <1>3, <1>6 DEF Moved
  <2> QED BY <1>1, <2>1, <2>2 DEF FsInv, Agreeing
<1> QED BY <1>1, <1>2, <1>3, <1>5, <1>6, AloneSays, FsKeeps

\* The guest's stream ends between two chunks.
LEMMA SourceEndsNext ==
  ASSUME FsInv, NEW c \in Calls, NEW ok \in BOOLEAN, F!SourceEnds(c, ok)
  PROVE  FsInv'
<1>1. F!UnderWay(c) /\ calls[c].at # "remove" /\ F!Over(c, ok) /\ F!Same
  BY DEF F!SourceEnds, F!UnderWay
<1> QED BY <1>1, FsEnds

\* A read goes on as far as the file does.
LEMMA ReadNext ==
  ASSUME FsInv, NEW c \in Calls, F!Read(c)
  PROVE  FsInv'
<1>1. /\ calls[c].op = "read" /\ calls[c].at = "pull" /\ F!Alone(c) /\ F!UnderWay(c) /\ F!Same /\ Fits(c)
      /\ calls[c] \in CallStates
  BY DEF F!Read, F!UnderWay, FsInv
<1> DEFINE here == disk[calls[c].name]
<1>2. CASE here.kind # "file"
  BY <1>1, <1>2, FsEnds DEF F!Read
<1>3. CASE here.kind = "file" /\ calls[c].pos > Len(here.data)
  BY <1>1, <1>3, FsEnds DEF F!Read
<1>4. CASE here.kind = "file" /\ ~(calls[c].pos > Len(here.data))
  <2> DEFINE r == [calls[c] EXCEPT !.pos = calls[c].pos + 1]
  <2>1. calls' = [calls EXCEPT ![c] = r]
    BY <1>1, <1>4 DEF F!Read, FsInv
  <2>2. calls[c].pos + 1 \in 0..(MaxSize + 1)
    <3>1. calls[c].name \in Names /\ Len(here.data) \in Nat /\ Len(here.data) <= MaxSize /\ calls[c].pos \in Nat
      BY <1>1, EntriesOf, ProviderAssumption DEF FsInv, Stored, Fits, CallStates
    <3> HIDE DEF here
    <3> QED BY <1>4, <3>1, ProviderAssumption
  <2>3. /\ r \in CallStates /\ r.at = "pull" /\ r.op = calls[c].op /\ r.name = calls[c].name
        /\ r.to = calls[c].to /\ r.snap = calls[c].snap
    <3> HIDE DEF Cells, Ats
    <3> QED BY <1>1, <2>2 DEF CallStates
  <2> HIDE DEF r
  <2>4. Moved(c) /\ calls'[c] = r
    BY <2>1, <2>3, Moves DEF FsInv
  <2>5. grant' = grant /\ disk' = disk /\ ideal' = ideal /\ past' = past
    BY <1>1 DEF F!Same
  <2>6. Fits(c)' /\ Knows(c)' /\ ~Busy(c)'
    BY <1>1, <2>3, <2>4, <2>5 DEF Fits, F!UnderWay, Knows, Busy
  <2> QED BY <1>1, <2>4, <2>6, FsStays
<1> QED BY <1>2, <1>3, <1>4

\* The provider looks at the entry before it acts.
LEMMA ProbeNext ==
  ASSUME FsInv, NEW c \in Calls, F!Probe(c)
  PROVE  FsInv'
<1>1. /\ calls[c].op \in {"create", "mkdir", "unlink"} /\ calls[c].at = "start" /\ F!Alone(c) /\ F!UnderWay(c)
      /\ F!Same /\ Fits(c) /\ calls[c] \in CallStates
  BY DEF F!Probe, F!UnderWay, FsInv
<1> DEFINE right == disk[calls[c].name].kind = IF calls[c].op = "unlink" THEN "file" ELSE "none"
<1>2. CASE ~right
  BY <1>1, <1>2, FsEnds DEF F!Probe
<1>3. CASE right
  <2>1. F!Goto(c, "probed")
    BY <1>3 DEF F!Probe
  <2>2. Moved(c) /\ calls'[c] = [calls[c] EXCEPT !.at = "probed"]
    BY <2>1, GotoDoes DEF Ats
  <2>3. /\ calls'[c].at = "probed" /\ calls'[c].op = calls[c].op /\ calls'[c].name = calls[c].name
        /\ calls'[c].to = calls[c].to /\ calls'[c].snap = calls[c].snap
    BY <1>1, <2>2 DEF CallStates
  <2>4. grant' = grant /\ disk' = disk /\ ideal' = ideal /\ past' = past
    BY <1>1 DEF F!Same
  <2>5. Fits(c)'
    BY <1>1, <2>3, <2>4 DEF Fits, F!UnderWay
  <2>6. Knows(c)'
    BY <1>3, <2>3, <2>4 DEF Knows
  <2> QED BY <1>1, <2>2, <2>5, <2>6, AloneSays, FsStays
<1> QED BY <1>2, <1>3

\* The platform makes or removes the entry.
LEMMA ActNext ==
  ASSUME FsInv, NEW c \in Calls, F!Act(c)
  PROVE  FsInv'
<1> DEFINE n == calls[c].name
           found == disk[n].kind
           fits == IF calls[c].op = "unlink" THEN found # "none" ELSE found
             \in {"none", F!Makes(c).kind}
<1>1. /\ calls[c].at = "probed" /\ F!Alone(c) /\ F!UnderWay(c) /\ Busy(c) /\ n \in Names /\ Fits(c)
      /\ grant' = grant /\ past' = past /\ fits \in BOOLEAN /\ F!Over(c, fits)
      /\ disk' = (IF fits /\ (calls[c].op = "unlink" \/ found = "none")
                  THEN [disk EXCEPT ![n] = F!Makes(c)] ELSE disk)
      /\ ideal' = (IF fits THEN [ideal EXCEPT ![n] = F!Makes(c)] ELSE ideal)
  <2>1. calls[c].at = "probed" /\ F!Alone(c) /\ F!UnderWay(c) /\ Busy(c) /\ n \in Names /\ Fits(c)
    BY DEF F!Act, F!UnderWay, Busy, FsInv, Fits
  <2>2. fits \in BOOLEAN
    <3>1. CASE calls[c].op = "unlink"
      BY <3>1
    <3>2. CASE calls[c].op # "unlink"
      BY <3>2
    <3> QED BY <3>1, <3>2
  <2> QED BY <2>1, <2>2 DEF F!Act
<1>2. F!Makes(c) \in F!Entry /\ Len(F!Makes(c).data) <= MaxSize
  <2>1. <<>> \in Seq(Cells) /\ Len(<<>>) = 0
    OBVIOUS
  <2>2. F!Makes(c) \in {F!File(<<>>), F!Directory, F!Absent}
    BY DEF F!Makes
  <2> QED BY <2>1, <2>2, EntriesOf, ProviderAssumption DEF F!File, F!Directory, F!Absent
<1> HIDE DEF fits
<1>3. Stored'
  BY <1>1, <1>2 DEF FsInv, Stored
<1>4. ASSUME Serial, disk = ideal PROVE disk' = ideal'
  <2>1. found = IF calls[c].op = "unlink" THEN "file" ELSE "none"
    BY <1>1, <1>4 DEF FsInv, Agreeing, Knows
  <2> QED BY <1>1, <1>4, <2>1
<1> QED BY <1>1, <1>3, <1>4, OverDoes, FsTakesEffect

\* A rename moves where it can, and copies else.
LEMMA ResolveNext ==
  ASSUME FsInv, NEW c \in Calls, F!Resolve(c)
  PROVE  FsInv'
<1> DEFINE kind == disk[calls[c].name].kind
<1>1. /\ calls[c].op = "rename" /\ calls[c].at = "start" /\ F!Alone(c) /\ F!UnderWay(c)
      /\ F!Same /\ Fits(c) /\ calls[c] \in CallStates /\ grant \in Grants
  BY DEF F!Resolve, F!UnderWay, FsInv
<1>2. CASE kind = "none" \/ (kind = "dir" /\ ~grant.moves)
  <2>1. F!Over(c, FALSE)
    BY <1>2 DEF F!Resolve
  <2> QED BY <1>1, <2>1, FsEnds
<1>3. CASE ~(kind = "none" \/ (kind = "dir" /\ ~grant.moves))
  <2>1. PICK at \in {"move", "copy"} : F!Goto(c, at) /\ (at = "copy" => ~grant.moves)
    <3>1. CASE grant.moves
      <4>1. F!Goto(c, "move")
        BY <1>3, <3>1 DEF F!Resolve
      <4> QED BY <4>1
    <3>2. CASE ~grant.moves
      <4>1. F!Goto(c, "copy")
        BY <1>3, <3>2 DEF F!Resolve
      <4> QED BY <3>2, <4>1
    <3> QED BY <3>1, <3>2
  <2>2. Moved(c) /\ calls'[c] = [calls[c] EXCEPT !.at = at]
    BY <2>1, GotoDoes DEF Ats
  <2>3. /\ calls'[c].at = at /\ calls'[c].op = calls[c].op /\ calls'[c].name = calls[c].name
        /\ calls'[c].to = calls[c].to /\ calls'[c].snap = calls[c].snap
    BY <1>1, <2>2 DEF CallStates
  <2>4. grant' = grant /\ disk' = disk /\ ideal' = ideal /\ past' = past
    BY <1>1 DEF F!Same
  <2>5. Fits(c)' /\ Knows(c)'
    BY <1>1, <2>1, <2>3, <2>4 DEF Fits, F!UnderWay, Knows
  <2> QED BY <1>1, <2>2, <2>5, AloneSays, FsStays
<1> QED BY <1>2, <1>3

\* A rename keeps entries and the bound.
LEMMA RenamedOf ==
  ASSUME NEW d \in [Names -> F!Entry], NEW from \in Names, NEW to \in Names
  PROVE  /\ F!Renamed(d, from, to) \in [Names -> F!Entry]
         /\ (\A n \in Names : Len(d[n].data) <= MaxSize) =>
              \A n \in Names : Len(F!Renamed(d, from, to)[n].data) <= MaxSize
<1>1. F!Absent \in F!Entry /\ Len(F!Absent.data) <= MaxSize
  <2>1. Len(<<>>) = 0
    OBVIOUS
  <2> QED BY <2>1, EntriesOf, ProviderAssumption DEF F!Absent
<1>2. CASE from = to
  BY <1>2 DEF F!Renamed
<1>3. CASE from # to
  <2>1. F!Renamed(d, from, to) = [n \in Names |-> IF n = from THEN F!Absent ELSE IF n = to
          THEN d[from] ELSE d[n]]
    BY <1>3 DEF F!Renamed
  <2> QED BY <1>1, <2>1
<1> QED BY <1>2, <1>3

\* The platform moves the entry in one step.
LEMMA MoveNext ==
  ASSUME FsInv, NEW c \in Calls, F!Move(c)
  PROVE  FsInv'
<1> DEFINE from == calls[c].name
           to == calls[c].to
<1>1. /\ calls[c].at = "move" /\ F!Alone(c) /\ F!UnderWay(c) /\ Busy(c) /\ from \in Names /\ to \in Names
      /\ grant' = grant /\ past' = past
  BY DEF F!Move, F!UnderWay, Busy, FsInv, Fits
<1>2. CASE ~(disk[from].kind # "none" /\ F!Movable(from, to))
  <2>1. F!Over(c, FALSE) /\ F!Same
    BY <1>1, <1>2 DEF F!Move, F!Same
  <2> QED BY <1>1, <2>1, FsEnds
<1>3. CASE disk[from].kind # "none" /\ F!Movable(from, to)
  <2>1. disk' = F!Renamed(disk, from, to) /\ ideal' = F!Renamed(ideal, from, to) /\ F!Over(c, TRUE)
    BY <1>3 DEF F!Move
  <2>2. Stored'
    BY <1>1, <2>1, RenamedOf DEF FsInv, Stored
  <2>3. disk = ideal => disk' = ideal'
    BY <2>1
  <2> QED BY <1>1, <2>1, <2>2, <2>3, OverDoes, FsTakesEffect
<1> QED BY <1>2, <1>3

\* A copying rename reads the file.
LEMMA CopyNext ==
  ASSUME FsInv, NEW c \in Calls, F!Copy(c)
  PROVE  FsInv'
<1>1. /\ calls[c].at = "copy" /\ F!Same /\ F!UnderWay(c) /\ Fits(c) /\ grant.backend # "node"
      /\ calls[c] \in CallStates /\ calls[c].name \in Names
  BY DEF F!Copy, F!UnderWay, FsInv, Fits
<1>2. CASE disk[calls[c].name].kind # "file"
  BY <1>1, <1>2, FsEnds DEF F!Copy
<1>3. CASE disk[calls[c].name].kind = "file"
  <2> DEFINE data == disk[calls[c].name].data
             r == [calls[c] EXCEPT !.snap = data, !.at = "fill"]
  <2>1. data \in Seq(Cells) /\ Len(data) <= MaxSize /\ disk[calls[c].name] = F!File(data)
    BY <1>1, <1>3, EntriesOf DEF FsInv, Stored
  <2>2. calls' = [calls EXCEPT ![c] = r]
    BY <1>1, <1>3 DEF F!Copy, FsInv
  <2> HIDE DEF data
  <2>3. /\ r \in CallStates /\ r.at = "fill" /\ r.op = calls[c].op /\ r.name = calls[c].name
        /\ r.to = calls[c].to /\ r.snap = data
    <3>1. "fill" \in Ats
      BY DEF Ats
    <3> HIDE DEF Cells, Ats
    <3> QED BY <1>1, <2>1, <3>1 DEF CallStates
  <2> HIDE DEF r
  <2>4. Moved(c) /\ calls'[c] = r
    BY <2>2, <2>3, Moves DEF FsInv
  <2>5. grant' = grant /\ disk' = disk /\ ideal' = ideal /\ past' = past
    BY <1>1 DEF F!Same
  <2>6. Fits(c)' /\ Knows(c)'
    BY <1>1, <2>1, <2>3, <2>4, <2>5 DEF Fits, F!UnderWay, Knows
  <2> QED BY <1>1, <2>4, <2>6, FsStays
<1> QED BY <1>2, <1>3

\* It writes the copy: from here on the disk is ahead of the ideal one.
LEMMA FillNext ==
  ASSUME FsInv, NEW c \in Calls, F!Fill(c)
  PROVE  FsInv'
<1> DEFINE to == calls[c].to
<1>1. /\ calls[c].at = "fill" /\ F!UnderWay(c) /\ Busy(c) /\ Fits(c) /\ grant.backend # "node"
      /\ calls[c] \in CallStates /\ calls[c].name \in Names /\ to \in Names
      /\ grant' = grant /\ ideal' = ideal /\ past' = past
  BY DEF F!Fill, F!UnderWay, Busy, FsInv, Fits
<1>2. CASE disk[to].kind = "dir"
  BY <1>1, <1>2, FsEnds DEF F!Fill, F!Same
<1>3. CASE disk[to].kind # "dir"
  <2>1. disk' = [disk EXCEPT ![to] = F!File(calls[c].snap)] /\ F!Goto(c, "remove")
    BY <1>3 DEF F!Fill
  <2>2. F!File(calls[c].snap) \in F!Entry /\ Len(F!File(calls[c].snap).data) <= MaxSize
    BY <1>1, EntriesOf DEF CallStates, Fits, F!File
  <2>3. Stored'
    BY <1>1, <2>1, <2>2 DEF FsInv, Stored
  <2>4. Moved(c) /\ calls'[c] = [calls[c] EXCEPT !.at = "remove"]
    BY <2>1, GotoDoes DEF Ats
  <2>5. /\ calls'[c].at = "remove" /\ calls'[c].op = calls[c].op /\ calls'[c].name = calls[c].name
        /\ calls'[c].to = calls[c].to /\ calls'[c].snap = calls[c].snap
    BY <1>1, <2>4 DEF CallStates
  <2>6. Fits(c)'
    BY <1>1, <2>5 DEF Fits, F!UnderWay
  <2>7. ASSUME Serial PROVE Knows(c)'
    <3>1. \A d \in Calls : calls[d].at # "remove"
      <4>1. \A d \in Calls : F!UnderWay(d) => d = c
        BY <1>1, <2>7 DEF Serial, FsInv, Apart
      <4> QED BY <1>1, <4>1 DEF F!UnderWay
    <3>2. disk = ideal /\ disk[calls[c].name] = F!File(calls[c].snap)
      BY <1>1, <2>7, <3>1 DEF FsInv, Agreeing, Knows
    <3> QED BY <1>1, <2>1, <2>5, <3>2 DEF Knows
  <2>8. Serial' <=> Serial
    BY <1>1 DEF Serial
  <2> QED BY <1>1, <2>3, <2>4, <2>5, <2>6, <2>7, <2>8, FsKeeps
<1> QED BY <1>2, <1>3

\* It removes the original, and they agree again.
LEMMA RemoveNext ==
  ASSUME FsInv, NEW c \in Calls, F!Remove(c)
  PROVE  FsInv'
<1> DEFINE from == calls[c].name
           to == calls[c].to
           found == disk[from].kind # "none"
<1>1. /\ calls[c].at = "remove" /\ F!UnderWay(c) /\ Busy(c) /\ Fits(c) /\ grant.backend # "node"
      /\ calls[c].op = "rename" /\ from \in Names /\ to \in Names
      /\ grant' = grant /\ past' = past /\ found \in BOOLEAN /\ F!Over(c, found)
      /\ disk' = [disk EXCEPT ![from] = F!Absent] /\ ideal' = F!Renamed(ideal, from, to)
  BY DEF F!Remove, F!UnderWay, Busy, FsInv, Fits
<1> HIDE DEF found
<1>2. Moved(c) /\ Knows(c)' /\ ~Busy(c)' /\ ~F!UnderWay(c)' /\ Fits(c)'
  BY <1>1, OverDoes
<1>3. Stored'
  <2>1. F!Absent \in F!Entry /\ Len(F!Absent.data) <= MaxSize
    <3>1. Len(<<>>) = 0
      OBVIOUS
    <3> QED BY <3>1, EntriesOf, ProviderAssumption DEF F!Absent
  <2>2. ideal' \in [Names -> F!Entry]
    BY <1>1, RenamedOf DEF FsInv, Stored
  <2> QED BY <1>1, <2>1, <2>2 DEF FsInv, Stored
<1>4. ASSUME Serial PROVE disk' = ideal'
  <2>1. /\ ideal[from] = F!File(calls[c].snap) /\ disk = [ideal EXCEPT ![to] = F!File(calls[c].snap)]
    BY <1>1, <1>4 DEF FsInv, Agreeing, Knows
  <2>2. from # to
    BY <1>1, <1>4 DEF Serial, Fits
  <2>3. ideal' = [ideal EXCEPT ![to] = ideal[from], ![from] = F!Absent]
    BY <1>1, <2>2 DEF F!Renamed
  <2> QED BY <1>1, <2>1, <2>3
<1>5. Serial' <=> Serial
  BY <1>1 DEF Serial
<1> QED BY <1>1, <1>2, <1>3, <1>4, <1>5, FsKeeps

\* The filesystem provider keeps its invariant.
LEMMA FsNext ==
  ASSUME FsInv, [F!Next]_fvars
  PROVE  FsInv'
<1>1. CASE UNCHANGED fvars
  BY <1>1 DEF fvars, FsInv, Stored, Apart, Agreeing, Serial, Knows, Fits, Busy, F!UnderWay
<1>2. CASE F!Next
  <2>1. PICK c \in Calls :
          \/ \E op \in F!Operations, n \in Names, m \in Names, p \in 1..MaxSize : F!Begin(c, op,
               n, m, p)
          \/ F!AppendAt(c) \/ F!Opened(c) \/ F!Closed(c) \/ F!Chunk(c) \/ F!Read(c) \/ F!Probe(c) \/ F!Act(c)
          \/ F!Resolve(c) \/ F!Move(c) \/ F!Copy(c) \/ F!Fill(c) \/ F!Remove(c)
          \/ \E ok \in BOOLEAN : F!SourceEnds(c, ok)
    BY <1>2 DEF F!Next
  <2> QED
    BY <2>1, BeginNext, AppendAtNext, OpenedNext, ClosedNext, ChunkNext, ReadNext, ProbeNext,
       ActNext, ResolveNext,
       MoveNext, CopyNext, FillNext, RemoveNext, SourceEndsNext
<1> QED BY <1>1, <1>2

\* What it says of the disk and of the guest's streams.
LEMMA FsSafe == FsInv => F!TypeOK /\ F!SerialExact /\ F!NodeExact /\ F!WriterReleased
<1> SUFFICES ASSUME FsInv PROVE F!TypeOK /\ F!SerialExact /\ F!NodeExact /\ F!WriterReleased
  OBVIOUS
<1>1. F!TypeOK
  BY DEF FsInv, Stored, F!TypeOK, Grants, Pasts, CallStates, Ats
<1>2. F!Quiet /\ Serial => disk = ideal
  BY DEF FsInv, Agreeing, F!Quiet, F!UnderWay
<1>3. F!WriterReleased
  BY DEF FsInv, Fits, F!WriterReleased
<1> QED BY <1>1, <1>2, <1>3 DEF Serial, F!SerialExact, F!NodeExact

\* Without the grant no step writes.
LEMMA FsUntouched ==
  ASSUME FsInv, [F!Next]_fvars, ~grant.writable
  PROVE  disk' = disk
<1>1. ASSUME NEW c \in Calls, F!UnderWay(c) PROVE calls[c].at = "pull" /\ calls[c].op = "read"
  BY <1>1 DEF FsInv, Fits, F!UnderWay, CallStates, Ats
<1>2. ASSUME NEW c \in Calls, F!Closed(c) \/ F!Act(c) \/ F!Move(c) \/ F!Fill(c) \/ F!Remove(c) PROVE FALSE
  BY <1>1, <1>2 DEF F!Closed, F!Act, F!Move, F!Fill, F!Remove, F!UnderWay
<1>3. ASSUME NEW c \in Calls, NEW op \in F!Operations, NEW n \in Names, NEW m \in Names,
             NEW p \in 1..MaxSize,
             F!Begin(c, op, n, m, p)
      PROVE  disk' = disk
  BY <1>3 DEF F!Begin
<1>4. ASSUME NEW c \in Calls, \/ F!AppendAt(c) \/ F!Opened(c) \/ F!Chunk(c) \/ F!Read(c) \/ F!Probe(c)
                              \/ F!Resolve(c) \/ F!Copy(c) \/ \E ok \in BOOLEAN : F!SourceEnds(c, ok)
      PROVE  disk' = disk
  BY <1>4 DEF F!AppendAt, F!Opened, F!Chunk, F!Read, F!Probe, F!Resolve, F!Copy, F!SourceEnds,
     F!Same
<1> QED BY <1>2, <1>3, <1>4 DEF F!Next, fvars

-----------------------------------------------------------------------------
(* The five together.                                                          *)

\* What the five providers keep.
WasiInv == SockInv /\ SharedInv /\ UdpInv /\ HttpInv /\ FsInv

\* The state of the module.
everything == <<part, vars, tvars, uvars, hvars, fvars>>

\* A step of one provider is a step of that one and a stutter of the others.
LEMMA StepOfEach ==
  ASSUME [Step]_everything
  PROVE  [Next]_vars /\ [T3!Next]_tvars /\ [U!Next]_uvars /\ [H!Next]_hvars /\ [F!Next]_fvars
BY DEF Step, everything

\* The five inductive invariants hold together, whichever provider runs.
THEOREM WasiInvariant == WasiSpec => []WasiInv
<1>1. Started => WasiInv
  BY SockInit, SharedInit, UdpInit, HttpInit, FsInit DEF Started, WasiInv
<1>2. WasiInv /\ [Step]_everything => WasiInv'
  BY StepOfEach, SockNext, SharedNext, UdpNext, HttpNext, FsNext DEF WasiInv
<1> QED BY <1>1, <1>2, PTL DEF WasiSpec, everything

\* Every variable of the five providers keeps its type: no count of references, bytes,
\* datagrams or connections leaves its bound.
THEOREM TypesHold == WasiSpec => []WasiTypeOK
<1>1. WasiInv => WasiTypeOK
  BY SockSafe, SharedTypes, UdpSafe, HttpSafe, FsSafe DEF WasiInv, WasiTypeOK
<1> QED BY <1>1, WasiInvariant, PTL

\* No frame and no receiver is parked beside what he waits for, in any interleaving of feed,
\* sink, dials, datagrams and drops: the hand-over of the wait promises loses no wakeup.
THEOREM NobodySleeps == WasiSpec => []NoneSleepsOn
<1>1. WasiInv => NoneSleepsOn
  BY SockSafe, UdpSafe DEF WasiInv, NoneSleepsOn
<1> QED BY <1>1, WasiInvariant, PTL

\* OS sockets, listeners and bodies are closed after the last user has gone, and never under
\* one: the reference count of the 0.3 socket is exact.
THEOREM LentIsReturned == WasiSpec => []Released
<1>1. WasiInv => Released
  BY SockSafe, SharedStays, SharedCloses, HttpSafe DEF WasiInv, Released
<1> QED BY <1>1, WasiInvariant, PTL

\* The futures of send, receive and HTTP settle with what happened, and no guest writes into
\* a stream that nobody reads.
THEOREM FuturesTell == WasiSpec => []Settled
<1>1. WasiInv => Settled
  BY HttpSafe, FsSafe DEF WasiInv, SharedInv, Settling, Settled
<1> QED BY <1>1, WasiInvariant, PTL

\* The remote the provider believes in is the OS's, and chains of steps that nothing came
\* between leave the directory as if each were one step.
THEOREM ProviderAgrees == WasiSpec => []PlatformAgrees
<1>1. WasiInv => PlatformAgrees
  BY UdpSafe, FsSafe DEF WasiInv, PlatformAgrees
<1> QED BY <1>1, WasiInvariant, PTL

\* No step opens a connection of a dropped socket, lets a request out against the policy,
\* changes the headers of a message, or writes through a read-only preopen.
THEOREM NothingForbidden == WasiSpec => NeverAfter
<1>1. WasiInv /\ [Step]_everything => [~sock.alive => conn'.os \in {conn.os, "closed"}]_vars
  BY StepOfEach, SockCloses DEF WasiInv
<1>2. WasiInv => H!FailsClosed
  BY HttpSafe DEF WasiInv
<1>3. WasiInv /\ [Step]_everything =>
        [message.at # "none" => H!Entries("mine")' = H!Entries("mine")]_(H!vars)
  BY StepOfEach, HttpFrozen DEF WasiInv
<1>4. WasiInv /\ [Step]_everything => [~grant.writable => disk' = disk]_(F!vars)
  BY StepOfEach, FsUntouched DEF WasiInv
<1> QED
  BY <1>1, <1>2, <1>3, <1>4, WasiInvariant, PTL
  DEF WasiSpec, everything, NeverAfter, DropClosesDial, H!HeadersFrozen, F!ReadOnlyUntouched
=============================================================================
