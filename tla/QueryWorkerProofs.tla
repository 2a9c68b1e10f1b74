--------------------------- MODULE QueryWorkerProofs ---------------------------
(***************************************************************************)
(* Proofs about QueryWorker, for any number of queries and sockets, any    *)
(* limit and any size of a result.                                         *)
(***************************************************************************)
EXTENDS QueryWorker, TLAPS

(* What a query of n rows may be reported to have ended with.              *)
Reports(e, n) ==
  e \in Completed => /\ e.truncated <=> n > e.rows
                     /\ e.rows = IF n > Limit THEN Limit ELSE n

(* Only handlers of the session's own queries subscribe.                   *)
Subscribed ==
  \A j \in Jobs : \A k \in subscribers[j] :
    socket[k] # NoSocket /\ socket[k].job = j /\ socket[k].own

Mine(s) == s.at \in {"ping", "wait"} \/ s.queue # <<>> => s.own

(* Nobody has heard of the end of a query that has not ended.              *)
Early(j, s) ==
  s.job = j => s.queue = <<>> /\ s.told \notin Completed

NotEarly ==
  \A j \in Jobs : job[j].status \in Running \union {"none"} =>
    \A k \in Sockets : socket[k] # NoSocket => Early(j, socket[k])

Told(s, n) ==
  /\ s.told \in Completed => s.own /\ Reports(s.told, n)
  /\ s.queue # <<>> => Reports(s.queue[1], n)

Reported ==
  /\ \A j \in Jobs : Reports(job[j], size[j])
  /\ \A k \in Sockets : socket[k] # NoSocket =>
       Mine(socket[k]) /\ Told(socket[k], size[socket[k].job])

Heard(k, s) ==
  s.at \in {"ping", "wait"} =>
    \/ job[s.job].status \in Running /\ k \in subscribers[s.job]
    \/ s.queue # <<>>

IInv == TypeOK /\ EndIsHeard /\ Subscribed /\ NotEarly /\ Reported

-----------------------------------------------------------------------------

LEMMA Records ==
  /\ \A e \in Ends : e.status \in {"completed", "error"}
  /\ Unknown \notin Completed /\ Nothing \notin Completed
  /\ Failure \in Ends /\ Failure \notin Completed
  /\ \A s \in Socket : s # NoSocket
  /\ \A x \in Statuses : [status |-> x] \notin Ends
BY DEF Ends, Completed, Failure, Unknown, Nothing, Socket, NoSocket, Statuses, Running

LEMMA Queues ==
  /\ \A s \in Socket : s.queue = <<>> \/ \E e \in Ends : s.queue = <<e>>
  /\ \A e \in Ends : Append(<<>>, e) = <<e>>
  /\ \A e \in Ends : <<e>> # <<>> /\ Head(<<e>>) = e /\ <<e>>[1] = e
  /\ \A e \in Ends : Tail(<<e>>) = <<>>
BY DEF Socket

LEMMA InitIInv == ASSUME Init PROVE IInv
<1>1. TypeOK
  BY LimitAssumption DEF Init, TypeOK, Statuses, Sizes
<1>2. EndIsHeard
  BY DEF Init, EndIsHeard, NoSocket
<1>3. Subscribed /\ NotEarly
  BY DEF Init, Subscribed, NotEarly
<1>4. Reported
  <2>1. \A j \in Jobs : job[j] \notin Completed
    BY DEF Init, Completed
  <2> QED
    BY <2>1 DEF Init, Reported, Reports
<1> QED
  BY <1>1, <1>2, <1>3, <1>4 DEF IInv

(* A step of one socket: what the new state s of socket k must satisfy.    *)
LEMMA SocketStep ==
  ASSUME IInv,
         NEW k \in Sockets, NEW s \in Socket, NEW S \in SUBSET Sockets,
         socket' = [socket EXCEPT ![k] = s],
         socket[k] = NoSocket \/ socket[k].job = s.job,
         subscribers' = [subscribers EXCEPT ![s.job] = S],
         subscribers[s.job] \ {k} \subseteq S,
         S \subseteq subscribers[s.job] \union {k},
         k \in S => s.own /\ job[s.job].status \notin {"none", "gone"},
         s.at \in {"ping", "wait"} =>
           (job[s.job].status \in Running /\ k \in S) \/ s.queue # <<>>,
         job[s.job].status \in Running \union {"none"} => Early(s.job, s),
         Mine(s), Told(s, size[s.job]),
         UNCHANGED <<job, size>>
  PROVE  IInv'
<1> DEFINE i == s.job
<1>1. i \in Jobs
  BY DEF Socket
<1>2. socket'[k] = s /\ \A l \in Sockets \ {k} : socket'[l] = socket[l]
  BY DEF IInv, TypeOK
<1>3. subscribers'[i] = S /\ \A j \in Jobs \ {i} : subscribers'[j] = subscribers[j]
  BY <1>1 DEF IInv, TypeOK
<1>4. \A j \in Jobs \ {i} : k \notin subscribers[j]
  BY <1>1 DEF IInv, Subscribed
<1>5. TypeOK'
  BY <1>1 DEF IInv, TypeOK
<1>6. EndIsHeard'
  <2>1. ASSUME NEW l \in Sockets, socket'[l].at \in {"ping", "wait"}
        PROVE  \/ job[socket'[l].job].status \in Running /\ l \in subscribers'[socket'[l].job]
               \/ socket'[l].queue # <<>>
    <3>1. CASE l = k
      BY <1>2, <1>3, <2>1, <3>1
    <3>2. CASE l # k
      <4>1. socket'[l] = socket[l] /\ socket[l].job \in Jobs
        BY <1>2, <2>1, <3>2 DEF IInv, TypeOK, Socket, NoSocket
      <4>2. l \in subscribers[socket[l].job] => l \in subscribers'[socket[l].job]
        BY <1>3, <3>2, <4>1
      <4> QED
        BY <2>1, <4>1, <4>2 DEF IInv, EndIsHeard
    <3> QED
      BY <3>1, <3>2
  <2>2. ASSUME NEW j \in Jobs, job[j].status \in {"none", "gone"}
        PROVE  subscribers'[j] = {}
    <3>1. subscribers[j] = {}
      BY <2>2 DEF IInv, EndIsHeard
    <3> QED
      BY <1>3, <2>2, <3>1
  <2> QED
    BY <2>1, <2>2 DEF EndIsHeard
<1>7. Subscribed'
  <2> SUFFICES ASSUME NEW j \in Jobs, NEW l \in subscribers'[j]
               PROVE  socket'[l] # NoSocket /\ socket'[l].job = j /\ socket'[l].own
    BY DEF Subscribed
  <2>1. l \in Sockets
    BY <1>5 DEF TypeOK
  <2>2. CASE l = k
    BY <1>2, <1>3, <1>4, <2>2, Records
  <2>3. CASE l # k
    <3>1. l \in subscribers[j]
      BY <1>3, <2>3
    <3> QED
      BY <1>2, <2>1, <2>3, <3>1 DEF IInv, Subscribed
  <2> QED
    BY <2>2, <2>3
<1>8. NotEarly'
  <2> SUFFICES ASSUME NEW j \in Jobs, job[j].status \in Running \union {"none"},
                      NEW l \in Sockets, socket'[l] # NoSocket
               PROVE  Early(j, socket'[l])
    BY DEF NotEarly, Early
  <2>1. CASE l = k
    BY <1>2, <2>1 DEF Early
  <2>2. CASE l # k
    BY <1>2, <2>2 DEF IInv, NotEarly
  <2> QED
    BY <2>1, <2>2
<1>9. Reported'
  <2>1. \A l \in Sockets : socket'[l] # NoSocket =>
          Mine(socket'[l]) /\ Told(socket'[l], size[socket'[l].job])
    BY <1>2 DEF IInv, Reported
  <2> QED
    BY <2>1 DEF IInv, Reported, Reports, Mine, Told
<1> QED
  BY <1>5, <1>6, <1>7, <1>8, <1>9 DEF IInv
(* Steps that leave the subscribers alone.                                 *)
LEMMA QuietStep ==
  ASSUME IInv,
         NEW k \in Sockets, NEW s \in Socket,
         socket' = [socket EXCEPT ![k] = s],
         socket[k] = NoSocket \/ (socket[k].job = s.job /\ socket[k].own = s.own),
         s.at \in {"ping", "wait"} =>
           \/ job[s.job].status \in Running /\ k \in subscribers[s.job]
           \/ s.queue # <<>>,
         job[s.job].status \in Running \union {"none"} => Early(s.job, s),
         Mine(s), Told(s, size[s.job]),
         UNCHANGED <<job, subscribers, size>>
  PROVE  IInv'
<1> DEFINE S == subscribers[s.job]
<1>1. s.job \in Jobs
  BY DEF Socket
<1>2. S \in SUBSET Sockets /\ subscribers' = [subscribers EXCEPT ![s.job] = S]
  BY <1>1 DEF IInv, TypeOK
<1>3. k \in S => s.own /\ job[s.job].status \notin {"none", "gone"}
  BY <1>1 DEF IInv, EndIsHeard, Subscribed
<1>4. S \ {k} \subseteq S /\ S \subseteq S \union {k}
  OBVIOUS
<1> HIDE DEF S
<1>5. subscribers[s.job] = S
  BY DEF S
<1> QED
  BY <1>2, <1>3, <1>4, <1>5, SocketStep

LEMMA ConnectStep ==
  ASSUME IInv, NEW k \in Sockets, NEW j \in Jobs, NEW own \in BOOLEAN,
         Connect(k, j, own)
  PROVE  IInv'
<1> DEFINE s == [at |-> "accept", job |-> j, own |-> own, queue |-> <<>>,
                 told |-> Nothing]
<1>1. s \in Socket /\ s.job = j /\ s.at = "accept" /\ s.queue = <<>>
      /\ s.told \notin Completed
  BY Records DEF Socket
<1>2. socket' = [socket EXCEPT ![k] = s] /\ socket[k] = NoSocket
      /\ UNCHANGED <<job, subscribers, size>>
  BY DEF Connect, Put
<1> HIDE DEF s
<1>3. Mine(s) /\ Told(s, size[s.job]) /\ Early(s.job, s)
  BY <1>1 DEF Mine, Told, Early
<1>4. ~ (s.at \in {"ping", "wait"})
  BY <1>1
<1> QED
  BY <1>1, <1>2, <1>3, <1>4, QuietStep

(* What is known of a socket that has been opened.                         *)
LEMMA OpenSocket ==
  ASSUME IInv, NEW k \in Sockets, socket[k].at # "new"
  PROVE  /\ socket[k] # NoSocket /\ socket[k] \in Socket
         /\ socket[k].job \in Jobs
         /\ Mine(socket[k]) /\ Told(socket[k], size[socket[k].job])
         /\ job[socket[k].job].status \in Running \union {"none"} =>
              Early(socket[k].job, socket[k])
         /\ Heard(k, socket[k])
<1>1. socket[k] # NoSocket
  BY DEF NoSocket
<1>2. socket[k] \in Socket
  BY <1>1 DEF IInv, TypeOK
<1>3. socket[k].job \in Jobs
  BY <1>2 DEF Socket
<1>4. Heard(k, socket[k])
  BY DEF IInv, EndIsHeard, Heard
<1> QED
  BY <1>1, <1>2, <1>3, <1>4 DEF IInv, Reported, NotEarly

LEMMA LookStep ==
  ASSUME IInv, NEW k \in Sockets, Look(k)
  PROVE  IInv'
<1> DEFINE s == socket[k]
           answer == Answer(k, job[s.job])
<1>1. s.at = "accept" /\ Greet(k, answer)
  BY DEF Look
<1>2. /\ s \in Socket /\ s # NoSocket /\ s.job \in Jobs
      /\ Mine(s) /\ Told(s, size[s.job])
      /\ job[s.job].status \in Running \union {"none"} => Early(s.job, s)
  BY <1>1, OpenSocket
<1>3. UNCHANGED <<job, size>>
  BY <1>1 DEF Greet
<1>4. CASE answer = Nothing
  <2> DEFINE t == [s EXCEPT !.at = "ping"]
             S == subscribers[s.job] \union {k}
  <2>1. socket' = [socket EXCEPT ![k] = t]
        /\ subscribers' = [subscribers EXCEPT ![s.job] = S]
    BY <1>1, <1>4 DEF Greet, Put
  <2>2. /\ t \in Socket /\ t.job = s.job /\ t.own = s.own
        /\ t.queue = s.queue /\ t.told = s.told /\ t.at = "ping"
    BY <1>2 DEF Socket
  <2>3. s.own /\ job[s.job].status \in Running
    <3>1. job[s.job] \in [status : Statuses] \union Ends
      BY <1>2 DEF IInv, TypeOK
    <3>2. job[s.job] \notin Ends
      <4>1. Nothing \notin Ends
        BY DEF Nothing, Ends, Completed, Failure
      <4>2. Nothing # Unknown
        BY DEF Nothing, Unknown
      <4> QED
        BY <1>4, <4>1, <4>2 DEF Answer
    <3>3. s.own /\ job[s.job].status \notin {"none", "gone"}
      BY <1>4 DEF Answer, Nothing, Unknown
    <3> QED
      BY <3>1, <3>2, <3>3 DEF Statuses
  <2>4. S \in SUBSET Sockets
    BY <1>2 DEF IInv, TypeOK
  <2>5. subscribers[s.job] \ {k} \subseteq S /\ k \in S
        /\ S \subseteq subscribers[s.job] \union {k}
    OBVIOUS
  <2> HIDE DEF s, t, S
  <2>6. Mine(t) /\ Told(t, size[t.job])
    BY <1>2, <2>2, <2>3 DEF Mine, Told
  <2>7. Early(t.job, t)
    BY <1>2, <2>2, <2>3 DEF Early
  <2>8. job[t.job].status \notin {"none", "gone"}
    BY <2>2, <2>3 DEF Running
  <2>9. socket[k].job = t.job /\ t.own
    BY <2>2, <2>3 DEF s
  <2> QED
    BY <1>3, <2>1, <2>2, <2>3, <2>4, <2>5, <2>6, <2>7, <2>8, <2>9, SocketStep
<1>5. CASE answer # Nothing
  <2> DEFINE t == [s EXCEPT !.at = "tell", !.told = answer]
  <2>1. socket' = [socket EXCEPT ![k] = t] /\ UNCHANGED subscribers
    BY <1>1, <1>5 DEF Greet, Put
  <2>2. answer \in Ends \union {Unknown}
    BY <1>5 DEF Answer
  <2>3. /\ t \in Socket /\ t.job = s.job /\ t.own = s.own
        /\ t.queue = s.queue /\ t.told = answer /\ t.at = "tell"
    BY <1>2, <2>2 DEF Socket
  <2>4. answer \in Completed => s.own /\ answer = job[s.job]
    BY <1>5, Records DEF Answer
  <2>5. Reports(job[s.job], size[s.job])
    BY <1>2 DEF IInv, Reported
  <2>6. answer \in Completed => job[s.job].status = "completed"
    BY <2>4 DEF Completed
  <2> HIDE DEF s, t, answer
  <2>7. Mine(t) /\ Told(t, size[t.job])
    BY <1>2, <2>3, <2>4, <2>5 DEF Mine, Told
  <2>8. job[t.job].status \in Running \union {"none"} => Early(t.job, t)
    BY <1>2, <2>3, <2>6 DEF Early, Running
  <2>9. socket[k].job = t.job /\ socket[k].own = t.own
    BY <2>3 DEF s
  <2> QED
    BY <1>3, <2>1, <2>3, <2>7, <2>8, <2>9, QuietStep
<1> QED
  BY <1>4, <1>5

(* Only where the handler is changes.                                      *)
LEMMA PingTimeoutStep ==
  ASSUME IInv, NEW k \in Sockets, Ping(k) \/ Timeout(k)
  PROVE  IInv'
<1> DEFINE s == socket[k]
<1>1. PICK at \in {"ping", "wait"} :
        socket' = [socket EXCEPT ![k] = [s EXCEPT !.at = at]]
  BY DEF Ping, Timeout, Put
<1>2. s.at \in {"ping", "wait"} /\ UNCHANGED <<job, subscribers, size>>
  BY DEF Ping, Timeout
<1>3. /\ s \in Socket /\ s.job \in Jobs /\ Mine(s) /\ Told(s, size[s.job])
      /\ job[s.job].status \in Running \union {"none"} => Early(s.job, s)
      /\ Heard(k, s)
  BY <1>2, OpenSocket
<1> DEFINE t == [s EXCEPT !.at = at]
<1>4. /\ t \in Socket /\ t.job = s.job /\ t.own = s.own
      /\ t.queue = s.queue /\ t.told = s.told /\ t.at \in {"ping", "wait"}
  BY <1>3 DEF Socket
<1>5. socket' = [socket EXCEPT ![k] = t] /\ socket[k].job = t.job
      /\ socket[k].own = t.own
  BY <1>1, <1>4
<1> HIDE DEF s, t
<1>6. Mine(t) /\ Told(t, size[t.job])
  BY <1>2, <1>3, <1>4 DEF Mine, Told
<1>7. job[t.job].status \in Running \union {"none"} => Early(t.job, t)
  BY <1>3, <1>4 DEF Early
<1>8. \/ job[t.job].status \in Running /\ k \in subscribers[t.job]
      \/ t.queue # <<>>
  BY <1>2, <1>3, <1>4 DEF Heard
<1> QED
  BY <1>2, <1>4, <1>5, <1>6, <1>7, <1>8, QuietStep

LEMMA ReceiveStep ==
  ASSUME IInv, NEW k \in Sockets, Receive(k)
  PROVE  IInv'
<1> DEFINE s == socket[k]
           t == [s EXCEPT !.at = "tell", !.told = Head(s.queue),
                          !.queue = Tail(s.queue)]
<1>1. /\ s.at = "wait" /\ s.queue # <<>>
      /\ socket' = [socket EXCEPT ![k] = t]
      /\ UNCHANGED <<job, subscribers, size>>
  BY DEF Receive, Put
<1>2. /\ s \in Socket /\ s.job \in Jobs /\ Mine(s) /\ Told(s, size[s.job])
      /\ job[s.job].status \in Running \union {"none"} => Early(s.job, s)
  BY <1>1, OpenSocket
<1>3. PICK e \in Ends : s.queue = <<e>>
  BY <1>1, <1>2, Queues
<1>4. Head(s.queue) = e /\ Tail(s.queue) = <<>> /\ s.queue[1] = e
  BY <1>3, Queues
<1>5. /\ t \in Socket /\ t.job = s.job /\ t.own = s.own
      /\ t.queue = <<>> /\ t.told = e /\ t.at = "tell"
  BY <1>2, <1>4 DEF Socket
<1>6. socket[k].job = t.job /\ socket[k].own = t.own
  BY <1>5
<1> HIDE DEF s, t
<1>7. Mine(t) /\ Told(t, size[t.job])
  BY <1>1, <1>2, <1>4, <1>5 DEF Mine, Told
<1>8. job[t.job].status \notin Running \union {"none"}
  BY <1>1, <1>2, <1>5 DEF Early
<1> QED
  BY <1>1, <1>5, <1>6, <1>7, <1>8, QuietStep

LEMMA CloseStep ==
  ASSUME IInv, NEW k \in Sockets,
         Tell(k) \/ Disconnect(k)
  PROVE  IInv'
<1> DEFINE s == socket[k]
<1>1. PICK told \in {Nothing, s.told} : Close(k, told)
  BY DEF Tell, Disconnect
<1>2. s.at # "new"
  BY DEF Tell, Disconnect
<1>3. /\ s \in Socket /\ s.job \in Jobs /\ Mine(s) /\ Told(s, size[s.job])
      /\ job[s.job].status \in Running \union {"none"} => Early(s.job, s)
  BY <1>2, OpenSocket
<1> DEFINE t == [s EXCEPT !.at = "closed", !.told = told, !.queue = <<>>]
           S == subscribers[s.job] \ {k}
<1>4. /\ socket' = [socket EXCEPT ![k] = t]
      /\ subscribers' = [subscribers EXCEPT ![s.job] = S]
      /\ UNCHANGED <<job, size>>
  BY <1>1 DEF Close, Put
<1>5. /\ t \in Socket /\ t.job = s.job /\ t.own = s.own
      /\ t.queue = <<>> /\ t.told = told /\ t.at = "closed"
  BY <1>3 DEF Socket
<1>6. socket[k].job = t.job
  BY <1>5
<1>7. S \in SUBSET Sockets /\ k \notin S /\ subscribers[s.job] \ {k} \subseteq S
      /\ S \subseteq subscribers[s.job] \union {k}
  BY <1>3 DEF IInv, TypeOK
<1>8. told \in Completed => told = s.told
  BY Records
<1> HIDE DEF s, t, S
<1>9. Mine(t) /\ Told(t, size[t.job])
  BY <1>3, <1>5, <1>8 DEF Mine, Told
<1>10. job[t.job].status \in Running \union {"none"} => Early(t.job, t)
  BY <1>3, <1>5, <1>8 DEF Early
<1> QED
  BY <1>4, <1>5, <1>6, <1>7, <1>9, <1>10, SocketStep
(* A step of a query that nobody hears of: x is its new state.             *)
LEMMA SilentStep ==
  ASSUME IInv, NEW j \in Jobs, NEW x \in Statuses, x # "none",
         job' = [job EXCEPT ![j] = [status |-> x]],
         \/ /\ x \in Running /\ job[j].status \in Running \union {"none"}
            /\ UNCHANGED subscribers
         \/ /\ x = "gone" /\ job[j] \in Ends
            /\ subscribers' = [subscribers EXCEPT ![j] = {}],
         UNCHANGED <<socket, size>>
  PROVE  IInv'
<1>1. job'[j].status = x /\ job'[j] \notin Completed
      /\ \A i \in Jobs \ {j} : job'[i] = job[i]
  BY Records DEF IInv, TypeOK, Ends
<1>2. TypeOK'
  BY DEF IInv, TypeOK
<1>3. \A i \in Jobs : subscribers'[i] = IF x = "gone" /\ i = j THEN {} ELSE subscribers[i]
  BY DEF IInv, TypeOK, Running
<1>4. job[j].status # "gone" /\ (x = "gone" => job[j].status \notin Running)
  BY Records DEF Running
<1>5. EndIsHeard'
  <2>1. ASSUME NEW k \in Sockets, socket[k].at \in {"ping", "wait"},
               socket[k].queue = <<>>
        PROVE  job'[socket[k].job].status \in Running
               /\ k \in subscribers'[socket[k].job]
    <3>1. job[socket[k].job].status \in Running /\ k \in subscribers[socket[k].job]
      BY <2>1 DEF IInv, EndIsHeard
    <3>2. socket[k].job \in Jobs
      BY <2>1, OpenSocket
    <3> QED
      BY <1>1, <1>3, <1>4, <3>1, <3>2
  <2>2. ASSUME NEW i \in Jobs, job'[i].status \in {"none", "gone"}
        PROVE  subscribers'[i] = {}
    BY <1>1, <1>3, <2>2 DEF IInv, EndIsHeard, Running
  <2> QED
    BY <2>1, <2>2 DEF EndIsHeard
<1>6. Subscribed'
  BY <1>3 DEF IInv, Subscribed
<1>7. NotEarly'
  BY <1>1 DEF IInv, NotEarly, Early, Running
<1>8. Reported'
  BY <1>1 DEF IInv, Reported, Reports, Mine, Told
<1> QED
  BY <1>2, <1>5, <1>6, <1>7, <1>8 DEF IInv

(* The end of a query: every subscriber finds it in an empty queue.        *)
LEMMA FinishStep ==
  ASSUME IInv, NEW j \in Jobs, NEW e \in Ends, NEW n \in Sizes,
         job[j].status \in Running, Finish(j, e),
         size' = [size EXCEPT ![j] = n] \/ UNCHANGED size,
         Reports(e, size'[j]), UNCHANGED subscribers
  PROVE  IInv'
<1>1. /\ job'[j] = e /\ \A i \in Jobs \ {j} : job'[i] = job[i]
      /\ \A i \in Jobs \ {j} : size'[i] = size[i]
  BY DEF Finish, IInv, TypeOK
<1>2. e.status \notin Running \union {"none", "gone"}
  BY Records DEF Running
<1>3. \A k \in Sockets \ subscribers[j] : socket'[k] = socket[k]
  BY DEF Finish
<1>4. ASSUME NEW k \in subscribers[j]
      PROVE  /\ socket[k] \in Socket /\ socket[k] # NoSocket
             /\ socket'[k] \in Socket /\ socket'[k].job = j /\ socket[k].job = j
             /\ socket'[k].at = socket[k].at
             /\ socket'[k].queue = <<e>> /\ socket'[k].own = socket[k].own
             /\ socket'[k].told = socket[k].told
             /\ Early(j, socket[k])
  <2>1. k \in Sockets /\ socket[k] # NoSocket /\ socket[k].job = j
    BY DEF IInv, TypeOK, Subscribed
  <2>2. socket[k] \in Socket
    BY <2>1 DEF IInv, TypeOK
  <2>3. Early(j, socket[k])
    BY <2>1 DEF IInv, NotEarly
  <2>4. socket'[k] = [socket[k] EXCEPT !.queue = Append(@, e)]
    BY <2>1 DEF Finish
  <2>5. socket[k].queue = <<>>
    BY <2>1, <2>3 DEF Early
  <2>6. Append(socket[k].queue, e) = <<e>>
    BY <2>5, Queues
  <2>7. socket'[k] = [socket[k] EXCEPT !.queue = <<e>>]
    BY <2>4, <2>6
  <2> QED
    BY <2>1, <2>2, <2>3, <2>7 DEF Socket
<1>5. TypeOK'
  <2>1. socket' \in [Sockets -> Socket \union {NoSocket}]
    <3>1. \A k \in Sockets : socket'[k] \in Socket \union {NoSocket}
      BY <1>3, <1>4 DEF IInv, TypeOK
    <3>2. socket' = [k \in Sockets |-> socket'[k]]
      BY DEF Finish
    <3> QED
      BY <3>1, <3>2
  <2> QED
    BY <2>1 DEF IInv, TypeOK, Finish
<1>6. EndIsHeard'
  <2>1. ASSUME NEW k \in Sockets, socket'[k].at \in {"ping", "wait"},
               socket'[k].queue = <<>>
        PROVE  job'[socket'[k].job].status \in Running
               /\ k \in subscribers'[socket'[k].job]
    <3>1. k \notin subscribers[j]
      BY <1>4, <2>1, Queues
    <3>2. socket'[k] = socket[k]
      BY <1>3, <3>1
    <3>3. job[socket[k].job].status \in Running /\ k \in subscribers[socket[k].job]
      BY <2>1, <3>2 DEF IInv, EndIsHeard
    <3>4. socket[k].job \in Jobs /\ socket[k].job # j
      BY <2>1, <3>1, <3>2, <3>3, OpenSocket
    <3> QED
      BY <1>1, <3>2, <3>3, <3>4
  <2>2. ASSUME NEW i \in Jobs, job'[i].status \in {"none", "gone"}
        PROVE  subscribers'[i] = {}
    BY <1>1, <1>2, <2>2 DEF IInv, EndIsHeard
  <2> QED
    BY <2>1, <2>2 DEF EndIsHeard
<1>7. Subscribed'
  <2> SUFFICES ASSUME NEW i \in Jobs, NEW k \in subscribers[i]
               PROVE  socket'[k] # NoSocket /\ socket'[k].job = i /\ socket'[k].own
    BY DEF Subscribed
  <2>1. k \in Sockets /\ socket[k] # NoSocket /\ socket[k].job = i /\ socket[k].own
    BY DEF IInv, TypeOK, Subscribed
  <2> QED
    BY <1>3, <1>4, <2>1, Records
<1>8. NotEarly'
  <2> SUFFICES ASSUME NEW i \in Jobs, job'[i].status \in Running \union {"none"},
                      NEW k \in Sockets, socket'[k] # NoSocket
               PROVE  Early(i, socket'[k])
    BY DEF NotEarly, Early
  <2>1. i # j /\ job[i] = job'[i]
    BY <1>1, <1>2
  <2>2. CASE k \in subscribers[j]
    BY <1>4, <2>1, <2>2 DEF Early
  <2>3. CASE k \notin subscribers[j]
    <3>1. socket'[k] = socket[k]
      BY <1>3, <2>3
    <3> QED
      BY <2>1, <3>1 DEF IInv, NotEarly
  <2> QED
    BY <2>2, <2>3
<1>9. Reported'
  <2>1. ASSUME NEW i \in Jobs PROVE Reports(job'[i], size'[i])
    BY <1>1 DEF IInv, Reported
  <2>2. ASSUME NEW k \in Sockets, socket'[k] # NoSocket
        PROVE  Mine(socket'[k]) /\ Told(socket'[k], size'[socket'[k].job])
    <3>1. CASE k \in subscribers[j]
      <4>1. socket[k].own
        BY <3>1 DEF IInv, Subscribed
      <4>2. socket'[k].own /\ socket'[k].told \notin Completed
        BY <1>4, <3>1, <4>1 DEF Early
      <4>3. socket'[k].queue[1] = e
        BY <1>4, <3>1, Queues
      <4> QED
        BY <1>4, <3>1, <4>2, <4>3 DEF Mine, Told
    <3>2. CASE k \notin subscribers[j]
      <4>1. socket'[k] = socket[k] /\ socket[k] \in Socket
        BY <1>3, <2>2, <3>2 DEF IInv, TypeOK
      <4>2. Mine(socket[k]) /\ Told(socket[k], size[socket[k].job])
        BY <2>2, <4>1 DEF IInv, Reported
      <4>3. socket[k].job \in Jobs
        BY <4>1 DEF Socket
      <4>4. CASE socket[k].job # j
        BY <1>1, <4>1, <4>2, <4>3, <4>4
      <4>5. CASE socket[k].job = j
        <5>1. Early(j, socket[k])
          BY <2>2, <4>1 DEF IInv, NotEarly
        <5>2. socket[k].queue = <<>> /\ socket[k].told \notin Completed
          BY <4>5, <5>1 DEF Early
        <5> QED
          BY <4>1, <4>2, <5>2 DEF Told
      <4> QED
        BY <4>4, <4>5
    <3> QED
      BY <3>1, <3>2
  <2> QED
    BY <2>1, <2>2 DEF Reported, Reports, Mine, Told
<1> QED
  BY <1>5, <1>6, <1>7, <1>8, <1>9 DEF IInv
LEMMA JobStep ==
  ASSUME IInv, NEW j \in Jobs, StartQuery(j) \/ RunJob(j) \/ Cleanup(j)
  PROVE  IInv'
<1>1. CASE StartQuery(j)
  <2>1. subscribers[j] = {}
    BY <1>1 DEF StartQuery, IInv, EndIsHeard
  <2>2. UNCHANGED subscribers
    BY <1>1, <2>1 DEF StartQuery, IInv, TypeOK
  <2>3. "describe" \in Statuses /\ "describe" \in Running
    BY DEF Statuses, Running
  <2> QED
    BY <1>1, <2>2, <2>3, SilentStep DEF StartQuery
<1>2. CASE Describe(j)
  <2>1. "select" \in Statuses /\ "select" \in Running /\ "describe" \in Running
    BY DEF Statuses, Running
  <2> QED
    BY <1>2, <2>1, SilentStep DEF Describe
<1>3. CASE QueryError(j)
  <2>1. Failure \in Ends /\ Reports(Failure, size'[j])
    BY Records DEF Reports
  <2>2. size[j] \in Sizes
    BY DEF IInv, TypeOK
  <2> QED
    BY <1>3, <2>1, <2>2, FinishStep DEF QueryError
<1>4. ASSUME NEW n \in Sizes, Select(j, n)
      PROVE  IInv'
  <2> DEFINE f == Fetched(n)
             e == [status |-> "completed",
                   rows |-> IF f > Limit THEN Limit ELSE f,
                   truncated |-> f > Limit]
  <2>1. /\ n \in Nat /\ Limit \in Nat /\ f \in Nat
        /\ f > Limit <=> n > Limit
        /\ ~ (n > Limit) => f = n
    BY LimitAssumption DEF Sizes, Fetched
  <2>2. e \in Completed
    BY <2>1 DEF Completed
  <2>3. e.truncated <=> n > Limit
    BY <2>1
  <2>4. e.rows = IF n > Limit THEN Limit ELSE n
    BY <2>1
  <2>5. n > Limit <=> n > e.rows
    BY <2>1, <2>4
  <2>6. size' = [size EXCEPT ![j] = n] /\ size'[j] = n
    BY <1>4 DEF Select, IInv, TypeOK
  <2>7. Finish(j, e) /\ job[j].status \in Running /\ UNCHANGED subscribers
    BY <1>4 DEF Select, Running
  <2> HIDE DEF e
  <2>8. e \in Ends /\ Reports(e, size'[j])
    BY <2>2, <2>3, <2>4, <2>5, <2>6 DEF Ends, Reports
  <2> QED
    BY <2>6, <2>7, <2>8, FinishStep
<1>5. CASE Cleanup(j)
  <2>1. "gone" \in Statuses
    BY DEF Statuses
  <2> QED
    BY <1>5, <2>1, SilentStep DEF Cleanup
<1> QED
  BY <1>1, <1>2, <1>3, <1>4, <1>5 DEF RunJob

LEMMA CrashStep ==
  ASSUME IInv, Crash
  PROVE  IInv'
<1>1. ASSUME NEW j \in Jobs
      PROVE  /\ job'[j] \in [status : Statuses] /\ job'[j] \notin Completed
             /\ job'[j].status \in {"none", "gone"} /\ subscribers'[j] = {}
             /\ job'[j].status = "none" => job[j].status = "none"
  <2>1. job[j].status = "none" => job[j] \notin Ends
    BY Records
  <2>2. job'[j] = IF job[j].status = "none" THEN job[j] ELSE [status |-> "gone"]
    BY DEF Crash
  <2>3. job'[j] \in [status : Statuses]
    BY <2>1, <2>2 DEF IInv, TypeOK, Statuses
  <2>4. job'[j].status \in {"none", "gone"}
    BY <2>2
  <2>5. job'[j] \notin Completed
    BY <2>4 DEF Completed
  <2> QED
    BY <2>2, <2>3, <2>4, <2>5 DEF Crash
<1>2. ASSUME NEW k \in Sockets, socket'[k] # NoSocket
      PROVE  /\ socket[k] \in Socket /\ socket[k] # NoSocket
             /\ socket'[k] \in Socket /\ socket'[k].at = "closed"
             /\ \/ socket'[k] = socket[k]
                \/ /\ socket'[k].queue = <<>> /\ socket'[k].told \notin Completed
  <2>1. CASE socket[k] = NoSocket \/ socket[k].at = "closed"
    BY <1>2, <2>1 DEF Crash, IInv, TypeOK
  <2>2. CASE ~ (socket[k] = NoSocket \/ socket[k].at = "closed")
    <3>1. socket[k] \in Socket
      BY <2>2 DEF IInv, TypeOK
    <3>2. socket'[k] = [socket[k] EXCEPT !.at = "closed", !.told = Nothing, !.queue = <<>>]
      BY <2>2 DEF Crash
    <3> QED
      BY <2>2, <3>1, <3>2, Records DEF Socket
  <2> QED
    BY <2>1, <2>2
<1>3. TypeOK'
  <2>1. job' \in [Jobs -> [status : Statuses] \union Ends]
    BY <1>1 DEF Crash
  <2>2. socket' \in [Sockets -> Socket \union {NoSocket}]
    BY <1>2 DEF Crash
  <2>3. subscribers' \in [Jobs -> SUBSET Sockets]
    BY DEF Crash
  <2> QED
    BY <2>1, <2>2, <2>3 DEF IInv, TypeOK, Crash
<1>4. EndIsHeard' /\ Subscribed'
  BY <1>1, <1>2 DEF EndIsHeard, Subscribed, NoSocket
<1>5. NotEarly'
  <2> SUFFICES ASSUME NEW j \in Jobs, job'[j].status \in Running \union {"none"},
                      NEW k \in Sockets, socket'[k] # NoSocket, socket'[k].job = j
               PROVE  socket'[k].queue = <<>> /\ socket'[k].told \notin Completed
    BY DEF NotEarly, Early
  <2>1. job[j].status = "none"
    BY <1>1 DEF Running
  <2>2. socket[k] = socket'[k] => Early(j, socket[k])
    BY <1>2, <2>1 DEF IInv, NotEarly
  <2> QED
    BY <1>2, <2>2 DEF Early
<1>6. Reported'
  <2>1. \A k \in Sockets : socket'[k] # NoSocket =>
          Mine(socket'[k]) /\ Told(socket'[k], size[socket'[k].job])
    BY <1>2 DEF IInv, Reported, Mine, Told
  <2>2. size' = size
    BY DEF Crash
  <2>3. \A j \in Jobs : Reports(job'[j], size'[j])
    BY <1>1 DEF Reports
  <2> QED
    BY <2>1, <2>2, <2>3 DEF Reported, Reports, Mine, Told
<1> QED
  BY <1>3, <1>4, <1>5, <1>6 DEF IInv

LEMMA NextIInv == ASSUME IInv, [Next]_vars PROVE IInv'
<1>1. CASE UNCHANGED vars
  BY <1>1 DEF vars, IInv, TypeOK, EndIsHeard, Subscribed, NotEarly, Early,
              Reported, Reports, Mine, Told
<1>2. ASSUME NEW k \in Sockets, Handle(k) PROVE IInv'
  BY <1>2, LookStep, PingTimeoutStep, ReceiveStep, CloseStep DEF Handle
<1> QED
  BY <1>1, <1>2, JobStep, ConnectStep, CloseStep, CrashStep DEF Next

LEMMA Inductive == Spec => []IInv
<1>1. Init => IInv
  BY InitIInv
<1>2. IInv /\ [Next]_vars => IInv'
  BY NextIInv
<1> QED
  BY <1>1, <1>2, PTL DEF Spec

-----------------------------------------------------------------------------

(* The states of jobs and sockets are what they are declared to be; above  *)
(* all a queue never holds more than the one message that broadcast puts   *)
(* into it.                                                                *)
THEOREM WorkerTypeCorrect == Spec => []TypeOK
<1>1. IInv => TypeOK
  BY DEF IInv
<1> QED
  BY <1>1, Inductive, PTL

(* However many sockets wait for a query, each that waits is subscribed to *)
(* a query that runs, or has the end in its queue: websocket_query leaves  *)
(* no gap between its look at the job and its subscription.                *)
THEOREM EveryEndIsHeard == Spec => []EndIsHeard
<1>1. IInv => EndIsHeard
  BY DEF IInv
<1> QED
  BY <1>1, Inductive, PTL

(* For any limit and any number of rows, what a socket is told is what the *)
(* query ended with, and "truncated" is said exactly when rows are missing *)
(* (run_query fetches one row more than it returns).                       *)
THEOREM SocketsAreToldTheEnd == Spec => []ToldTheEnd
<1>1. ASSUME IInv PROVE ToldTheEnd
  <2> SUFFICES ASSUME NEW k \in Sockets, socket[k] # NoSocket,
                      socket[k].told \in Completed
               PROVE  /\ socket[k].own
                      /\ socket[k].told.truncated <=>
                           size[socket[k].job] > socket[k].told.rows
                      /\ socket[k].told.rows =
                           IF size[socket[k].job] > Limit THEN Limit
                           ELSE size[socket[k].job]
    BY DEF ToldTheEnd
  <2>1. Told(socket[k], size[socket[k].job])
    BY <1>1 DEF IInv, Reported
  <2> QED
    BY <2>1 DEF Told, Reports
<1> QED
  BY <1>1, Inductive, PTL
=============================================================================
