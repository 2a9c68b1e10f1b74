------------------------------ MODULE QueryWorker ------------------------------
(***************************************************************************)
(* Queries in the background and the sockets that wait for their end:      *)
(* services/query_worker.py and the execute and websocket routes of        *)
(* routers/ai.py.                                                          *)
(*                                                                         *)
(* A query is two awaited statements, DESCRIBE and SELECT; what it ends    *)
(* with is stored in _jobs, put into the queue of every subscriber, and    *)
(* thrown away after five minutes.  A socket looks at the job once, then   *)
(* waits for its queue, with a ping every second.  Everything between two  *)
(* awaits is one step: put on an unbounded queue and subscribe() do not    *)
(* give up the event loop.  cancel_query changes nothing: it interrupts a  *)
(* per-session connection, and none is ever opened, because the context    *)
(* variable that selects it is not seen on the executor's threads.         *)
(***************************************************************************)
EXTENDS Naturals, Sequences

CONSTANTS
  Jobs,     (* query ids                                                   *)
  Sockets,  (* websockets; each is opened once                             *)
  Limit,    (* rows a query returns at most (1000)                         *)
  MaxSize   (* bound: rows of a query                                      *)

ASSUME LimitAssumption == Limit \in Nat /\ MaxSize \in Nat

VARIABLES
  job,          (* _jobs: how far a query is, and what it ended with       *)
  subscribers,  (* _subscribers                                            *)
  socket,       (* the websocket handlers                                  *)
  size          (* history variable: rows of a query, when it was run      *)

vars == <<job, subscribers, socket, size>>

-----------------------------------------------------------------------------

Sizes == 0 .. MaxSize
Completed == [status : {"completed"}, rows : 0 .. Limit, truncated : BOOLEAN]
Failure == [status |-> "error"]
Unknown == [status |-> "unknown"]
Ends == Completed \union {Failure}

(* "none": not started; "gone": forgotten, or lost with the process.       *)
Running == {"describe", "select"}
Statuses == {"none", "gone"} \union Running

Nothing == [status |-> "nothing"]
Socket == [at : {"closed", "accept", "tell", "ping", "wait"}, job : Jobs,
           own : BOOLEAN, queue : {<<>>} \union {<<e>> : e \in Ends},
           told : Ends \union {Unknown, Nothing}]
NoSocket == [at |-> "new"]

TypeOK ==
  /\ job \in [Jobs -> [status : Statuses] \union Ends]
  /\ subscribers \in [Jobs -> SUBSET Sockets]
  /\ socket \in [Sockets -> Socket \union {NoSocket}]
  /\ size \in [Jobs -> Sizes]

Init ==
  /\ job = [j \in Jobs |-> [status |-> "none"]]
  /\ subscribers = [j \in Jobs |-> {}]
  /\ socket = [k \in Sockets |-> NoSocket]
  /\ size = [j \in Jobs |-> 0]

-----------------------------------------------------------------------------
(* Queries.                                                                *)

(* execute_query, when the statement has passed alias resolution and the   *)
(* validator.                                                              *)
StartQuery(j) ==
  /\ job[j].status = "none"
  /\ job' = [job EXCEPT ![j] = [status |-> "describe"]]
  /\ subscribers' = [subscribers EXCEPT ![j] = {}]
  /\ UNCHANGED <<socket, size>>

Describe(j) ==
  /\ job[j].status = "describe"
  /\ job' = [job EXCEPT ![j] = [status |-> "select"]]
  /\ UNCHANGED <<subscribers, socket, size>>

(* The end is stored and put into the queues of all subscribers.           *)
Finish(j, end) ==
  /\ job' = [job EXCEPT ![j] = end]
  /\ socket' = [k \in Sockets |->
       IF k \in subscribers[j]
       THEN [socket[k] EXCEPT !.queue = Append(@, end)] ELSE socket[k]]

(* (Variant: the SELECT asks for no more than the limit.)                  *)
FetchedNoMore(n) == IF n > Limit THEN Limit ELSE n

(* SELECT ... LIMIT limit + 1: one row more than is sent tells whether     *)
(* there are more.                                                         *)
Fetched(n) == IF n > Limit + 1 THEN Limit + 1 ELSE n

(* (Variant: the extra row is sent too.)                                   *)
SelectUntrimmed(j, n) ==
  /\ job[j].status = "select"
  /\ Finish(j, [status |-> "completed", rows |-> Fetched(n),
                truncated |-> Fetched(n) > Limit])
  /\ size' = [size EXCEPT ![j] = n]
  /\ UNCHANGED subscribers

Select(j, n) ==
  LET f == Fetched(n)
  IN /\ job[j].status = "select"
     /\ Finish(j, [status |-> "completed", rows |-> IF f > Limit THEN Limit ELSE f,
                   truncated |-> f > Limit])
     /\ size' = [size EXCEPT ![j] = n]
     /\ UNCHANGED subscribers

(* (Variant: an error is stored, but nobody is told.)                      *)
QueryErrorUnheard(j) ==
  /\ job[j].status \in Running
  /\ job' = [job EXCEPT ![j] = Failure]
  /\ UNCHANGED <<subscribers, socket, size>>

(* A statement fails; so does a DESCRIBE without columns.                  *)
QueryError(j) ==
  /\ job[j].status \in Running
  /\ Finish(j, Failure)
  /\ UNCHANGED <<subscribers, size>>

(* _cleanup_later, five minutes after the end.                             *)
Cleanup(j) ==
  /\ job[j] \in Ends
  /\ job' = [job EXCEPT ![j] = [status |-> "gone"]]
  /\ subscribers' = [subscribers EXCEPT ![j] = {}]
  /\ UNCHANGED <<socket, size>>

-----------------------------------------------------------------------------
(* Sockets.                                                                *)

Put(k, s) == socket' = [socket EXCEPT ![k] = s]

(* A client opens a socket for a query of its session, or of another.      *)
Connect(k, j, own) ==
  /\ socket[k] = NoSocket
  /\ Put(k, [at |-> "accept", job |-> j, own |-> own, queue |-> <<>>,
             told |-> Nothing])
  /\ UNCHANGED <<job, subscribers, size>>

(* What the handler is to send at once, given the state of the job.        *)
Answer(k, state) ==
  IF ~ socket[k].own \/ state.status \in {"none", "gone"} THEN Unknown
  ELSE IF state \in Ends THEN state ELSE Nothing

Greet(k, answer) ==
  LET s == socket[k]
  IN /\ s.at = "accept"
     /\ IF answer = Nothing
        THEN /\ Put(k, [s EXCEPT !.at = "ping"])
             /\ subscribers' = [subscribers EXCEPT ![s.job] = @ \union {k}]
        ELSE /\ Put(k, [s EXCEPT !.at = "tell", !.told = answer])
             /\ subscribers' = subscribers
     /\ UNCHANGED <<job, size>>

(* (Variant: the job is looked up before accept() is awaited; by now it    *)
(* may have ended.)                                                        *)
LookEarlier(k) ==
  /\ socket[k].at = "accept"
  /\ \E state \in {job[socket[k].job], [status |-> "select"]} :
       Greet(k, Answer(k, state))

(* The socket is accepted: the handler looks the job up and subscribes, or *)
(* sends how it ended.                                                     *)
Look(k) == socket[k].at = "accept" /\ Greet(k, Answer(k, job[socket[k].job]))

(* The ping has been sent.                                                 *)
Ping(k) ==
  /\ socket[k].at = "ping"
  /\ Put(k, [socket[k] EXCEPT !.at = "wait"])
  /\ UNCHANGED <<job, subscribers, size>>

(* wait_for: a message, or a second without one.                           *)
Receive(k) ==
  LET s == socket[k]
  IN /\ s.at = "wait"
     /\ s.queue # <<>>
     /\ Put(k, [s EXCEPT !.at = "tell", !.told = Head(s.queue),
                         !.queue = Tail(s.queue)])
     /\ UNCHANGED <<job, subscribers, size>>

Timeout(k) ==
  /\ socket[k].at = "wait"
  /\ socket[k].queue = <<>>
  /\ Put(k, [socket[k] EXCEPT !.at = "ping"])
  /\ UNCHANGED <<job, subscribers, size>>

Close(k, told) ==
  /\ Put(k, [socket[k] EXCEPT !.at = "closed", !.told = told, !.queue = <<>>])
  /\ subscribers' = [subscribers EXCEPT ![socket[k].job] = @ \ {k}]
  /\ UNCHANGED <<job, size>>

(* The end has been sent: the socket is unsubscribed and closed.           *)
Tell(k) == socket[k].at = "tell" /\ Close(k, socket[k].told)

(* The client has gone away, which only a send notices.                    *)
Disconnect(k) ==
  socket[k].at \in {"accept", "tell", "ping"} /\ Close(k, Nothing)

(* The process ends: jobs, subscribers and sockets with it.                *)
Crash ==
  /\ job' = [j \in Jobs |-> IF job[j].status = "none" THEN job[j]
                            ELSE [status |-> "gone"]]
  /\ subscribers' = [j \in Jobs |-> {}]
  /\ socket' = [k \in Sockets |->
       IF socket[k] = NoSocket \/ socket[k].at = "closed" THEN socket[k]
       ELSE [socket[k] EXCEPT !.at = "closed", !.told = Nothing, !.queue = <<>>]]
  /\ UNCHANGED size

-----------------------------------------------------------------------------

RunJob(j) ==
  Describe(j) \/ QueryError(j) \/ \E n \in Sizes : Select(j, n)

Handle(k) ==
  Look(k) \/ Ping(k) \/ Receive(k) \/ Timeout(k) \/ Tell(k)

Next ==
  \/ \E j \in Jobs : StartQuery(j) \/ RunJob(j) \/ Cleanup(j)
  \/ \E k \in Sockets :
       \/ \E j \in Jobs, own \in BOOLEAN : Connect(k, j, own)
       \/ Handle(k)
       \/ Disconnect(k)
  \/ Crash

(* Statements end, with a result or an error, and the event loop goes on.  *)
Fairness ==
  /\ \A j \in Jobs : WF_vars(RunJob(j))
  /\ \A k \in Sockets : WF_vars(Handle(k))

Spec == Init /\ [][Next]_vars /\ Fairness

-----------------------------------------------------------------------------

(* A socket that is waiting will hear of the end: either the query is      *)
(* running and the socket is among its subscribers, or the end is already  *)
(* in its queue.  There is no gap between the look at the job and the      *)
(* subscription.  And subscribers are kept only of jobs that are kept, so  *)
(* that the cleanup leaves nothing behind.                                 *)
EndIsHeard ==
  /\ \A k \in Sockets : socket[k].at \in {"ping", "wait"} =>
       LET s == socket[k]
       IN \/ job[s.job].status \in Running /\ k \in subscribers[s.job]
          \/ s.queue # <<>>
  /\ \A j \in Jobs : job[j].status \in {"none", "gone"} => subscribers[j] = {}

(* What a socket is told of the end of its query is how the query ended:   *)
(* "truncated" if and only if there were more rows than it is sent.        *)
(* Whether it subscribed before the end or came after it makes no          *)
(* difference, and after the cleanup it is told nothing old.               *)
ToldTheEnd ==
  \A k \in Sockets :
    socket[k] # NoSocket /\ socket[k].told \in Completed =>
      LET s == socket[k]
          n == size[s.job]
      IN /\ s.own
         /\ s.told.truncated <=> n > s.told.rows
         /\ s.told.rows = IF n > Limit THEN Limit ELSE n

(* Every socket that is opened is closed in the end: no handler pings      *)
(* forever.                                                                *)
EverySocketCloses ==
  \A k \in Sockets : socket[k].at = "accept" ~> socket[k].at = "closed"

=============================================================================
