--------------------------- MODULE RetrieverClient ---------------------------
(***************************************************************************)
(* AsyncHybridRetrieverClient: many trajectories of one event loop put     *)
(* their queries into one bounded queue; one task drains it into batches,  *)
(* posts each batch with retries and resolves the futures the trajectories *)
(* await.  close() puts a sentinel behind the queries already queued.      *)
(*                                                                         *)
(* A step is what a coroutine does between two awaits, or less.  A query   *)
(* is named by its caller and turn, and so is the document list the        *)
(* service finds for it.  The queue is an asyncio.Queue: a put on a full   *)
(* queue waits in putters, each get wakes the first of them, and a woken   *)
(* putter that finds the slot taken goes to the back.                      *)
(***************************************************************************)
EXTENDS Integers, Sequences, SequencesExt

CONSTANTS Callers,         \* trajectories, and Owner, the `async with' block
          Owner,
          Turns,           \* bound: queries of one trajectory
          MaxBatch,        \* maximum_batch_queries
          QueueFactor,     \* slots of the queue per MaxBatch, 4 in the code
          NetworkRetries   \* network_retries

ASSUME ClientConstants ==
  /\ Owner \notin Callers
  /\ {Turns, MaxBatch, QueueFactor} \subseteq Nat \ {0}
  /\ NetworkRetries \in Nat

VARIABLES
  call,       \* what each trajectory awaits
  turn,       \* the turn of its current or last query
  answer,     \* the documents its last query was answered with
  queue,      \* items of _queue
  putters,    \* puts waiting for a slot
  woken,      \* puts whose waiter is resolved and that have not run yet
  worker,     \* where _batch_loop is
  batch,      \* items it has taken
  stopping,   \* stop_after_batch
  attempt,    \* failed posts of this batch
  closing     \* how far close() got

callVars == <<call, turn, answer>>
queueVars == <<queue, putters, woken>>
workerVars == <<worker, batch, stopping, attempt>>
vars == <<callVars, queueVars, workerVars, closing>>

Item == (Callers \X (1 .. Turns)) \union {<<Owner, 0>>}
Sentinel == <<Owner, 0>>
NoAnswer == <<>>

QueueFull == Len(queue) >= QueueFactor * MaxBatch
Pending == {c \in Callers : call[c] \in {"putting", "awaiting"}}
FutureOpen(item) == call[item[1]] = "awaiting" /\ turn[item[1]] = item[2]
-----------------------------------------------------------------------------
(* The queue                                                                *)

(* put() up to its first await: into the queue, or among the putters.       *)
Put(p, item) ==
  IF QueueFull
  THEN putters' = Append(putters, p) /\ UNCHANGED <<queue, woken>>
  ELSE queue' = Append(queue, item) /\ UNCHANGED <<putters, woken>>

(* get() of a queue that holds an item.                                     *)
Get ==
  /\ queue # <<>>
  /\ queue' = Tail(queue)
  /\ IF putters = <<>>
     THEN UNCHANGED <<putters, woken>>
     ELSE putters' = Tail(putters) /\ woken' = woken \union {Head(putters)}

(* A put continues after its await.                                         *)
PutResumes(p, item) ==
  /\ p \in woken
  /\ woken' = woken \ {p}
  /\ IF QueueFull
     THEN putters' = Append(putters, p) /\ UNCHANGED queue
     ELSE queue' = Append(queue, item) /\ UNCHANGED putters
-----------------------------------------------------------------------------
(* The trajectories                                                         *)

(* retrieve_one: start() creates session and batch task once, and raises on *)
(* a closed client; then the query is put.                                  *)
RetrieveOne(c) ==
  /\ call[c] = "idle"
  /\ turn[c] < Turns
  /\ IF closing # "open"
     THEN /\ call' = [call EXCEPT ![c] = "raised"]
          /\ UNCHANGED <<turn, answer, queueVars, worker>>
     ELSE /\ turn' = [turn EXCEPT ![c] = @ + 1]
          /\ answer' = [answer EXCEPT ![c] = NoAnswer]
          /\ call' = [call EXCEPT ![c] = IF QueueFull THEN "putting"
                                                      ELSE "awaiting"]
          /\ Put(c, <<c, turn'[c]>>)
          /\ worker' = IF worker = "absent" THEN "get" ELSE worker
  /\ UNCHANGED <<batch, stopping, attempt, closing>>

(* health() opens the session and the batch task too.                       *)
Health ==
  /\ closing = "open"
  /\ worker = "absent"
  /\ worker' = "get"
  /\ UNCHANGED <<callVars, queueVars, batch, stopping, attempt, closing>>

QueryPut(c) ==
  /\ PutResumes(c, <<c, turn[c]>>)
  /\ call' = [call EXCEPT ![c] = IF QueueFull THEN @ ELSE "awaiting"]
  /\ UNCHANGED <<turn, answer, workerVars, closing>>
-----------------------------------------------------------------------------
(* _batch_loop                                                              *)

TakeFirst ==
  /\ worker = "get"
  /\ Get
  /\ IF Head(queue) = Sentinel
     THEN worker' = "ended" /\ UNCHANGED batch
     ELSE worker' = "collect" /\ batch' = <<Head(queue)>>
  /\ attempt' = 0
  /\ UNCHANGED <<callVars, stopping, closing>>

(* Defect: the sentinel ends the loop at once, the batch in hand with it.   *)
StopAtSentinel ==
  /\ worker = "collect"
  /\ Len(batch) < MaxBatch
  /\ Get
  /\ IF Head(queue) = Sentinel
     THEN worker' = "ended" /\ batch' = <<>>
     ELSE batch' = Append(batch, Head(queue)) /\ UNCHANGED worker
  /\ UNCHANGED <<callVars, stopping, attempt, closing>>

(* Defect: the sentinel closes the batch and is forgotten.                  *)
ForgetSentinel ==
  /\ worker = "collect"
  /\ Len(batch) < MaxBatch
  /\ Get
  /\ IF Head(queue) = Sentinel
     THEN worker' = "post" /\ UNCHANGED batch
     ELSE batch' = Append(batch, Head(queue)) /\ UNCHANGED worker
  /\ UNCHANGED <<callVars, stopping, attempt, closing>>

TakeMore ==
  /\ worker = "collect"
  /\ Len(batch) < MaxBatch
  /\ Get
  /\ IF Head(queue) = Sentinel
     THEN worker' = "post" /\ stopping' = TRUE /\ UNCHANGED batch
     ELSE batch' = Append(batch, Head(queue)) /\ UNCHANGED <<worker, stopping>>
  /\ UNCHANGED <<callVars, attempt, closing>>

(* The batch is full, or its 2 to 5 ms have passed.                         *)
StopCollecting ==
  /\ worker = "collect"
  /\ worker' = "post"
  /\ UNCHANGED <<callVars, queueVars, batch, stopping, attempt, closing>>

(* Back to the head of the loop, or out of it.                              *)
BatchDone ==
  /\ worker' = IF stopping THEN "ended" ELSE "get"
  /\ batch' = <<>>
  /\ UNCHANGED <<queueVars, turn, stopping, attempt, closing>>

(* Futures still open get their documents: the i-th list is for the i-th    *)
(* query.                                                                   *)
Deliver(found) ==
  LET slots == {i \in DOMAIN batch : i \in DOMAIN found /\ FutureOpen(batch[i])}
      slotOf(c) == CHOOSE i \in slots : batch[i][1] = c
      Served == {batch[i][1] : i \in slots}
  IN  /\ answer' = [c \in Callers |-> IF c \in Served THEN found[slotOf(c)]
                                                      ELSE answer[c]]
      /\ call' = [c \in Callers |-> IF c \in Served THEN "idle" ELSE call[c]]

(* Every future of the batch that is still open raises.                     *)
RaiseAll(items) ==
  /\ call' = [c \in Callers |->
                IF \E i \in DOMAIN items : items[i][1] = c /\ FutureOpen(items[i])
                THEN "raised" ELSE call[c]]
  /\ UNCHANGED answer

(* The service answers a batch in its order; a broken one leaves one out.  *)
Replies == {batch} \union {RemoveAt(batch, lost) : lost \in DOMAIN batch}

(* Defect: lists and queries are zipped without comparing their number.     *)
ZipShortReply ==
  /\ worker = "post"
  /\ \E found \in Replies : Deliver(found)
  /\ BatchDone

PostAnswered ==
  /\ worker = "post"
  /\ \E found \in Replies :
       IF Len(found) = Len(batch) THEN Deliver(found) ELSE RaiseAll(batch)
  /\ BatchDone

(* Defect: one retry too many.                                              *)
RetryOnceMore ==
  /\ worker = "post"
  /\ IF attempt <= NetworkRetries
     THEN /\ attempt' = attempt + 1
          /\ UNCHANGED <<callVars, queueVars, worker, batch, stopping, closing>>
     ELSE RaiseAll(batch) /\ BatchDone

(* Defect: only the query that opened the batch hears of the failure.       *)
RaiseFirst ==
  /\ worker = "post"
  /\ IF attempt < NetworkRetries
     THEN /\ attempt' = attempt + 1
          /\ UNCHANGED <<callVars, queueVars, worker, batch, stopping, closing>>
     ELSE RaiseAll(<<Head(batch)>>) /\ BatchDone

(* A connection error, a timeout or a 5xx: retried, and raised after the    *)
(* last attempt.                                                            *)
PostFails ==
  /\ worker = "post"
  /\ IF attempt < NetworkRetries
     THEN /\ attempt' = attempt + 1
          /\ UNCHANGED <<callVars, queueVars, worker, batch, stopping, closing>>
     ELSE RaiseAll(batch) /\ BatchDone

(* A 4xx, or a payload that is not a document list: raised at once.         *)
PostRejected ==
  /\ worker = "post"
  /\ RaiseAll(batch)
  /\ BatchDone
-----------------------------------------------------------------------------
(* close(), from an `async with' block that gathers the calls: it is left   *)
(* when every call has returned or when one has raised, others still under  *)
(* way.  The client of the rollout is never closed.                         *)

Close ==
  /\ closing = "open"
  /\ \/ \A c \in Callers : call[c] = "idle" /\ turn[c] = Turns
     \/ \E c \in Callers : call[c] = "raised"
  /\ IF worker = "absent"
     THEN closing' = "closed" /\ UNCHANGED queueVars
     ELSE /\ Put(Owner, Sentinel)
          /\ closing' = IF QueueFull THEN "putting" ELSE "joining"
  /\ UNCHANGED <<callVars, workerVars>>

SentinelPut ==
  /\ PutResumes(Owner, Sentinel)
  /\ closing' = IF QueueFull THEN "putting" ELSE "joining"
  /\ UNCHANGED <<callVars, workerVars>>

WorkerJoined ==
  /\ closing = "joining"
  /\ worker = "ended"
  /\ closing' = "closed"
  /\ UNCHANGED <<callVars, queueVars, workerVars>>

(* asyncio.run cancels the calls that are left.                             *)
CancelCalls ==
  /\ closing = "closed"
  /\ Pending # {}
  /\ call' = [c \in Callers |-> IF c \in Pending THEN "cancelled" ELSE call[c]]
  /\ putters' = <<>>
  /\ woken' = {}
  /\ UNCHANGED <<turn, answer, queue, workerVars, closing>>
-----------------------------------------------------------------------------
Init ==
  /\ call = [c \in Callers |-> "idle"]
  /\ turn = [c \in Callers |-> 0]
  /\ answer = [c \in Callers |-> NoAnswer]
  /\ queue = <<>>
  /\ putters = <<>>
  /\ woken = {}
  /\ worker = "absent"
  /\ batch = <<>>
  /\ stopping = FALSE
  /\ attempt = 0
  /\ closing = "open"

Worker == TakeFirst \/ TakeMore \/ StopCollecting
          \/ PostAnswered \/ PostFails \/ PostRejected

Closer == SentinelPut \/ WorkerJoined \/ CancelCalls

Next == Worker \/ Health \/ Close \/ Closer
        \/ \E c \in Callers : RetrieveOne(c) \/ QueryPut(c)

(* The event loop runs every ready coroutine, and aiohttp's total timeout   *)
(* ends every post.  Whether a caller asks again or the client is closed is *)
(* up to them.                                                              *)
Spec == Init /\ [][Next]_vars
        /\ WF_vars(Worker) /\ WF_vars(Closer)
        /\ \A c \in Callers : WF_vars(QueryPut(c))
-----------------------------------------------------------------------------
(* Every variable keeps its type: the queue never exceeds its slots and no  *)
(* batch is posted more than network_retries + 1 times.                     *)
TypeOK ==
  /\ call \in [Callers -> {"idle", "putting", "awaiting", "raised",
                           "cancelled"}]
  /\ turn \in [Callers -> 0 .. Turns]
  /\ answer \in [Callers -> Item \union {NoAnswer}]
  /\ queue \in Seq(Item) /\ Len(queue) <= QueueFactor * MaxBatch
  /\ putters \in Seq(Callers \union {Owner})
  /\ woken \subseteq Callers \union {Owner}
  /\ worker \in {"absent", "get", "collect", "post", "ended"}
  /\ batch \in Seq(Item \ {Sentinel}) /\ Len(batch) <= MaxBatch
  /\ stopping \in BOOLEAN
  /\ attempt \in 0 .. NetworkRetries
  /\ closing \in {"open", "putting", "joining", "closed"}

(* A trajectory gets the documents of the query it asked, whatever the      *)
(* batch held besides and whatever the service left out of its reply.       *)
AnswersMatch ==
  \A c \in Callers : call[c] = "idle" /\ turn[c] > 0 => answer[c] = <<c, turn[c]>>

(* A call that waits is held by exactly one place that will answer it: its  *)
(* put among the putters, or its query in the queue or in the batch.  Only  *)
(* what entered the queue behind the sentinel is left when the loop ended.  *)
EveryCallIsHeld ==
  \A c \in Callers :
    /\ call[c] = "putting" =>
         IF c \in woken THEN c \notin ToSet(putters)
                        ELSE \E i \in DOMAIN putters :
                               \A j \in DOMAIN putters : putters[j] = c <=> j = i
    /\ call[c] = "awaiting" =>
         \E i \in DOMAIN (batch \o queue) :
           \A j \in DOMAIN (batch \o queue) :
             (batch \o queue)[j] = <<c, turn[c]>> <=> j = i

(* No call waits for ever: it is answered, it raises, or, if the client is  *)
(* closed with the call under way, it is cancelled.  And close() returns:   *)
(* its sentinel gets a slot and the loop sees it.                           *)
EveryCallReturns ==
  /\ \A c \in Callers : c \in Pending ~> c \notin Pending
  /\ closing # "open" ~> closing = "closed"
=============================================================================
