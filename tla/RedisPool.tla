------------------------------- MODULE RedisPool -------------------------------
(***************************************************************************)
(* The connection pool of core/redis.py (AsyncRedisClient with             *)
(* pool_size > 1): coroutines of one event loop send commands over a       *)
(* bounded set of connections. A step is what runs between two awaits. The *)
(* replies of a connection come in the order of its commands, whoever      *)
(* reads them.                                                             *)
(***************************************************************************)
EXTENDS Integers, Sequences, FiniteSets, SequencesExt

CONSTANTS
  Tasks,        \* coroutines that use the client
  PoolSize,     \* pool_size
  MaxCommands,  \* bound: commands of one task
  MaxPoolFaults     \* bound: failures, error replies, cancellations and closes

PoolAssumption ==
  /\ IsFiniteSet(Tasks)
  /\ PoolSize \in Nat \ {0} /\ {MaxCommands, MaxPoolFaults} \subseteq Nat

Nobody == 0
Conns == 1 .. PoolSize + MaxPoolFaults * Cardinality(Tasks) \* names of connections
Commands == Tasks \X (1 .. MaxCommands)

VARIABLES
  pool,     \* the idle connections of the current asyncio.Queue
  queueId,  \* which Queue object that is: close() drops it; 0 after close
  queues,   \* Queue objects created so far
  created,  \* _pool_created
  pc,       \* "idle", "wait" (pool.get), "connect", "reply" or "closing"
  waitsOn,  \* the Queue object a waiting task waits on
  held,     \* the connection a task uses
  issued,   \* commands a task has begun
  owed,     \* commands sent on a connection whose reply was not read
  answer,   \* what the last command of a task got
  shut,     \* connections close() has closed and not yet uncounted; 0: no close() runs
  leaked,   \* history: slots of _pool_created no connection stands for
  abandoned,\* history: open connections on which a reply was left unread
  discards, \* history: connections closed instead of put back
  closes, poolFaults

poolVars == <<pool, queueId, queues, created, pc, waitsOn, held, issued, owed, answer,
          shut, leaked, abandoned, discards, closes, poolFaults>>
closing == <<shut, closes>>
books == <<shut, leaked, abandoned, discards, closes>>

PoolInit ==
  /\ pool = <<>> /\ queueId = 0 /\ queues = 0 /\ created = 0
  /\ pc = [t \in Tasks |-> "idle"] /\ waitsOn = [t \in Tasks |-> 0]
  /\ held = [t \in Tasks |-> Nobody] /\ issued = [t \in Tasks |-> 0]
  /\ owed = [c \in Conns |-> <<>>] /\ answer = [t \in Tasks |-> "none"]
  /\ shut = 0 /\ leaked = 0 /\ abandoned = {} /\ discards = 0
  /\ closes = 0 /\ poolFaults = 0

PoolFault == poolFaults < MaxPoolFaults /\ poolFaults' = poolFaults + 1
Current(t) == <<t, issued[t]>>
Idle == Range(pool)
InUse == {held[t] : t \in Tasks} \ {Nobody}
Open == Idle \cup InUse
Serving == {t \in Tasks : pc[t] \in {"connect", "reply", "closing"}}
FreshConn == {c \in Conns \ Open : \A d \in Conns \ Open : c <= d} \* the first unused name

-----------------------------------------------------------------------------
(* _send_command_on_conn writes the command; its reply is still to come.   *)
SendOn(t, c) ==
  /\ held' = [held EXCEPT ![t] = c]
  /\ owed' = [owed EXCEPT ![c] = Append(@, <<t, issued'[t]>>)]
  /\ pc' = [pc EXCEPT ![t] = "reply"]

(* _acquire_connection: an idle connection, or a new one below the limit,  *)
(* or the end of the queue. The first use, and the first after close(),    *)
(* makes a new Queue and counts from zero.                                 *)
Acquire(t) ==
  LET q == IF queueId = 0 THEN queues + 1 ELSE queueId
      n == IF queueId = 0 THEN 0 ELSE created
  IN /\ pc[t] = "idle" /\ issued[t] < MaxCommands
     /\ issued' = [issued EXCEPT ![t] = @ + 1]
     /\ answer' = [answer EXCEPT ![t] = "none"]
     /\ queueId' = q /\ queues' = Max({q, queues})
     /\ IF pool # <<>>
          THEN /\ pool' = Tail(pool) /\ SendOn(t, Head(pool))
               /\ UNCHANGED <<created, waitsOn>>
        ELSE IF n < PoolSize
          THEN /\ created' = n + 1
               /\ pc' = [pc EXCEPT ![t] = "connect"]
               /\ UNCHANGED <<pool, waitsOn, held, owed>>
        ELSE /\ created' = n
             /\ pc' = [pc EXCEPT ![t] = "wait"]
             /\ waitsOn' = [waitsOn EXCEPT ![t] = q]
             /\ UNCHANGED <<pool, held, owed>>
     /\ UNCHANGED <<books, poolFaults>>

(* pool.get() returns: some waiter of this Queue gets the connection.      *)
Take(t) ==
  /\ pc[t] = "wait" /\ waitsOn[t] = queueId /\ pool # <<>>
  /\ issued' = issued
  /\ pool' = Tail(pool) /\ SendOn(t, Head(pool))
  /\ UNCHANGED <<queueId, queues, created, waitsOn, answer, books, poolFaults>>

(* _create_connection succeeds.                                            *)
Connected(t) ==
  /\ pc[t] = "connect"
  /\ issued' = issued
  /\ \E c \in FreshConn : SendOn(t, c)
  /\ UNCHANGED <<pool, queueId, queues, created, waitsOn, answer, books, poolFaults>>

Got(t, what) == answer' = [answer EXCEPT ![t] = what]

(* _create_connection raises: the slot is given back.                      *)
ConnectFails(t) ==
  /\ pc[t] = "connect" /\ PoolFault
  /\ created' = created - 1
  /\ pc' = [pc EXCEPT ![t] = "idle"] /\ Got(t, "error")
  /\ UNCHANGED <<pool, queueId, queues, waitsOn, held, issued, owed, books>>


(* _release_connection of a healthy connection: put_nowait on a full Queue *)
(* begins to close it, and without a Queue it is forgotten.                *)
Release(t, o) ==
  LET full == queueId # 0 /\ Len(pool) >= PoolSize IN
  /\ held' = [held EXCEPT ![t] = Nobody]
  /\ pc' = [pc EXCEPT ![t] = IF full THEN "closing" ELSE "idle"]
  /\ IF queueId = 0 \/ full
       THEN owed' = [o EXCEPT ![held[t]] = <<>>] /\ UNCHANGED pool
       ELSE pool' = Append(pool, held[t]) /\ owed' = o

(* A closed connection is no longer an abandoned one. *)
Kept(cs) == abandoned' = {c \in cs : owed'[c] # <<>>}

(* _read_response_from_reader: the next reply of the connection.           *)
Reply(t) ==
  LET c == held[t] IN
  /\ pc[t] = "reply"
  /\ Got(t, IF Head(owed[c]) = Current(t) THEN "own" ELSE "other")
  /\ Release(t, [owed EXCEPT ![c] = Tail(@)])
  /\ Kept(abandoned)
  /\ UNCHANGED <<queueId, queues, created, waitsOn, issued, closing, leaked, discards,
                 poolFaults>>

(* Mutant of Fails: the connection goes back with its reply unread.        *)
FailsReleased(t) ==
  /\ pc[t] = "reply" /\ PoolFault
  /\ Got(t, "error")
  /\ Release(t, owed)
  /\ Kept(abandoned)
  /\ UNCHANGED <<queueId, queues, created, waitsOn, issued, closing, leaked, discards>>

(* A transport failure or an error reply (RedisProtocolError), both of     *)
(* which are Exceptions: the connection is closed.                         *)
Fails(t) ==
  /\ pc[t] = "reply" /\ PoolFault
  /\ pc' = [pc EXCEPT ![t] = "closing"]
  /\ held' = [held EXCEPT ![t] = Nobody]
  /\ Got(t, "error")
  /\ owed' = [owed EXCEPT ![held[t]] = <<>>]
  /\ Kept(abandoned)
  /\ UNCHANGED <<pool, queueId, queues, created, waitsOn, issued, closing, leaked, discards>>

(* Mutant of Closed: the slot of a closed connection is not given back.    *)
ClosedUncounted(t) ==
  /\ pc[t] = "closing" /\ pc' = [pc EXCEPT ![t] = "idle"]
  /\ discards' = discards + 1
  /\ UNCHANGED <<pool, queueId, queues, created, waitsOn, held, issued, owed, answer,
                 closing, leaked, abandoned, poolFaults>>

(* wait_closed() returns and the slot is given back; nobody who waits is   *)
(* told.                                                                   *)
Closed(t) ==
  /\ pc[t] = "closing" /\ pc' = [pc EXCEPT ![t] = "idle"]
  /\ created' = Max({0, created - 1})
  /\ discards' = discards + 1
  /\ UNCHANGED <<pool, queueId, queues, waitsOn, held, issued, owed, answer,
                 closing, leaked, abandoned, poolFaults>>

(* Cancelled in wait_closed(): `except Exception` does not see it, and the *)
(* slot of the closed connection is not given back.                        *)
CancelClosed(t) ==
  /\ pc[t] = "closing" /\ PoolFault
  /\ pc' = [pc EXCEPT ![t] = "idle"] /\ Got(t, "cancelled")
  /\ leaked' = leaked + 1
  /\ UNCHANGED <<pool, queueId, queues, created, waitsOn, held, issued, owed,
                 closing, abandoned, discards>>

(* CancelledError is not an Exception: has_error stays False, and the      *)
(* connection goes back with a reply nobody has read.                      *)
CancelReply(t) ==
  /\ pc[t] = "reply" /\ PoolFault
  /\ Got(t, "cancelled")
  /\ Release(t, owed)
  /\ Kept(abandoned \cup {held[t]})
  /\ UNCHANGED <<queueId, queues, created, waitsOn, issued, closing, leaked, discards>>

(* Cancelled while connecting: `except Exception` does not see it, and the *)
(* slot stays taken.                                                       *)
CancelConnect(t) ==
  /\ pc[t] = "connect" /\ PoolFault
  /\ pc' = [pc EXCEPT ![t] = "idle"] /\ Got(t, "cancelled")
  /\ leaked' = leaked + 1
  /\ UNCHANGED <<pool, queueId, queues, created, waitsOn, held, issued, owed,
                 closing, abandoned, discards>>

CancelWait(t) ==
  /\ pc[t] = "wait" /\ PoolFault
  /\ pc' = [pc EXCEPT ![t] = "idle"] /\ Got(t, "cancelled")
  /\ UNCHANGED <<pool, queueId, queues, created, waitsOn, held, issued, owed, books>>

(* One turn of close(): the next idle connection is closed, and the        *)
(* coroutine waits for it; when none is left the Queue is dropped, with    *)
(* whoever waits on it, and connections in use are no longer counted.      *)
Drain ==
  /\ IF pool # <<>>
       THEN /\ pool' = Tail(pool) /\ shut' = shut + 1
            /\ owed' = [owed EXCEPT ![Head(pool)] = <<>>]
            /\ UNCHANGED <<queueId, created, closes>>
       ELSE /\ queueId' = 0 /\ created' = 0 /\ shut' = 0 /\ closes' = closes + 1
            /\ UNCHANGED <<pool, owed>>
  /\ Kept(abandoned)
  /\ UNCHANGED <<queues, pc, waitsOn, held, issued, answer, leaked, discards>>

(* close() by the client's one owner; meanwhile the tasks go on.           *)
Close == queueId # 0 /\ shut = 0 /\ PoolFault /\ Drain

CloseOn == shut > 0 /\ Drain /\ UNCHANGED poolFaults

(* close() is cancelled: the Queue stays, and so does the count.           *)
CancelClose ==
  /\ shut > 0 /\ PoolFault
  /\ shut' = 0 /\ leaked' = leaked + shut
  /\ UNCHANGED <<pool, queueId, queues, created, pc, waitsOn, held, issued, owed, answer,
                 abandoned, discards, closes>>

Serve(t) == Acquire(t) \/ Take(t) \/ Connected(t) \/ Reply(t) \/ Closed(t)
Break(t) ==
  \/ ConnectFails(t) \/ Fails(t) \/ CancelReply(t)
  \/ CancelConnect(t) \/ CancelWait(t) \/ CancelClosed(t)
PoolNext == (\E t \in Tasks : Serve(t) \/ Break(t)) \/ Close \/ CloseOn \/ CancelClose

(* Redis answers, connects within its timeout, sockets close, and the      *)
(* event loop wakes a task whose Queue has an item.                        *)
PoolFairness == (\A t \in Tasks : WF_poolVars(Serve(t))) /\ WF_poolVars(CloseOn)

PoolSpec == PoolInit /\ [][PoolNext]_poolVars /\ PoolFairness

-----------------------------------------------------------------------------
PoolTypeOK ==
  /\ pool \in Seq(Conns) /\ queueId \in {0, queues} /\ queues \in Nat
  /\ created \in Int /\ created <= PoolSize
  /\ pc \in [Tasks -> {"idle", "wait", "connect", "reply", "closing"}]
  /\ waitsOn \in [Tasks -> 0 .. queues]
  /\ held \in [Tasks -> Conns \cup {Nobody}]
  /\ issued \in [Tasks -> 0 .. MaxCommands]
  /\ owed \in [Conns -> Seq(Commands)]
  /\ answer \in [Tasks -> {"none", "own", "other", "error", "cancelled"}]
  /\ abandoned \subseteq Conns
  /\ {shut, leaked, discards, closes} \subseteq Nat /\ poolFaults \in 0 .. MaxPoolFaults

(* A connection is idle once or used by one task, and until the pool is    *)
(* closed _pool_created is off by exactly what cancellations lost: it      *)
(* counts the idle connections, the tasks that make, use or close one,     *)
(* those a running close() has closed, and the slots of the coroutines     *)
(* cancelled while connecting, while closing one, or in close(). It never  *)
(* exceeds pool_size.                                                      *)
ConnectionsAccounted ==
  /\ IsInjective(pool) /\ Idle \cap InUse = {}
  /\ \A t, u \in Tasks : held[t] = held[u] /\ held[t] # Nobody => t = u
  /\ closes = 0 => created = Len(pool) + Cardinality(Serving) + shut + leaked
  /\ created <= PoolSize

(* A command is answered with the reply of another one only on a           *)
(* connection that a cancelled command abandoned before: failures, error   *)
(* replies and close() never misalign commands and replies.                *)
OwnReply ==
  /\ \A c \in Idle \ abandoned : owed[c] = <<>>
  /\ \A t \in Tasks :
       held[t] \in Conns \ abandoned => owed[held[t]] = <<Current(t)>>

=============================================================================
