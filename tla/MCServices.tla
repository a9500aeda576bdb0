----------------------------- MODULE MCServices -----------------------------
(***************************************************************************)
(* What serves the browsers: realtime delivery to one of them, the pool of *)
(* Redis connections, and the summaries read through the cache.  A         *)
(* behaviour is of the one "focus" names; the others stay as they began.   *)
(***************************************************************************)
EXTENDS EventStream, RedisPool, SingleFlight

VARIABLE focus

all == <<focus, streamVars, poolVars, cacheVars>>

ASSUME StreamAssumption /\ PoolAssumption

Streaming(A) == focus = "events" /\ A /\ UNCHANGED <<focus, poolVars, cacheVars>>
Pooling(A) == focus = "pool" /\ A /\ UNCHANGED <<focus, streamVars, cacheVars>>
Caching(A) == focus = "cache" /\ A /\ UNCHANGED <<focus, streamVars, poolVars>>

AllInit == focus \in {"events", "pool", "cache"} /\ StreamInit /\ PoolInit /\ CacheInit

AllNext == Streaming(StreamNext) \/ Pooling(PoolNext) \/ Caching(CacheNext)

\* The fairness of each component, for the one that runs.
AllFairness ==
  /\ WF_all(Streaming(Subscribe)) /\ WF_all(Streaming(CheckOldest))
  /\ WF_all(Streaming(Replay)) /\ WF_all(Streaming(Send)) /\ WF_all(Streaming(Broadcast))
  /\ WF_all(Streaming(Deliver)) /\ WF_all(Streaming(Refetch))
  /\ (\A t \in Tasks : WF_all(Pooling(Serve(t)))) /\ WF_all(Pooling(CloseOn))

AllSpec == AllInit /\ [][AllNext]_all /\ AllFairness
=============================================================================
