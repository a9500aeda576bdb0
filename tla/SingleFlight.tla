---------------------------- MODULE SingleFlight ----------------------------
(***************************************************************************)
(* get_or_compute of core/cache.py: the summaries of the dashboard, the    *)
(* trends, the regions and the map are read through Redis, and a lock lets *)
(* one request compute what the cache lacks while others wait.             *)
(*                                                                         *)
(* One cache key.  The database is a counter of its changes, and a summary *)
(* is the count it was computed from.  What an EXPIRE removes may vanish   *)
(* at any time: the entry lives ten seconds, the lock five, and a          *)
(* computation may be slower than either.                                  *)
(***************************************************************************)
EXTENDS Naturals, FiniteSets

CONSTANTS
  Requests,   \* requests for the key
  MaxChanges, \* bound: changes of the database
  MaxCacheFaults   \* bound: failed Redis calls, failed computations, expired locks

ASSUME FlightAssumption == {MaxChanges, MaxCacheFaults} \subseteq Nat

VARIABLES
  db,     \* changes committed
  entry,  \* the cache entry, Nothing when there is none
  stale,  \* the copy kept for an hour
  lock,   \* whether the lock key exists
  step,   \* what each request does next
  since,  \* changes committed when it was made
  value,  \* what it has computed
  reply,  \* what it was answered
  overran,\* history: a lock expired before its winner deleted it
  cacheFaults

cacheVars == <<db, entry, stale, lock, step, since, value, reply, overran, cacheFaults>>

Nothing == MaxChanges + 1
Steps == {"idle", "look", "acquire", "compute", "store", "keep", "release",
          "wait", "fallback", "direct", "done", "failed"}

CacheInit ==
  /\ db = 0 /\ entry = Nothing /\ stale = Nothing /\ lock = FALSE
  /\ step = [r \in Requests |-> "idle"]
  /\ since = [r \in Requests |-> 0]
  /\ value = [r \in Requests |-> Nothing]
  /\ reply = [r \in Requests |-> Nothing]
  /\ overran = FALSE /\ cacheFaults = 0

CacheFault == cacheFaults < MaxCacheFaults /\ cacheFaults' = cacheFaults + 1

Goes(r, next) == step' = [step EXCEPT ![r] = next]
Answer(r, v) == Goes(r, "done") /\ reply' = [reply EXCEPT ![r] = v]

Change ==
  /\ db < MaxChanges /\ db' = db + 1
  /\ UNCHANGED <<entry, stale, lock, step, since, value, reply, overran, cacheFaults>>

Ask(r) ==
  /\ step[r] = "idle" /\ Goes(r, "look")
  /\ since' = [since EXCEPT ![r] = db]
  /\ UNCHANGED <<db, entry, stale, lock, value, reply, overran, cacheFaults>>

Look(r) ==
  /\ step[r] = "look"
  /\ IF entry # Nothing THEN Answer(r, entry) ELSE Goes(r, "acquire") /\ UNCHANGED reply
  /\ UNCHANGED <<db, entry, stale, lock, since, value, overran, cacheFaults>>

\* A Redis that does not answer the first two calls is done without, even if
\* it has taken the lock.
Bypass(r) ==
  /\ step[r] \in {"look", "acquire"} /\ CacheFault
  /\ Goes(r, "direct")
  /\ lock' \in IF step[r] = "acquire" THEN {lock, TRUE} ELSE {lock}
  /\ UNCHANGED <<db, entry, stale, since, value, reply, overran>>

\* Mutant of AcquireLock: SET without NX.
AcquireAlways(r) ==
  /\ step[r] = "acquire" /\ lock' = TRUE /\ Goes(r, "compute")
  /\ UNCHANGED <<db, entry, stale, since, value, reply, overran, cacheFaults>>

AcquireLock(r) ==
  /\ step[r] = "acquire"
  /\ lock' = TRUE
  /\ Goes(r, IF lock THEN "wait" ELSE "compute")
  /\ UNCHANGED <<db, entry, stale, since, value, reply, overran, cacheFaults>>

Compute(r) ==
  /\ step[r] = "compute" /\ Goes(r, "store")
  /\ value' = [value EXCEPT ![r] = db]
  /\ UNCHANGED <<db, entry, stale, lock, since, reply, overran, cacheFaults>>

\* The entry first, then the copy; a failed write is logged.
Store(r) ==
  /\ step[r] = "store" /\ Goes(r, "keep")
  /\ entry' = value[r]
  /\ UNCHANGED <<db, stale, lock, since, value, reply, overran, cacheFaults>>

Keep(r) ==
  /\ step[r] = "keep" /\ Goes(r, "release")
  /\ stale' = value[r]
  /\ UNCHANGED <<db, entry, lock, since, value, reply, overran, cacheFaults>>

\* The write may have happened.
StoreFails(r) ==
  /\ step[r] \in {"store", "keep"} /\ CacheFault /\ Goes(r, "release")
  /\ entry' \in IF step[r] = "store" THEN {entry, value[r]} ELSE {entry}
  /\ stale' \in IF step[r] = "keep" THEN {stale, value[r]} ELSE {stale}
  /\ UNCHANGED <<db, lock, since, value, reply, overran>>

\* The finally clause deletes the lock, whosever it is by now; a computation
\* that raised has no value, and its request no answer.
ReleaseLock(r) ==
  /\ step[r] = "release"
  /\ lock' = FALSE
  /\ IF value[r] = Nothing THEN Goes(r, "failed") /\ UNCHANGED reply ELSE Answer(r, value[r])
  /\ UNCHANGED <<db, entry, stale, since, value, overran, cacheFaults>>

ReleaseFails(r) ==
  /\ step[r] = "release" /\ CacheFault
  /\ lock' \in {lock, FALSE}
  /\ IF value[r] = Nothing THEN Goes(r, "failed") /\ UNCHANGED reply ELSE Answer(r, value[r])
  /\ UNCHANGED <<db, entry, stale, since, value, overran>>

ComputeFails(r) ==
  /\ step[r] = "compute" /\ CacheFault /\ Goes(r, "release")
  /\ UNCHANGED <<db, entry, stale, lock, since, value, reply, overran>>

\* The losers look again for two seconds, and until a call fails, then for
\* the copy, then help themselves.
Found(r) ==
  /\ step[r] = "wait" /\ entry # Nothing /\ Answer(r, entry)
  /\ UNCHANGED <<db, entry, stale, lock, since, value, overran, cacheFaults>>

GiveUp(r) ==
  /\ step[r] = "wait" /\ Goes(r, "fallback")
  /\ UNCHANGED <<db, entry, stale, lock, since, value, reply, overran, cacheFaults>>

Fallback(r) ==
  /\ step[r] = "fallback"
  /\ IF stale # Nothing THEN Answer(r, stale) ELSE Goes(r, "direct") /\ UNCHANGED reply
  /\ UNCHANGED <<db, entry, stale, lock, since, value, overran, cacheFaults>>

FallbackFails(r) ==
  /\ step[r] = "fallback" /\ CacheFault /\ Goes(r, "direct")
  /\ UNCHANGED <<db, entry, stale, lock, since, value, reply, overran>>

Direct(r) ==
  /\ step[r] = "direct" /\ Answer(r, db)
  /\ UNCHANGED <<db, entry, stale, lock, since, value, overran, cacheFaults>>

DirectFails(r) ==
  /\ step[r] = "direct" /\ CacheFault /\ Goes(r, "failed")
  /\ UNCHANGED <<db, entry, stale, lock, since, value, reply, overran>>

Winners == {r \in Requests : step[r] \in {"compute", "store", "keep", "release"}}

Expire ==
  /\ \/ entry # Nothing /\ entry' = Nothing /\ UNCHANGED <<stale, lock, overran, cacheFaults>>
     \/ stale # Nothing /\ stale' = Nothing /\ UNCHANGED <<entry, lock, overran, cacheFaults>>
     \/ /\ lock /\ CacheFault
        /\ lock' = FALSE
        /\ overran' = (overran \/ Winners # {})
        /\ UNCHANGED <<entry, stale>>
  /\ UNCHANGED <<db, step, since, value, reply>>

Step(r) ==
  \/ Look(r) \/ AcquireLock(r) \/ Compute(r) \/ Store(r) \/ Keep(r) \/ ReleaseLock(r)
  \/ Found(r) \/ GiveUp(r) \/ Fallback(r) \/ Direct(r)
CacheFails(r) ==
  \/ Bypass(r) \/ ComputeFails(r) \/ StoreFails(r) \/ ReleaseFails(r)
  \/ FallbackFails(r) \/ DirectFails(r)

CacheNext == Change \/ Expire \/ \E r \in Requests : Ask(r) \/ Step(r) \/ CacheFails(r)

CacheSpec == CacheInit /\ [][CacheNext]_cacheVars

-----------------------------------------------------------------------------
(* "Uses SET NX lock so only one concurrent request computes on a miss"    *)
(* (cache.py:42), as long as no lock expires under its winner: and then    *)
(* nobody puts a summary in the cache that is older than the copy kept of  *)
(* an earlier one, so what the cache serves never goes back.               *)
SingleWinner ==
  overran \/ /\ Cardinality(Winners) <= 1
             /\ \A r \in Requests :
                  step[r] \in {"store", "keep"} /\ stale # Nothing => value[r] >= stale

(* "triggering an immediate background REST refetch" (docs/USER_GUIDE.md):  *)
(* a dashboard that is fetched because of a change shows it.               *)
RefetchShowsChange ==
  \A r \in Requests : step[r] = "done" => reply[r] >= since[r]
=============================================================================
