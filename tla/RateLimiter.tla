----------------------------- MODULE RateLimiter -----------------------------
(***************************************************************************)
(* The message limits of src/v10/internal/ratelimit/controller.go:         *)
(* AllowDanmaku and AllowLike ask a token bucket of the user and then one  *)
(* of the room.  Goroutines read the clock before they lock the shard of   *)
(* the bucket, so a bucket may see times out of order, and now and then a  *)
(* caller sweeps buckets that nobody has used for a while from its shard.  *)
(*                                                                         *)
(* Time is counted in ticks, and tokens in the ticks their refill takes: a *)
(* bucket gains one unit per tick and a message costs Cost of them.  The   *)
(* rounding of the floating point numbers of the code is left out.         *)
(*                                                                         *)
(* Names that SlowClient has as well begin with Limit here, since          *)
(* ConnectionProofs extends both.                                          *)
(***************************************************************************)
EXTENDS Integers, FiniteSets

CONSTANTS
  Goroutines,               \* the readers of connections
  Keys, Shards,             \* of the limiters of one kind of message
  UserKey, RoomKey,         \* [Goroutines -> Keys]
  ShardOf,                  \* [Keys -> Shards]
  Burst, Cost,              \* [Keys -> Nat \ {0}], Rate.Burst and PerSecond
  IdleTTL,                  \* BucketIdleTTL
  MaxDelay,                 \* between reading the clock and having the lock
  MaxTime                   \* bounds a behaviour

(* A bucket is idle for much longer than it takes to fill it: ten minutes  *)
(* against two seconds in DefaultConfig.                                   *)
ASSUME LimitAssumptions ==
  /\ UserKey \in [Goroutines -> Keys]
  /\ RoomKey \in [Goroutines -> Keys]
  /\ ShardOf \in [Keys -> Shards]
  /\ Burst \in [Keys -> Nat \ {0}]
  /\ Cost \in [Keys -> Nat \ {0}]
  /\ IdleTTL \in Nat
  /\ MaxDelay \in Nat
  /\ MaxTime \in Nat \ {0}
  /\ \A k \in Keys : IdleTTL >= Burst[k] + 2 * MaxDelay

VARIABLES
  clock,
  held,                     \* the keys that have a bucket
  tokens, lastRefill, lastSeen,
  lastCleanup,              \* of a shard; 0 is the zero time
  asking,                   \* the bucket a goroutine turns to next
  reading,                  \* the clock as it has read it, 0 if it has not
  (* history *)
  ceiling, floor,           \* two perfect buckets, see WithinPerfectBuckets
  unearned                  \* keys of refusals that floor does not explain

buckets == <<held, tokens, lastRefill, lastSeen, lastCleanup>>
perfect == <<ceiling, floor>>
limitVars == <<clock, buckets, asking, reading, perfect, unearned>>

Capacity(k) == Burst[k] + MaxDelay
AtMost(limit, n) == IF n > limit THEN limit ELSE n

LimitTypeOK ==
  /\ clock \in Nat \ {0}
  /\ held \subseteq Keys
  /\ tokens \in [Keys -> Nat]
  /\ \A k \in Keys : tokens[k] <= Burst[k]
  /\ lastRefill \in [Keys -> Nat]
  /\ lastSeen \in [Keys -> Nat]
  /\ lastCleanup \in [Shards -> Nat]
  /\ asking \in [Goroutines -> {"user", "room"}]
  /\ reading \in [Goroutines -> Nat]
  /\ \A g \in Goroutines : reading[g] # 0 =>
       reading[g] <= clock /\ clock <= reading[g] + MaxDelay
  /\ ceiling \in [Keys -> Int]
  /\ floor \in [Keys -> Int]
  /\ unearned \subseteq Keys

LimitInit ==
  /\ clock = 1
  /\ held = {}
  /\ tokens = [k \in Keys |-> 0]
  /\ lastRefill = [k \in Keys |-> 0]
  /\ lastSeen = [k \in Keys |-> 0]
  /\ lastCleanup = [s \in Shards |-> 0]
  /\ asking = [g \in Goroutines |-> "user"]
  /\ reading = [g \in Goroutines |-> 0]
  /\ ceiling = [k \in Keys |-> Capacity(k)]
  /\ floor = [k \in Keys |-> Burst[k]]
  /\ unearned = {}

KeyOf(g) == IF asking[g] = "user" THEN UserKey[g] ELSE RoomKey[g]

----------------------------------------------------------------------------

(* now := l.now(), before the lock *)
ReadClock(g) ==
  /\ reading[g] = 0
  /\ reading' = [reading EXCEPT ![g] = clock]
  /\ UNCHANGED <<clock, buckets, asking, perfect, unearned>>

(* The buckets that are left after the sweep of a caller of key k. *)
Kept(k, now) ==
  LET s == ShardOf[k]
      Due == lastCleanup[s] = 0 \/ now >= lastCleanup[s] + IdleTTL
  IN  IF Due
        THEN {j \in held : ShardOf[j] = s => now < lastSeen[j] + IdleTTL}
        ELSE held

Swept(k, now) ==
  LET s == ShardOf[k] IN
    IF lastCleanup[s] = 0 \/ now >= lastCleanup[s] + IdleTTL
      THEN [lastCleanup EXCEPT ![s] = now] ELSE lastCleanup

(* Variant: without the cap at the burst. *)
RefilledUncapped(k, now) ==
  IF k \notin Kept(k, now) THEN Burst[k]
  ELSE IF now <= lastRefill[k] THEN tokens[k]
  ELSE tokens[k] + (now - lastRefill[k])

(* The tokens of k when the caller has the bucket, and since when they are *)
(* valid.  A reading older than the last refill adds nothing.              *)
Refilled(k, now) ==
  IF k \notin Kept(k, now) THEN Burst[k]
  ELSE IF now <= lastRefill[k] THEN tokens[k]
  ELSE AtMost(Burst[k], tokens[k] + (now - lastRefill[k]))

(* Variant: the clock of the bucket is set back. *)
RefilledAtReading(k, now) == now

RefilledAt(k, now) ==
  IF k \in Kept(k, now) /\ now <= lastRefill[k] THEN lastRefill[k] ELSE now

(* keyedLimiter.Allow from the lock on; spent is 0 for a refusal. *)
Take(g, k, now, spent) ==
  /\ held' = Kept(k, now) \cup {k}
  /\ lastCleanup' = Swept(k, now)
  /\ tokens' = [tokens EXCEPT ![k] = Refilled(k, now) - spent]
  /\ lastRefill' = [lastRefill EXCEPT ![k] = RefilledAt(k, now)]
  /\ lastSeen' = [lastSeen EXCEPT ![k] = now]
  /\ reading' = [reading EXCEPT ![g] = 0]
  /\ UNCHANGED clock

(* The room is asked after the user; a user's token is spent although the  *)
(* room may refuse.                                                        *)
Grant(g) ==
  LET k == KeyOf(g) now == reading[g] IN
    /\ now # 0
    /\ Refilled(k, now) >= Cost[k]
    /\ Take(g, k, now, Cost[k])
    /\ asking' = [asking EXCEPT ![g] = IF @ = "user" THEN "room" ELSE "user"]
    /\ ceiling' = [ceiling EXCEPT ![k] = @ - Cost[k]]
    /\ floor' = [floor EXCEPT ![k] = @ - Cost[k]]
    /\ UNCHANGED unearned

Refuse(g) ==
  LET k == KeyOf(g) now == reading[g] IN
    /\ now # 0
    /\ Refilled(k, now) < Cost[k]
    /\ Take(g, k, now, 0)
    /\ asking' = [asking EXCEPT ![g] = "user"]
    /\ unearned' = IF floor[k] < Cost[k] + MaxDelay THEN unearned
                     ELSE unearned \cup {k}
    /\ UNCHANGED perfect

Tick ==
  /\ clock < MaxTime
  /\ \A g \in Goroutines :
       reading[g] # 0 => clock < reading[g] + MaxDelay
  /\ clock' = clock + 1
  /\ ceiling' = [k \in Keys |-> AtMost(Capacity(k), ceiling[k] + 1)]
  /\ floor' = [k \in Keys |-> AtMost(Burst[k], floor[k] + 1)]
  /\ UNCHANGED <<buckets, asking, reading, unearned>>

LimitNext ==
  \/ \E g \in Goroutines : ReadClock(g) \/ Grant(g) \/ Refuse(g)
  \/ Tick

LimitSpec == LimitInit /\ [][LimitNext]_limitVars

----------------------------------------------------------------------------

NeverTooMany == \A k \in Keys : ceiling[k] >= 0

NeverTooFew == unearned = {}

(***************************************************************************)
(* What a limit promises whatever the order in which the readings of the   *)
(* clock arrive and whenever buckets are swept: what a key is granted in   *)
(* any span of time would also be granted by a perfect bucket that holds   *)
(* MaxDelay more, and a refusal happens only when a perfect bucket of the  *)
(* configured size would hold less than one token and MaxDelay.            *)
(***************************************************************************)
WithinPerfectBuckets == NeverTooMany /\ NeverTooFew
=============================================================================
