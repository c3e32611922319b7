------------------------------ MODULE EvalCache ------------------------------
(***************************************************************************)
(* The exact evaluation cache the workers share, together with the two     *)
(* things that make its version tag delicate: the weight swap (weights     *)
(* under a lock, version bumped after its release) and the worker's round  *)
(* trip (version read before the wait, read again after it).               *)
(*   source: crates/mantis-selfplay/src/queues/eval_cache.rs,              *)
(*           crates/mantis-selfplay/src/runner/search_drive.rs,            *)
(*           src/mantis/selfplay/inference_server.py (load_state_dict_safe)*)
(*                                                                         *)
(* The shards share nothing, so one shard is modelled and Keys are the     *)
(* leaf keys that fall into it.  An evaluation is the net that produced it *)
(* and its size; nets are numbered by the swap that installed them, the    *)
(* way model_version numbers them.  A worker's batch of misses is one key: *)
(* two workers stand for two keys of a batch.                              *)
(***************************************************************************)
EXTENDS Integers, Sequences, FiniteSets, FiniteSetsExt

CONSTANTS
    Workers,
    Keys,
    Sizes,          \* CachedEval::bytes() of the evaluations met
    PerShard,       \* capacity / EVAL_CACHE_SHARDS
    PerShardBytes,  \* byte_budget / EVAL_CACHE_SHARDS
    MaxSwaps,       \* bound: weight swaps in one behaviour
    NoKey

ASSUME CacheAssumption ==
    /\ Sizes \subseteq Nat /\ PerShard \in Nat /\ PerShardBytes \in Nat
    /\ MaxSwaps \in Nat

VARIABLES
    version, bytes, map, order,  \* the Shard
    net,                         \* the weights the server computes with
    model_version,               \* the batcher's atomic
    swapping,                    \* load_state_dict_safe is between its two steps
    pc, key, ver, eval           \* each worker's infer_and_expand_graph

shardVars == <<version, bytes, map, order>>
serverVars == <<net, model_version, swapping>>
workerVars == <<pc, key, ver, eval>>
cacheVars == <<version, bytes, map, order, net, model_version, swapping, pc, key,
               ver, eval>>

Eval == [net : Nat, size : Nat]
NoEval == [net |-> 0, size |-> 0]

CacheInit ==
    /\ version = 0 /\ bytes = 0 /\ order = <<>> /\ map = [k \in {} |-> NoEval]
    /\ net = 0 /\ model_version = 0 /\ swapping = FALSE
    /\ pc = [w \in Workers |-> "idle"] /\ key = [w \in Workers |-> NoKey]
    /\ ver = [w \in Workers |-> 0] /\ eval = [w \in Workers |-> NoEval]

-----------------------------------------------------------------------------
(* The weight swap.                                                        *)

SwapWeights ==
    /\ ~swapping /\ net < MaxSwaps
    /\ net' = net + 1
    /\ swapping' = TRUE
    /\ UNCHANGED <<shardVars, model_version, workerVars>>

BumpVersion ==
    /\ swapping
    /\ model_version' = model_version + 1
    /\ swapping' = FALSE
    /\ UNCHANGED <<shardVars, net, workerVars>>

-----------------------------------------------------------------------------
(* A worker's round trip.                                                  *)

ReadVersion == model_version

LoadVersion(w, k) ==
    /\ pc[w] = "idle"
    /\ pc' = [pc EXCEPT ![w] = "get"]
    /\ key' = [key EXCEPT ![w] = k]
    /\ ver' = [ver EXCEPT ![w] = ReadVersion]
    /\ UNCHANGED <<shardVars, serverVars, eval>>

Off == PerShard = 0 \/ PerShardBytes = 0

Hit(k, v) == ~Off /\ version = v /\ k \in DOMAIN map

\* A hit is served from the map; a miss goes to the server.
Get(w) ==
    /\ pc[w] = "get"
    /\ IF Hit(key[w], ver[w])
       THEN /\ pc' = [pc EXCEPT ![w] = "idle"]
            /\ eval' = [eval EXCEPT ![w] = map[key[w]]]
       ELSE /\ pc' = [pc EXCEPT ![w] = "wait"]
            /\ UNCHANGED eval
    /\ UNCHANGED <<shardVars, serverVars, key, ver>>

\* The server's forward for this leaf, under the weights lock.
Forward(w) ==
    /\ pc[w] = "wait"
    /\ \E size \in Sizes : eval' = [eval EXCEPT ![w] = [net |-> net, size |-> size]]
    /\ pc' = [pc EXCEPT ![w] = "answered"]
    /\ UNCHANGED <<shardVars, serverVars, key, ver>>

Storable_Always(w) == TRUE

Storable(w) == model_version = ver[w]

\* The version is read again; an evaluation that may straddle a bump is served
\* and not stored.
CheckStorable(w) ==
    /\ pc[w] = "answered"
    /\ pc' = [pc EXCEPT ![w] = IF Storable(w) THEN "put" ELSE "idle"]
    /\ UNCHANGED <<shardVars, serverVars, key, ver, eval>>

\* put(): refusals first.

Refused(w) == Off \/ eval[w].size > PerShardBytes \/ ver[w] < version

\* The shard as a newer version finds it: cleared.
KeptOrder_Stale(w) == order

KeptOrder(w) == IF ver[w] > version THEN <<>> ELSE order

KeptKeys(w) == IF ver[w] > version THEN {} ELSE DOMAIN map

Held(w) == key[w] \in KeptKeys(w)

SizeOf(S) == MapThenSumSet(LAMBDA k : map[k].size, S)

KeptBytes(w) == IF ver[w] > version THEN 0 ELSE bytes

Front(s, n) == {s[i] : i \in 1..n}

\* After the n oldest are evicted there is room for one more entry.
Fits(w, n) ==
    /\ Len(KeptOrder(w)) - n < PerShard
    /\ KeptBytes(w) - SizeOf(Front(KeptOrder(w), n)) + eval[w].size <= PerShardBytes

\* evict_oldest is called for as long as the new entry does not fit.
Evictions(w) == CHOOSE n \in 0..Len(KeptOrder(w)) :
                    Fits(w, n) /\ \A m \in 0..(n-1) : ~Fits(w, m)

Put(w) ==
    /\ pc[w] = "put"
    /\ pc' = [pc EXCEPT ![w] = "idle"]
    /\ IF Refused(w)
       THEN UNCHANGED shardVars
       ELSE IF Held(w)
       THEN UNCHANGED shardVars
       ELSE LET n == Evictions(w)
                gone == Front(KeptOrder(w), n)
                keys == KeptKeys(w) \ gone
            IN /\ version' = ver[w]
               /\ bytes' = KeptBytes(w) - SizeOf(gone) + eval[w].size
               /\ order' = Append(SubSeq(KeptOrder(w), n + 1, Len(KeptOrder(w))), key[w])
               /\ map' = [k \in keys \union {key[w]} |->
                            IF k = key[w] THEN eval[w] ELSE map[k]]
    /\ UNCHANGED <<serverVars, key, ver, eval>>

-----------------------------------------------------------------------------
CacheNext ==
    \/ SwapWeights
    \/ BumpVersion
    \/ \E w \in Workers : \/ \E k \in Keys : LoadVersion(w, k)
                          \/ Get(w)
                          \/ Forward(w)
                          \/ CheckStorable(w)
                          \/ Put(w)

CacheSpec == CacheInit /\ [][CacheNext]_cacheVars

-----------------------------------------------------------------------------
(* Properties.                                                             *)

CacheTypeOK ==
    /\ version \in Nat /\ bytes \in Int /\ order \in Seq(Keys)
    /\ DOMAIN map \subseteq Keys /\ \A k \in DOMAIN map : map[k] \in Eval
    /\ net \in Nat /\ model_version \in Nat /\ swapping \in BOOLEAN
    /\ pc \in [Workers -> {"idle", "get", "wait", "answered", "put"}]
    /\ key \in [Workers -> Keys \union {NoKey}]
    /\ ver \in [Workers -> Nat] /\ eval \in [Workers -> Eval]

\* A cached evaluation is never older than the version it is filed under, and
\* at most the one swap whose bump was still to come newer: a hit never serves
\* a net that was replaced before the worker read its version.
NetWithinOneSwap ==
    \A k \in DOMAIN map : map[k].net \in {version, version + 1}

\* The shard agrees with itself: the map and the eviction order hold the same
\* keys, each listed once, the byte counter is the sum of their sizes (so eviction
\* neither runs out of entries nor underflows), and both budgets hold.
ShardConsistent ==
    /\ Front(order, Len(order)) = DOMAIN map
    /\ \A i, j \in 1..Len(order) : order[i] = order[j] => i = j
    /\ bytes = SizeOf(DOMAIN map)
    /\ Len(order) <= PerShard /\ bytes <= PerShardBytes

=============================================================================
