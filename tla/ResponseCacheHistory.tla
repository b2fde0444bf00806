-------------------------- MODULE ResponseCacheHistory --------------------------
(* ResponseCache with history variables: which calls have had Redis to           *)
(* themselves so far, and what has gone wrong. No action of the cache reads them. *)
EXTENDS ResponseCache

VARIABLES alone,      \* clients whose current call no other call has overlapped
          overlapped, \* have two calls ever overlapped?
          abandoned,  \* has a call ever been left half-way?
          ghosts      \* has the ZADD of a hit ever added a member?

hvars == <<live, score, clock, local, alone, overlapped, abandoned, ghosts>>

HInit ==
  Init /\ alone = {} /\ overlapped = FALSE /\ abandoned = FALSE /\ ghosts = FALSE

(* A call is alone while every other client has been idle since it began.        *)
Overlaps(c) == \E d \in Clients \ {c} : local[d] # Idle \/ local'[d] # Idle

(* A call that is abandoned may look like one that is done, so this tells which.  *)
HNext ==
  /\ \/ /\ (\E c \in Clients : Step(c)) \/ (\E k \in Keys : Expire(k))
        /\ UNCHANGED abandoned
     \/ /\ \E c \in Clients : Abandon(c)
        /\ abandoned' = TRUE
  /\ alone' = {c \in Clients : /\ local'[c] # Idle
                               /\ local[c] = Idle \/ c \in alone
                               /\ ~Overlaps(c)}
  /\ overlapped' = (overlapped \/ \E c \in Clients : local'[c] # Idle /\ Overlaps(c))
  /\ ghosts' = (ghosts \/ \E c \in Clients : Touch(c) /\ local[c].key \notin Tracked)

HSpec == HInit /\ [][HNext]_hvars

--------------------------------------------------------------------------------

(* A value no eviction can find stays until its TTL is over and does not count   *)
(* against max_size. Calls one after another never leave one, even if workers    *)
(* die between any two commands; calls that overlap do (a put between the DEL    *)
(* and the ZREM of an eviction or an invalidation).                              *)
LiveIsTracked == ~overlapped => live \subseteq Tracked

(* Calls that come to their end leave the sorted set within max_size, whatever   *)
(* overlaps and expires, although a put evicts what a count and a list read      *)
(* earlier say: nothing but the ZADD of a hit that adds its key again breaks the *)
(* bound, and calls one after another have no such hit.                          *)
BoundedBetweenCalls ==
  ~abandoned /\ ~(overlapped /\ ghosts) => SettledWithinMaxSize

(* The cache heals: overlapping calls and workers that died half-way leave       *)
(* members beyond max_size and values nobody tracks, but the next put that       *)
(* evicts with nobody interfering brings the set back within max_size, by        *)
(* removing exactly the overflow it counted.                                     *)
LonePutRestoresBound ==
  [][\A c \in alone : Untrack(c) => Cardinality(Tracked') = MaxSize]_hvars

(* A use makes its key the newest member, whatever the set went through before:  *)
(* get and put read the time before they send it, so this takes a call with      *)
(* nobody in between; calls that overlap may make a key look older than it is.   *)
LoneUseIsNewest ==
  [][\A c \in alone :
       Touch(c) \/ Store(c)
         => \A k \in Keys \ {local[c].key} : score'[k] < score'[local[c].key]]_hvars

(* The cache is LRU, as its module says in line 3: an eviction nobody interferes *)
(* with drops values, and forgets members, only of keys used less recently than  *)
(* every key it keeps, so a put never evicts what it has just stored.             *)
LoneEvictionIsLRU ==
  [][\A c \in alone :
       Drop(c) \/ Untrack(c)
         => \A k \in local[c].keys, j \in Tracked \ local[c].keys : score[k] < score[j]]_hvars

================================================================================
