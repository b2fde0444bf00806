-------------------------------- MODULE Lifespan --------------------------------
(* api/server.py, create_app and lifespan: from a configuration to a server that  *)
(* serves, and down again, with the throttler (module Throttler) it starts and    *)
(* stops on the way. The steps between two awaits that wait for nobody (from_url  *)
(* connects to nothing yet) are actions of their own, since each can fail.        *)
EXTENDS Throttler, Sequences, FiniteSets

CONSTANTS Files, Environments,   \* what the configuration is loaded from
          ProbeTimeout,          \* vllm.timeout_seconds, in ticks
          LifeFaults             \* subset of {"dribble", "close_raises"}

ASSUME ProbeAssumption == ProbeTimeout \in Nat \ {0}

(* An instance of the file is one of the four kinds Configuration tells apart.    *)
ASSUME FilesAssumption ==
  \A file \in Files :
    /\ file.form = "sections" /\ "vllm" \in DOMAIN file.of
    /\ file.of["vllm"].form = "given" /\ "instances" \in DOMAIN file.of["vllm"].fields
    => file.of["vllm"].fields["instances"] \in Seq({"http", "other", "no_text", "bad_mapping"})

VARIABLES stage,
          config,     \* of it, what is still needed
          at,         \* the client the loop at hand has come to
          probeWait,  \* which of its waits for the network a probe has come to
          spent,      \* ticks in that wait
          elapsed,    \* history: ticks since the probes began
          dribbled,   \* history: has a probe been answered in parts?
          open,       \* the clients left open
          raised      \* the client whose close raised, 0 for none

Config == INSTANCE Configuration

life == <<stage, config, at, probeWait, spent, elapsed, dribbled, open, raised>>
lifeVars == <<vars, life>>

(* The longest a probe lasts whose answer comes at once when it comes.            *)
ProbeLimit == Waits * ProbeTimeout

Starting == {"loading", "loaded", "probing", "caching", "throttling", "coalescing"}
NotLoaded == [instances |-> 0, redis |-> "", cache |-> {}, admission |-> {}]

(* The clients in the order in which they are closed: one per instance, then the  *)
(* cache's, then the coalescer's.                                                 *)
Cache == config.instances + 1
Redis == config.instances + 2

LifeTypeOK ==
  /\ TypeOK
  /\ stage \in Starting \cup {"refused", "failed", "serving", "stopping", "down"}
  /\ at \in 0..Redis /\ raised \in 0..Redis /\ open \subseteq 1..Redis
  /\ probeWait \in 1..Waits /\ spent \in 0..ProbeTimeout /\ elapsed \in Nat /\ dribbled \in BOOLEAN

LifeInit ==
  /\ Init
  /\ stage = "loading" /\ config = NotLoaded
  /\ at = 0 /\ probeWait = 1 /\ spent = 0 /\ elapsed = 0 /\ dribbled = FALSE
  /\ open = {} /\ raised = 0

Step(from, to) == stage = from /\ stage' = to

--------------------------------------------------------------------------------

Needed(c) == [instances |-> Len(c.vllm.instances), redis |-> c.redis.url,
              cache |-> c.cache, admission |-> c.admission]

Load ==
  /\ stage = "loading"
  /\ \E file \in Files, env \in Environments :
       LET loaded == Config!LoadConfig(file, env)
       IN IF loaded.error = "none"
          THEN stage' = "loaded" /\ config' = Needed(loaded.config)
          ELSE stage' = "refused" /\ UNCHANGED config
  /\ UNCHANGED <<vars, at, probeWait, spent, elapsed, dribbled, open, raised>>

(* BackendPool refuses to be empty.                                               *)
MakePool ==
  /\ Step("loaded", IF config.instances > 0 THEN "probing" ELSE "failed")
  /\ at' = 1
  /\ UNCHANGED <<vars, config, probeWait, spent, elapsed, dribbled, open, raised>>

(* is_available says no to whatever goes wrong, a timeout included; the probe has *)
(* a client of its own, which has to connect and is closed before the next.       *)
ProbeEnds(available) ==
  /\ stage = "probing"
  /\ available => probeWait = Waits
  /\ IF available \/ at = config.instances
     THEN stage' = "caching" /\ UNCHANGED at
     ELSE at' = at + 1 /\ UNCHANGED stage
  /\ probeWait' = 1 /\ spent' = 0
  /\ UNCHANGED <<vars, config, elapsed, dribbled, open, raised>>

(* The timeout is one of each wait for the network: this one is over.             *)
ProbeAdvances ==
  /\ stage = "probing" /\ probeWait < Waits
  /\ probeWait' = probeWait + 1 /\ spent' = 0
  /\ UNCHANGED <<vars, stage, config, at, elapsed, dribbled, open, raised>>

Dribble ==
  /\ "dribble" \in LifeFaults
  /\ stage = "probing" /\ probeWait = Waits /\ spent > 0
  /\ spent' = 0 /\ dribbled' = TRUE
  /\ UNCHANGED <<vars, stage, config, at, probeWait, elapsed, open, raised>>

(* Slip for the mutation runs: the probe is made without a timeout.               *)
ProbeTicksOn ==
  /\ stage = "probing"
  /\ spent' = IF spent < ProbeTimeout THEN spent + 1 ELSE spent
  /\ elapsed' = IF elapsed <= config.instances * ProbeLimit THEN elapsed + 1 ELSE elapsed
  /\ UNCHANGED <<vars, stage, config, at, probeWait, dribbled, open, raised>>

(* elapsed stops where the property below no longer tells.                        *)
ProbeTick ==
  /\ stage = "probing" /\ spent < ProbeTimeout
  /\ spent' = spent + 1
  /\ elapsed' = IF elapsed <= config.instances * ProbeLimit THEN elapsed + 1 ELSE elapsed
  /\ UNCHANGED <<vars, stage, config, at, probeWait, dribbled, open, raised>>

(* from_url refuses a url without a scheme of Redis; RedisCache checks again, and *)
(* keeps its ttl as an int.                                                       *)
ConnectCache ==
  /\ stage = "caching"
  /\ LET usable == /\ config.redis = "redis"
                   /\ Config!PassesPositive(config.cache.max_size)
                   /\ Config!PassesPositive(config.cache.ttl_seconds)
                   /\ Config!ConvertsToInt(config.cache.ttl_seconds)
     IN /\ stage' = IF config.cache.enabled => usable THEN "throttling" ELSE "failed"
        /\ open' = IF config.cache.enabled /\ usable THEN {Cache} ELSE {}
  /\ at' = 0 /\ elapsed' = 0 /\ dribbled' = FALSE
  /\ UNCHANGED <<vars, config, probeWait, spent, raised>>

(* The throttler's limits are checked whether or not it is to be started.         *)
StartThrottler ==
  /\ stage = "throttling"
  /\ LET soft == config.admission.soft_limit
         hard == config.admission.hard_limit
         usable == 0 < soft /\ soft < hard /\ hard <= Full
     IN /\ stage' = IF usable THEN "coalescing" ELSE "failed"
        /\ IF usable /\ config.admission.enabled THEN Start ELSE UNCHANGED vars
  /\ UNCHANGED <<config, at, probeWait, spent, elapsed, dribbled, open, raised>>

ConnectCoalescer ==
  /\ Step("coalescing", IF config.redis = "redis" THEN "serving" ELSE "failed")
  /\ open' = IF config.redis = "redis" THEN open \cup {Redis} ELSE open
  /\ UNCHANGED <<vars, config, at, probeWait, spent, elapsed, dribbled, raised>>

--------------------------------------------------------------------------------

(* The first call of a backend makes its client.                                  *)
Use(b) ==
  /\ stage = "serving"
  /\ open' = open \cup {b}
  /\ UNCHANGED <<vars, stage, config, at, probeWait, spent, elapsed, dribbled, raised>>

StopThrottler ==
  /\ Step("serving", "stopping")
  /\ IF Running THEN Stop ELSE UNCHANGED vars
  /\ at' = 1
  /\ UNCHANGED <<config, probeWait, spent, elapsed, dribbled, open, raised>>

(* Slip for the mutation runs: the coalescer's client goes with the cache.        *)
CloseUnlessNoCache ==
  /\ stage = "stopping"
  /\ open' = open \ {at}
  /\ IF at = Redis \/ (at = Cache /\ ~config.cache.enabled)
     THEN stage' = "down" /\ UNCHANGED at
     ELSE at' = at + 1 /\ UNCHANGED stage
  /\ UNCHANGED <<vars, config, probeWait, spent, elapsed, dribbled, raised>>

Close ==
  /\ stage = "stopping"
  /\ open' = open \ {at}
  /\ IF at = Redis THEN stage' = "down" /\ UNCHANGED at
                   ELSE at' = at + 1 /\ UNCHANGED stage
  /\ UNCHANGED <<vars, config, probeWait, spent, elapsed, dribbled, raised>>

(* Nothing catches what a close raises.                                           *)
CloseRaises ==
  /\ "close_raises" \in LifeFaults
  /\ at \in open
  /\ Step("stopping", "down")
  /\ raised' = at
  /\ UNCHANGED <<vars, config, at, probeWait, spent, elapsed, dribbled, open>>

(* The poll task and vLLM, while the rest stands still: it does not get its turn  *)
(* before start-up is over.                                                       *)
Poll ==
  /\ stage # "coalescing"
  /\ \/ Fetch \/ NextWait \/ Trickle \/ PollSucceeds \/ PollFails \/ PollFindsNothing
     \/ Pressure \/ Tick
  /\ UNCHANGED life

LifeNext ==
  \/ Load \/ MakePool \/ \E available \in BOOLEAN : ProbeEnds(available)
  \/ ProbeAdvances \/ Dribble \/ ProbeTick
  \/ ConnectCache \/ StartThrottler \/ ConnectCoalescer
  \/ \E b \in 1..config.instances : Use(b)
  \/ StopThrottler \/ Close \/ CloseRaises \/ Poll

LifeSpec == LifeInit /\ [][LifeNext]_lifeVars

(* For PressurePasses, as in Throttler.                                           *)
FairLifeSpec ==
  /\ LifeSpec
  /\ WF_vars(Tick /\ Poll) /\ WF_vars(Fetch /\ Poll)
  /\ \A w \in 1..Waits : SF_vars(NextWait /\ wait = w /\ Poll)
  /\ SF_vars(PollSucceeds /\ Poll)

--------------------------------------------------------------------------------

(* A configuration that loads is one the parts can be made from: the checks of    *)
(* config.py imply those of BackendPool, RedisCache and AdaptiveThrottler, for    *)
(* every mixture of sections left out or given, and environment. Two things can   *)
(* still stop the server: the url of Redis, which config.py does not look at, and *)
(* a ttl of the cache that passes both checks and is then no int.                 *)
AcceptedConfigStarts ==
  stage = "failed" =>
    \/ config.redis # "redis"
    \/ config.cache.enabled /\ ~Config!ConvertsToInt(config.cache.ttl_seconds)

(* The probes of start-up hold it up by one timeout per instance and wait for the *)
(* network at most, as long as what is sent is sent at once (the loop of          *)
(* lifespan; is_available).                                                       *)
ProbesAreBounded ==
  ~dribbled => elapsed <= config.instances * ProbeLimit

(* A server that is down has stopped its poll task and closed every client it     *)
(* opened; when a close raises, those it had come to and after are still open.    *)
(* A start-up that fails leaves at most the poll task, and that only without the  *)
(* cache, whose connection would have failed first.                               *)
NothingIsLeftOpen ==
  /\ stage = "down" => ~Running /\ open \subseteq (IF raised = 0 THEN {} ELSE raised..Redis)
  /\ stage = "failed" => open = {} /\ (Running => ~config.cache.enabled)

================================================================================
