----------------------------- MODULE LifespanProofs -----------------------------
(* Start-up and shutdown for any files, environments, limits and times: accepted  *)
(* configurations start, probes are bounded, nothing is left open, and the        *)
(* throttler is used as its own specification allows.                             *)
EXTENDS Lifespan, ThrottlerProofs

(* What the constructors of the parts ask of a configuration.                     *)
Usable(c) ==
  /\ c.instances \in Nat \ {0}
  /\ Config!PassesPositive(c.cache.max_size) /\ Config!PassesPositive(c.cache.ttl_seconds)
  /\ 0 < c.admission.soft_limit
  /\ c.admission.soft_limit < c.admission.hard_limit
  /\ c.admission.hard_limit <= Full

(* A section that is accepted has passed its check.                               *)
LEMMA CacheSection ==
  ASSUME NEW raw, NEW given, NEW s,
         s = Config!Section(raw, given, Config!CacheConfig(given)), s.error = "none"
  PROVE  Config!PassesPositive(s.config.max_size) /\ Config!PassesPositive(s.config.ttl_seconds)
  BY DEF Config!Section, Config!CacheConfig, Config!Accepted, Config!Error

LEMMA AdmissionSection ==
  ASSUME NEW raw, NEW given, NEW s,
         s = Config!Section(raw, given, Config!AdmissionConfig(given)), s.error = "none"
  PROVE  /\ 0 < s.config.soft_limit
         /\ s.config.soft_limit < s.config.hard_limit
         /\ s.config.hard_limit <= Full
  BY DEF Config!Section, Config!AdmissionConfig, Config!Accepted, Config!Error

(* A section of backends that is accepted names at least one.                     *)
LEMMA VLLMSection ==
  ASSUME NEW raw, NEW env,
         raw.form = "given" /\ "instances" \in DOMAIN raw.fields
           => raw.fields["instances"] \in Seq({"http", "other", "no_text", "bad_mapping"}),
         Config!VLLMConfig(raw, env).error = "none"
  PROVE  Len(Config!VLLMConfig(raw, env).config.instances) \in Nat \ {0}
<1> DEFINE given == Config!Given(raw, Config!VLLMDefaults)
           kept == Config!Instances(given.instances, env)
           vllm == [given EXCEPT !.instances = kept]
<1>1. given.instances =
        IF raw.form = "given" /\ "instances" \in DOMAIN raw.fields
        THEN raw.fields["instances"] ELSE <<"http">>
  BY DEF Config!Given, Config!VLLMDefaults
<1>2. given.instances \in Seq({"http", "other", "no_text", "bad_mapping"})
  <2>1. <<"http">> \in Seq({"http", "other", "no_text", "bad_mapping"})
    OBVIOUS
  <2> HIDE DEF given
  <2>2. QED
    BY <1>1, <2>1
<1>3. vllm.instances = kept
  BY DEF Config!Given, Config!VLLMDefaults
<1>4. kept # <<>> => Len(kept) \in Nat \ {0}
  <2>1. CASE env = "unset"
    BY <1>2, <2>1 DEF Config!Instances
  <2>2. CASE env # "unset"
    BY <2>2 DEF Config!Instances
  <2>3. QED
    BY <2>1, <2>2
<1>5. Config!VLLMFields(vllm) /\ Config!VLLMConfig(raw, env).config = vllm
  BY DEF Config!VLLMConfig, Config!Accepted, Config!Error
<1>6. kept # <<>>
  BY <1>3, <1>5 DEF Config!VLLMFields
<1>7. QED
  BY <1>3, <1>4, <1>5, <1>6

(* A configuration that loads has passed the checks of all sections.              *)
LEMMA LoadedIsUsable ==
  ASSUME NEW file \in Files, NEW env,
         Config!LoadConfig(file, env).error = "none"
  PROVE  Usable(Needed(Config!LoadConfig(file, env).config))
<1> DEFINE parts == Config!Parts(file, env)
           loaded == Config!LoadConfig(file, env)
           vllm == Config!RawSection(file, "vllm")
<1>1. DOMAIN parts = 1..8
  BY DEF Config!Parts
<1> DEFINE wrong == {i \in 1..8 : parts[i].error # "none"}
           first == CHOOSE i \in wrong : \A j \in wrong : i <= j
<1>2. wrong # {} => first \in wrong
  <2> SUFFICES ASSUME wrong # {} PROVE \E i \in wrong : \A j \in wrong : i <= j
    OBVIOUS
  <2>1. QED
    OBVIOUS
<1>3. wrong # {} => parts[first].error # "none"
  BY <1>2
<1>4. /\ wrong = {}
      /\ loaded.config.vllm = parts[1].config
      /\ loaded.config.cache = parts[5].config
      /\ loaded.config.admission = parts[6].config
  <2> HIDE DEF parts
  <2>1. loaded = IF file.form = "missing" THEN Config!Error("FileNotFoundError")
                 ELSE IF file.form \in {"not_yaml", "not_a_mapping"}
                      THEN Config!Error("ConfigurationError")
                 ELSE IF wrong # {} THEN parts[first]
                 ELSE Config!Accepted([vllm |-> parts[1].config, redis |-> parts[2].config,
                        cache |-> parts[5].config, admission |-> parts[6].config])
    BY <1>1 DEF Config!LoadConfig, parts
  <2>2. QED
    BY <1>3, <2>1 DEF Config!Error, Config!Accepted
<1>5. parts[1].error = "none" /\ parts[5].error = "none" /\ parts[6].error = "none"
  BY <1>4
<1>6. Len(parts[1].config.instances) \in Nat \ {0}
  <2>1. parts[1] = Config!VLLMConfig(vllm, env.vllm)
    BY DEF Config!Parts
  <2>2. vllm.form = "given" /\ "instances" \in DOMAIN vllm.fields
          => vllm.fields["instances"] \in Seq({"http", "other", "no_text", "bad_mapping"})
    BY FilesAssumption DEF Config!RawSection, Config!Missing
  <2>3. QED
    BY <1>5, <2>1, <2>2, VLLMSection
<1>7. /\ Config!PassesPositive(parts[5].config.max_size)
      /\ Config!PassesPositive(parts[5].config.ttl_seconds)
  BY <1>5, CacheSection DEF Config!Parts
<1>8. /\ 0 < parts[6].config.soft_limit
      /\ parts[6].config.soft_limit < parts[6].config.hard_limit
      /\ parts[6].config.hard_limit <= Full
  BY <1>5, AdmissionSection DEF Config!Parts
<1>9. QED
  BY <1>4, <1>6, <1>7, <1>8 DEF Usable, Needed

--------------------------------------------------------------------------------
(* The stages of start-up and shutdown: what is configured, started and open.     *)
Stages == Starting \cup {"refused", "failed", "serving", "stopping", "down"}

ConfigInv ==
  /\ stage \in {"loading", "refused"} => config = NotLoaded
  /\ stage \notin {"loading", "refused"} => Usable(config)
  /\ AcceptedConfigStarts

(* The poll task is started late, and stopped first.                              *)
TaskInv ==
  /\ stage \in {"loading", "refused", "loaded", "probing", "caching", "throttling"}
       => phase = "off"
  /\ stage \in {"stopping", "down"} => ~Running
  /\ stage = "failed" /\ Running => ~config.cache.enabled

(* Of the clients, those before at are closed, and nobody opens one by then.      *)
OpenInv ==
  /\ stage \in {"loading", "refused", "loaded", "probing", "caching", "failed"} => open = {}
  /\ stage \in {"throttling", "coalescing"} =>
       open = IF config.cache.enabled THEN {Cache} ELSE {}
  /\ stage \in {"throttling", "coalescing"} /\ config.cache.enabled => config.redis = "redis"
  /\ stage = "serving" => open \subseteq 1..Redis
  /\ stage = "stopping" => open \subseteq at..Redis
  /\ stage = "down" => open \subseteq (IF raised = 0 THEN {} ELSE raised..Redis)

(* Each probe begun adds its limit at most, the running one what its waits have   *)
(* taken.                                                                         *)
Probed == WaitCost(probeWait, ProbeTimeout) + spent

ProbeInv ==
  /\ stage \in {"loading", "refused", "loaded"} => elapsed = 0
  /\ stage = "probing" /\ ~dribbled => elapsed <= (at - 1) * ProbeLimit + Probed
  /\ stage = "caching" /\ ~dribbled => elapsed <= config.instances * ProbeLimit
  /\ stage = "failed" /\ ~dribbled => elapsed <= config.instances * ProbeLimit
  /\ stage \in {"throttling", "coalescing", "serving", "stopping", "down"} => elapsed = 0

Counters ==
  /\ stage \in Stages
  /\ config.instances \in Nat
  /\ at \in 0..Redis /\ raised \in 0..Redis
  /\ stage = "probing" => at \in 1..config.instances
  /\ stage = "stopping" => at \in 1..Redis
  /\ stage # "down" => raised = 0
  /\ probeWait \in 1..Waits /\ spent \in 0..ProbeTimeout
  /\ elapsed \in Nat /\ dribbled \in BOOLEAN

LifeInv == Counters /\ ConfigInv /\ TaskInv /\ OpenInv /\ ProbeInv

LEMMA Products ==
  ASSUME NEW m \in Nat, NEW n \in Nat, m <= n
  PROVE  /\ ProbeLimit \in Nat /\ m * ProbeLimit \in Nat
         /\ (m + 1) * ProbeLimit = m * ProbeLimit + ProbeLimit
         /\ m * ProbeLimit <= n * ProbeLimit
<1>1. ProbeLimit \in Nat
  BY ProbeAssumption, TimesAssumption, WaitCosts DEF ProbeLimit
<1>2. \A p \in Nat : /\ m * p \in Nat /\ (m + 1) * p = m * p + p
                    /\ (n - m) * p \in Nat /\ n * p = m * p + (n - m) * p
  OBVIOUS
<1>3. QED
  BY <1>1, <1>2

LEMMA ProductType ==
  ASSUME NEW m \in Nat
  PROVE  m * ProbeLimit \in Nat
<1>1. m <= m
  OBVIOUS
<1>2. QED
  BY <1>1, Products

LEMMA NothingLoaded == NotLoaded.instances = 0
  BY Zenon DEF NotLoaded

LEMMA LifeStart == LifeInit => LifeInv
<1> SUFFICES ASSUME LifeInit PROVE LifeInv
  OBVIOUS
<1>1. config.instances = 0
  BY NothingLoaded DEF LifeInit
<1>2. Counters
  <2>1. at \in 0..Redis /\ raised \in 0..Redis
    BY <1>1 DEF LifeInit, Redis
  <2>2. probeWait \in 1..Waits /\ spent \in 0..ProbeTimeout /\ elapsed \in Nat
    BY ProbeAssumption, TimesAssumption DEF LifeInit
  <2>3. QED
    BY <1>1, <2>1, <2>2 DEF LifeInit, Counters, Stages, Starting
<1>3. ConfigInv /\ TaskInv /\ OpenInv /\ ProbeInv
  BY DEF LifeInit, Init, ConfigInv, AcceptedConfigStarts, TaskInv, OpenInv, ProbeInv
<1>4. QED
  BY <1>2, <1>3 DEF LifeInv

LEMMA LoadKeeps == LifeInv /\ Load => LifeInv'
<1> SUFFICES ASSUME LifeInv, Load PROVE LifeInv'
  OBVIOUS
<1>1. /\ stage = "loading" /\ open = {} /\ raised = 0 /\ elapsed = 0
      /\ UNCHANGED <<phase, at, probeWait, spent, elapsed, dribbled, open, raised>>
  BY DEF Load, LifeInv, OpenInv, ProbeInv, Counters, vars
<1>2. CASE stage' = "refused"
  <2>1. config' = config
    BY <1>2 DEF Load
  <2>2. QED
    BY <1>1, <1>2, <2>1
    DEF LifeInv, Counters, Stages, ConfigInv, AcceptedConfigStarts, TaskInv, OpenInv, ProbeInv, Redis
<1>3. CASE stage' = "loaded"
  <2>1. Usable(config')
    BY <1>3, LoadedIsUsable DEF Load
  <2>2. config'.instances \in Nat \ {0} /\ config = NotLoaded
    BY <1>1, <2>1 DEF Usable, LifeInv, ConfigInv
  <2>3. at \in 0..Redis'
    BY <1>1, <2>2, NothingLoaded DEF LifeInv, Counters, Redis
  <2>4. Counters'
    BY <1>1, <1>3, <2>2, <2>3 DEF LifeInv, Counters, Stages, Starting, Redis
  <2>5. ConfigInv' /\ TaskInv' /\ OpenInv' /\ ProbeInv'
    BY <1>1, <1>3, <2>1 DEF LifeInv, ConfigInv, AcceptedConfigStarts, TaskInv, OpenInv, ProbeInv
  <2>6. QED
    BY <2>4, <2>5 DEF LifeInv
<1>4. QED
  BY <1>2, <1>3 DEF Load

(* Making the pool does not fail, since there are instances.                      *)
LEMMA MakePoolKeeps == LifeInv /\ MakePool => LifeInv'
<1> SUFFICES ASSUME LifeInv, MakePool PROVE LifeInv'
  OBVIOUS
<1>1. Usable(config) /\ config.instances \in Nat \ {0}
  BY DEF MakePool, Step, LifeInv, ConfigInv, Usable
<1>2. stage = "loaded" /\ stage' = "probing" /\ at' = 1
      /\ UNCHANGED <<phase, config, probeWait, spent, elapsed, dribbled, open, raised>>
  BY <1>1 DEF MakePool, Step, vars
<1>3. Counters'
  BY <1>1, <1>2 DEF LifeInv, Counters, Stages, Starting, Redis
<1>4. ConfigInv' /\ TaskInv' /\ OpenInv'
  BY <1>1, <1>2 DEF LifeInv, ConfigInv, AcceptedConfigStarts, TaskInv, OpenInv
<1>5. (at' - 1) * ProbeLimit = 0
  BY <1>2, Products
<1>6. ProbeInv'
  <2>1. Probed' \in Nat /\ elapsed = 0
    BY <1>2, ProbeAssumption, WaitCosts DEF LifeInv, Counters, ProbeInv, Probed
  <2>2. QED
    BY <1>2, <1>5, <2>1 DEF ProbeInv
<1>7. QED
  BY <1>3, <1>4, <1>6 DEF LifeInv

Probing ==
  \/ \E available \in BOOLEAN : ProbeEnds(available)
  \/ ProbeAdvances \/ Dribble \/ ProbeTick

(* Within its waits a probe is within its limit.                                  *)
LEMMA ProbedInTime ==
  ASSUME Counters
  PROVE  /\ ProbeTimeout \in Nat /\ WaitCost(probeWait, ProbeTimeout) \in Nat
         /\ WaitCost(probeWait + 1, ProbeTimeout)
              = WaitCost(probeWait, ProbeTimeout) + ProbeTimeout
         /\ Probed \in Nat /\ Probed <= ProbeLimit /\ ProbeLimit \in Nat
<1>1. probeWait \in 1..Waits /\ spent \in 0..ProbeTimeout /\ ProbeTimeout \in Nat
  BY ProbeAssumption DEF Counters
<1>2. /\ WaitCost(probeWait, ProbeTimeout) \in Nat
      /\ WaitCost(probeWait, ProbeTimeout) + ProbeTimeout <= Waits * ProbeTimeout
      /\ Waits * ProbeTimeout \in Nat
      /\ WaitCost(probeWait + 1, ProbeTimeout)
           = WaitCost(probeWait, ProbeTimeout) + ProbeTimeout
  BY <1>1, WaitCosts
<1>3. QED
  BY <1>1, <1>2 DEF Probed, ProbeLimit

(* A probe ends after its limit at most, and the next begins.                     *)
LEMMA ProbeKeeps == LifeInv /\ Probing => LifeInv'
<1> SUFFICES ASSUME LifeInv, Probing PROVE LifeInv'
  OBVIOUS
<1>1. /\ stage = "probing" /\ at \in 1..config.instances /\ config.instances \in Nat
      /\ probeWait \in 1..Waits /\ Waits \in Nat
      /\ spent \in 0..ProbeTimeout /\ elapsed \in Nat /\ ProbeTimeout \in Nat
      /\ UNCHANGED <<phase, config, open, raised>>
  BY ProbeAssumption, TimesAssumption
  DEF Probing, ProbeEnds, ProbeAdvances, Dribble, ProbeTick, LifeInv, Counters, vars
<1>a. /\ WaitCost(probeWait, ProbeTimeout) \in Nat
      /\ WaitCost(probeWait + 1, ProbeTimeout)
           = WaitCost(probeWait, ProbeTimeout) + ProbeTimeout
      /\ Probed \in Nat /\ Probed <= ProbeLimit /\ ProbeLimit \in Nat
  BY ProbedInTime DEF LifeInv
<1>2. ~dribbled => elapsed <= (at - 1) * ProbeLimit + Probed
  BY <1>1 DEF LifeInv, ProbeInv
<1>3. /\ (at - 1) * ProbeLimit \in Nat
      /\ at * ProbeLimit = (at - 1) * ProbeLimit + ProbeLimit
      /\ at * ProbeLimit <= config.instances * ProbeLimit
  <2>1. at \in Nat /\ at - 1 \in Nat /\ (at - 1) + 1 = at /\ at <= config.instances
        /\ at - 1 <= at
    BY <1>1
  <2>2. /\ (at - 1) * ProbeLimit \in Nat
        /\ ((at - 1) + 1) * ProbeLimit = (at - 1) * ProbeLimit + ProbeLimit
    BY <2>1, Products
  <2>3. at * ProbeLimit <= config.instances * ProbeLimit
    BY <1>1, <2>1, Products
  <2>4. QED
    BY <2>1, <2>2, <2>3
<1>4. CASE stage' = "probing" /\ at' \in 1..config.instances
  <2>1. /\ probeWait' \in 1..Waits /\ spent' \in 0..ProbeTimeout
        /\ elapsed' \in Nat /\ dribbled' \in BOOLEAN
    <3>1. CASE ~ProbeTick
      <4>1. spent' = 0 /\ elapsed' = elapsed
            /\ (probeWait' \in {1, probeWait} \/ (probeWait < Waits /\ probeWait' = probeWait + 1))
        BY <3>1 DEF Probing, ProbeEnds, ProbeAdvances, Dribble
      <4>2. dribbled' \in {dribbled, TRUE} /\ dribbled \in BOOLEAN
        BY <3>1 DEF Probing, ProbeEnds, ProbeAdvances, Dribble, LifeInv, Counters
      <4>3. dribbled' \in BOOLEAN
        BY <4>2, Zenon
      <4>4. probeWait' \in 1..Waits /\ spent' \in 0..ProbeTimeout /\ elapsed' \in Nat
        BY <1>1, <4>1
      <4>5. QED
        BY <4>3, <4>4
    <3>2. CASE ProbeTick
      <4>1. probeWait' = probeWait /\ spent' = spent + 1 /\ spent < ProbeTimeout
            /\ dribbled' = dribbled
        BY <3>2 DEF ProbeTick
      <4>2. elapsed' \in {elapsed, elapsed + 1}
        BY <3>2 DEF ProbeTick
      <4>3. QED
        BY <1>1, <4>1, <4>2 DEF LifeInv, Counters
    <3>3. QED
      BY <3>1, <3>2
  <2>2. ~dribbled' => elapsed' <= (at' - 1) * ProbeLimit + Probed'
    <3>1. CASE \E available \in BOOLEAN : ProbeEnds(available)
      <4>1. at' = at + 1 /\ UNCHANGED <<elapsed, dribbled>>
            /\ probeWait' = 1 /\ spent' = 0
        BY <1>4, <3>1 DEF ProbeEnds
      <4>2. at' - 1 = at /\ Probed' = 0
        BY <1>1, <4>1, WaitCosts DEF Probed
      <4>3. elapsed' = elapsed /\ dribbled' = dribbled
        BY <4>1
      <4>4. ~dribbled => elapsed <= at * ProbeLimit + 0
        BY <1>1, <1>2, <1>3, <1>a
      <4>5. QED
        BY <4>1, <4>2, <4>3, <4>4
    <3>2. CASE Dribble
      BY <3>2 DEF Dribble
    <3>a. CASE ProbeAdvances
      <4>1. at' = at /\ probeWait' = probeWait + 1 /\ spent' = 0
            /\ UNCHANGED <<elapsed, dribbled>>
        BY <3>a DEF ProbeAdvances
      <4>2. Probed' = WaitCost(probeWait, ProbeTimeout) + ProbeTimeout /\ Probed <= Probed'
        BY <1>1, <1>a, <4>1 DEF Probed
      <4>3. (at' - 1) * ProbeLimit = (at - 1) * ProbeLimit
        BY <4>1
      <4>4. QED
        BY <1>1, <1>2, <1>3, <1>a, <4>1, <4>2, <4>3
    <3>3. CASE ProbeTick
      <4>1. at' = at /\ probeWait' = probeWait /\ spent' = spent + 1 /\ elapsed' <= elapsed + 1 /\ dribbled' = dribbled
        BY <1>1, <3>3 DEF ProbeTick
      <4>2. (at' - 1) * ProbeLimit = (at - 1) * ProbeLimit /\ Probed' = Probed + 1
        BY <1>1, <1>a, <4>1 DEF Probed
      <4>3. QED
        BY <1>1, <1>2, <1>3, <1>a, <2>1, <4>1, <4>2
    <3>4. QED
      BY <3>1, <3>2, <3>3, <3>a DEF Probing
  <2>3. Counters'
    BY <1>1, <1>4, <2>1 DEF LifeInv, Counters, Stages, Starting, Redis
  <2>4. ConfigInv' /\ TaskInv' /\ OpenInv'
    BY <1>1, <1>4 DEF LifeInv, ConfigInv, AcceptedConfigStarts, TaskInv, OpenInv
  <2>5. ProbeInv'
    BY <1>4, <2>2 DEF ProbeInv
  <2>6. QED
    BY <2>3, <2>4, <2>5 DEF LifeInv
<1>5. CASE stage' = "caching" /\ UNCHANGED <<at, elapsed, dribbled>>
           /\ probeWait' = 1 /\ spent' = 0
  <2>1. ~dribbled => elapsed <= config.instances * ProbeLimit
    <3>1. config.instances * ProbeLimit \in Nat
      BY <1>1, Products
    <3>2. QED
      BY <1>1, <1>2, <1>3, <1>a, <3>1
  <2>2. Counters'
    BY <1>1, <1>5 DEF LifeInv, Counters, Stages, Starting, Redis
  <2>3. ConfigInv' /\ TaskInv' /\ OpenInv'
    BY <1>1, <1>5 DEF LifeInv, ConfigInv, AcceptedConfigStarts, TaskInv, OpenInv
  <2>4. ProbeInv'
    BY <1>1, <1>5, <2>1 DEF ProbeInv
  <2>5. QED
    BY <2>2, <2>3, <2>4 DEF LifeInv
<1>6. (stage' = "probing" /\ at' \in 1..config.instances)
      \/ (stage' = "caching" /\ UNCHANGED <<at, elapsed, dribbled>>
            /\ probeWait' = 1 /\ spent' = 0)
  BY <1>1 DEF Probing, ProbeEnds, ProbeAdvances, Dribble, ProbeTick
<1>7. QED
  BY <1>4, <1>5, <1>6

(* The cache is connected to last of what start-up asks somebody else for.        *)
LEMMA ConnectCacheKeeps == LifeInv /\ ConnectCache => LifeInv'
<1> SUFFICES ASSUME LifeInv, ConnectCache PROVE LifeInv'
  OBVIOUS
<1>1. Usable(config) /\ stage = "caching"
      /\ UNCHANGED <<phase, config, probeWait, spent, raised>> /\ at' = 0 /\ elapsed' = 0
  BY DEF ConnectCache, LifeInv, ConfigInv, vars
<1>2. dribbled' = FALSE
  BY DEF ConnectCache
<1>3. /\ stage' \in {"throttling", "failed"}
      /\ stage' = "throttling" =>
           /\ open' = IF config.cache.enabled THEN {Cache} ELSE {}
           /\ config.cache.enabled => config.redis = "redis"
      /\ stage' = "failed" => open' = {}
      /\ AcceptedConfigStarts'
  BY <1>1 DEF ConnectCache, Usable, AcceptedConfigStarts
<1>4. Counters'
  BY <1>1, <1>2, <1>3 DEF LifeInv, Counters, Stages, Starting, Redis
<1>5. ConfigInv' /\ TaskInv' /\ OpenInv'
  BY <1>1, <1>3 DEF LifeInv, ConfigInv, AcceptedConfigStarts, TaskInv, OpenInv, Running, Cache
<1>6. ProbeInv'
  <2>1. config.instances \in Nat /\ config'.instances * ProbeLimit \in Nat
    BY <1>1, Products DEF Usable
  <2>2. QED
    BY <1>1, <1>3, <2>1 DEF ProbeInv
<1>7. QED
  BY <1>4, <1>5, <1>6 DEF LifeInv

(* The throttler's limits have been checked, so that it can be made.              *)
LEMMA StartThrottlerKeeps == LifeInv /\ StartThrottler => LifeInv'
<1> SUFFICES ASSUME LifeInv, StartThrottler PROVE LifeInv'
  OBVIOUS
<1>1. Usable(config) /\ stage = "throttling"
      /\ UNCHANGED <<config, at, probeWait, spent, elapsed, dribbled, open, raised>>
  BY DEF StartThrottler, LifeInv, ConfigInv
<1>2. stage' = "coalescing"
  BY <1>1 DEF StartThrottler, Usable
<1>3. Counters'
  BY <1>1, <1>2 DEF LifeInv, Counters, Stages, Starting, Redis
<1>4. ConfigInv' /\ TaskInv' /\ OpenInv' /\ ProbeInv'
  BY <1>1, <1>2 DEF LifeInv, ConfigInv, AcceptedConfigStarts, TaskInv, OpenInv, ProbeInv, Cache
<1>5. QED
  BY <1>3, <1>4 DEF LifeInv

(* The coalescer's client fails only where the cache is off, or its own would     *)
(* have failed.                                                                   *)
LEMMA ConnectCoalescerKeeps == LifeInv /\ ConnectCoalescer => LifeInv'
<1> SUFFICES ASSUME LifeInv, ConnectCoalescer PROVE LifeInv'
  OBVIOUS
<1>1. stage = "coalescing"
      /\ UNCHANGED <<phase, config, at, probeWait, spent, elapsed, dribbled, raised>>
      /\ elapsed = 0 /\ raised = 0
  BY DEF ConnectCoalescer, Step, LifeInv, Counters, ProbeInv, vars
<1>2. config.instances \in Nat /\ Cache \in 1..Redis /\ Redis \in 1..Redis
  BY DEF LifeInv, Counters, Cache, Redis
<1>3. open = (IF config.cache.enabled THEN {Cache} ELSE {})
      /\ (config.cache.enabled => config.redis = "redis")
  BY <1>1 DEF LifeInv, OpenInv
<1>4. CASE stage' = "serving"
  <2>1. config.redis = "redis" /\ open' = open \cup {Redis}
    BY <1>4 DEF ConnectCoalescer, Step
  <2>2. open' \subseteq 1..Redis'
    BY <1>1, <1>2, <1>3, <2>1 DEF Redis
  <2>3. Counters'
    BY <1>1, <1>4 DEF LifeInv, Counters, Stages, Redis
  <2>4. ConfigInv' /\ TaskInv' /\ OpenInv' /\ ProbeInv'
    BY <1>1, <1>4, <2>2 DEF LifeInv, ConfigInv, AcceptedConfigStarts, TaskInv, OpenInv, ProbeInv
  <2>5. QED
    BY <2>3, <2>4 DEF LifeInv
<1>5. CASE stage' = "failed"
  <2>1. config.redis # "redis" /\ open' = {} /\ ~config.cache.enabled
    BY <1>3, <1>5 DEF ConnectCoalescer, Step
  <2>2. Counters'
    BY <1>1, <1>5 DEF LifeInv, Counters, Stages, Redis
  <2>3. config.instances * ProbeLimit \in Nat
    BY <1>2, ProductType
  <2>4. ConfigInv' /\ TaskInv' /\ OpenInv' /\ ProbeInv'
    BY <1>1, <1>5, <2>1, <2>3 DEF LifeInv, ConfigInv, AcceptedConfigStarts, TaskInv, OpenInv, ProbeInv
  <2>5. QED
    BY <2>2, <2>4 DEF LifeInv
<1>6. QED
  BY <1>4, <1>5 DEF ConnectCoalescer, Step

(* Serving opens the clients of backends; shutdown closes all in their order.     *)
LEMMA ServingKeeps ==
  LifeInv /\ ((\E b \in 1..config.instances : Use(b)) \/ StopThrottler) => LifeInv'
<1> SUFFICES ASSUME LifeInv, (\E b \in 1..config.instances : Use(b)) \/ StopThrottler
             PROVE  LifeInv'
  OBVIOUS
<1>1. stage = "serving" /\ UNCHANGED <<config, probeWait, spent, elapsed, dribbled, raised>>
      /\ elapsed = 0 /\ raised = 0 /\ open \subseteq 1..Redis
  BY DEF Use, StopThrottler, Step, LifeInv, OpenInv, ProbeInv, Counters
<1>2. config.instances \in Nat
  BY DEF LifeInv, Counters
<1>3. CASE \E b \in 1..config.instances : Use(b)
  <2>1. stage' = stage /\ open' \subseteq 1..Redis' /\ UNCHANGED <<at, phase>>
    BY <1>1, <1>2, <1>3 DEF Use, Redis, vars
  <2>2. Counters'
    BY <1>1, <2>1 DEF LifeInv, Counters, Redis
  <2>3. ConfigInv' /\ TaskInv' /\ OpenInv' /\ ProbeInv'
    BY <1>1, <2>1 DEF LifeInv, ConfigInv, AcceptedConfigStarts, TaskInv, OpenInv, ProbeInv
  <2>4. QED
    BY <2>2, <2>3 DEF LifeInv
<1>4. CASE StopThrottler
  <2>1. stage' = "stopping" /\ at' = 1 /\ open' = open /\ ~Running'
    BY <1>4 DEF StopThrottler, Step, Stop, Running, vars
  <2>2. Counters'
    BY <1>1, <1>2, <2>1 DEF LifeInv, Counters, Stages, Redis
  <2>3. ConfigInv' /\ TaskInv' /\ OpenInv' /\ ProbeInv'
    BY <1>1, <2>1 DEF LifeInv, ConfigInv, AcceptedConfigStarts, TaskInv, OpenInv, ProbeInv, Redis
  <2>4. QED
    BY <2>2, <2>3 DEF LifeInv
<1>5. QED
  BY <1>3, <1>4

LEMMA CloseKeeps == LifeInv /\ (Close \/ CloseRaises) => LifeInv'
<1> SUFFICES ASSUME LifeInv, Close \/ CloseRaises PROVE LifeInv'
  OBVIOUS
<1>1. stage = "stopping" /\ UNCHANGED <<phase, config, probeWait, spent, elapsed, dribbled>>
      /\ elapsed = 0 /\ raised = 0 /\ open \subseteq at..Redis /\ at \in 1..Redis /\ ~Running
  BY DEF Close, CloseRaises, Step, LifeInv, OpenInv, ProbeInv, TaskInv, Counters, vars
<1>2. config.instances \in Nat /\ Redis \in Nat /\ Redis' = Redis /\ ~Running'
  BY <1>1 DEF LifeInv, Counters, Redis, Running
<1>3. /\ stage' \in {"stopping", "down"}
      /\ at' \in 1..Redis /\ raised' \in 0..Redis /\ (stage' # "down" => raised' = 0)
      /\ stage' = "stopping" => open' \subseteq at'..Redis
      /\ stage' = "down" => open' \subseteq (IF raised' = 0 THEN {} ELSE raised'..Redis)
  <2>1. CASE Close
    <3>1. open' = open \ {at} /\ raised' = raised
      BY <2>1 DEF Close
    <3>2. CASE at = Redis
      BY <1>1, <1>2, <2>1, <3>1, <3>2 DEF Close
    <3>3. CASE at # Redis
      BY <1>1, <1>2, <2>1, <3>1, <3>3 DEF Close
    <3>4. QED
      BY <3>2, <3>3
  <2>2. CASE CloseRaises
    BY <1>1, <1>2, <2>2 DEF CloseRaises, Step
  <2>3. QED
    BY <2>1, <2>2
<1>4. Counters'
  BY <1>1, <1>2, <1>3 DEF LifeInv, Counters, Stages
<1>5. ConfigInv' /\ TaskInv' /\ OpenInv' /\ ProbeInv'
  BY <1>1, <1>2, <1>3 DEF LifeInv, ConfigInv, AcceptedConfigStarts, TaskInv, OpenInv, ProbeInv
<1>6. QED
  BY <1>4, <1>5 DEF LifeInv

(* Only a running throttler polls, and polling does not stop it.                  *)
LEMMA PollingKeeps == LifeInv /\ TypeOK /\ Poll => LifeInv'
<1> SUFFICES ASSUME LifeInv, TypeOK, Poll PROVE LifeInv'
  OBVIOUS
<1>1. Running /\ Running' /\ phase # "off"
  BY DEF Poll, Fetch, NextWait, Trickle, Reading, PollSucceeds, PollFails,
         PollFindsNothing, Sleep, Pressure, Tick, Running
<1>2. UNCHANGED <<stage, config, at, probeWait, spent, elapsed, dribbled, open, raised>>
  BY DEF Poll, life
<1>3. Counters' /\ ConfigInv' /\ OpenInv' /\ ProbeInv'
  BY <1>2
  DEF LifeInv, Counters, ConfigInv, AcceptedConfigStarts, OpenInv, ProbeInv, Probed, Redis, Cache
<1>4. TaskInv'
  BY <1>1, <1>2 DEF LifeInv, TaskInv
<1>5. QED
  BY <1>3, <1>4 DEF LifeInv

--------------------------------------------------------------------------------
(* Every step of the lifespan is one of the throttler or leaves it alone.         *)
LEMMA ThrottlerUsed == LifeNext => [Next]_vars
<1> SUFFICES ASSUME LifeNext PROVE [Next]_vars
  OBVIOUS
<1>1. CASE StartThrottler
  BY <1>1 DEF StartThrottler, Next
<1>2. CASE StopThrottler
  BY <1>2 DEF StopThrottler, Next
<1>3. CASE Poll
  BY <1>3 DEF Poll, Next
<1>4. CASE ~(StartThrottler \/ StopThrottler \/ Poll)
  BY <1>4
  DEF LifeNext, Load, MakePool, ProbeEnds, ProbeAdvances, Dribble, ProbeTick, ConnectCache,
      ConnectCoalescer, Use, Close, CloseRaises
<1>5. QED
  BY <1>1, <1>2, <1>3, <1>4

LEMMA LifeUnchanged == LifeInv /\ UNCHANGED lifeVars => LifeInv'
  BY DEF lifeVars, life, vars, LifeInv, Counters, ConfigInv, AcceptedConfigStarts, TaskInv, OpenInv, ProbeInv,
         Redis, Cache, Running, Probed

LEMMA LifeStep == LifeInv /\ ThrottlerInv /\ [LifeNext]_lifeVars => LifeInv'
<1> SUFFICES ASSUME LifeInv, ThrottlerInv, LifeNext PROVE LifeInv'
  BY LifeUnchanged
<1>1. TypeOK
  BY DEF ThrottlerInv
<1>2. QED
  BY <1>1, LoadKeeps, MakePoolKeeps, ProbeKeeps, ConnectCacheKeeps, StartThrottlerKeeps,
     ConnectCoalescerKeeps, ServingKeeps, CloseKeeps, PollingKeeps
  DEF LifeNext, Probing

(* Theorem: whatever the configuration, the server drives its throttler as the    *)
(* throttler's own specification allows (lifespan; start() and stop()).           *)
THEOREM LifespanDrivesThrottler == LifeSpec => Spec
<1>1. LifeInit => Init
  BY DEF LifeInit
<1>2. [LifeNext]_lifeVars => [Next]_vars
  BY ThrottlerUsed DEF lifeVars
<1>3. QED
  BY <1>1, <1>2, PTL DEF LifeSpec, Spec

THEOREM LifespanInvariant == LifeSpec => [](ThrottlerInv /\ LifeInv)
<1>1. LifeInit => ThrottlerInv /\ LifeInv
  BY LifeStart, ThrottlerInit DEF LifeInit
<1>2. ThrottlerInv /\ LifeInv /\ [LifeNext]_lifeVars => (ThrottlerInv /\ LifeInv)'
  <2>1. [LifeNext]_lifeVars => [Next]_vars
    BY ThrottlerUsed DEF lifeVars
  <2>2. QED
    BY <2>1, ThrottlerStep, LifeStep
<1>3. QED
  BY <1>1, <1>2, PTL DEF LifeSpec

(* Theorem: types, and fresh decisions, from start-up to shutdown.                *)
THEOREM LifespanTypes == LifeSpec => []LifeTypeOK
<1>1. ThrottlerInv /\ LifeInv => LifeTypeOK
  <2> SUFFICES ASSUME ThrottlerInv, LifeInv PROVE LifeTypeOK
    OBVIOUS
  <2>1. config.instances \in Nat
    BY DEF LifeInv, Counters
  <2>2. open \subseteq 1..Redis
    <3>1. stage \in Stages
      BY DEF LifeInv, Counters
    <3>2. CASE stage \in {"throttling", "coalescing"}
      BY <2>1, <3>2 DEF LifeInv, OpenInv, Cache, Redis
    <3>3. CASE stage = "stopping"
      BY <2>1, <3>3 DEF LifeInv, OpenInv, Counters, Redis
    <3>4. CASE stage = "down"
      BY <2>1, <3>4 DEF LifeInv, OpenInv, Counters, Redis
    <3>5. CASE stage \notin {"throttling", "coalescing", "stopping", "down"}
      BY <3>1, <3>5 DEF LifeInv, OpenInv, Stages, Starting
    <3>6. QED
      BY <3>2, <3>3, <3>4, <3>5
  <2>3. QED
    BY <2>2 DEF ThrottlerInv, LifeInv, Counters, LifeTypeOK, Stages
<1>2. QED
  BY <1>1, LifespanInvariant, PTL

THEOREM LifespanDecisions == LifeSpec => []DecisionsAreFresh
  BY LifespanInvariant, RecentIsFresh, PTL

(* Theorem: a configuration that loads fails to start only for the url of Redis,  *)
(* or a cache's ttl that is no int, for any files and environments (config.py's   *)
(* checks, the constructors').                                                    *)
THEOREM AcceptedConfigsStart == LifeSpec => []AcceptedConfigStarts
<1>1. LifeInv => AcceptedConfigStarts
  BY DEF LifeInv, ConfigInv, AcceptedConfigStarts
<1>2. QED
  BY <1>1, LifespanInvariant, PTL

(* Theorem: the probes hold start-up up by one timeout per instance and wait at   *)
(* most, for any number of instances and waits and any timeout, as long as no     *)
(* answer is sent in parts (the loop of lifespan, is_available).                  *)
THEOREM StartupIsBounded == LifeSpec => []ProbesAreBounded
<1>1. LifeInv => ProbesAreBounded
  <2> SUFFICES ASSUME LifeInv, ~dribbled
               PROVE  elapsed <= config.instances * ProbeLimit
    BY DEF ProbesAreBounded
  <2>1. /\ stage \in Stages /\ config.instances \in Nat /\ elapsed \in Nat
        /\ Probed \in Nat /\ Probed <= ProbeLimit /\ ProbeLimit \in Nat
        /\ config.instances * ProbeLimit \in Nat
    BY ProductType, ProbedInTime DEF LifeInv, Counters
  <2>2. CASE stage = "probing"
    <3>1. at \in 1..config.instances /\ elapsed <= (at - 1) * ProbeLimit + Probed
      BY <2>2 DEF LifeInv, Counters, ProbeInv
    <3>2. at - 1 \in Nat /\ at \in Nat /\ at - 1 <= at /\ at <= config.instances
          /\ (at - 1) + 1 = at
      BY <2>1, <3>1
    <3>3. /\ (at - 1) * ProbeLimit \in Nat
          /\ ((at - 1) + 1) * ProbeLimit = (at - 1) * ProbeLimit + ProbeLimit
      BY <3>2, Products
    <3>4. at * ProbeLimit <= config.instances * ProbeLimit
      BY <2>1, <3>2, Products
    <3>5. at * ProbeLimit = (at - 1) * ProbeLimit + ProbeLimit
      BY <3>2, <3>3
    <3>6. QED
      BY <2>1, <3>1, <3>3, <3>4, <3>5
  <2>3. CASE stage # "probing"
    BY <2>1, <2>3 DEF LifeInv, ProbeInv, Stages, Starting
  <2>4. QED
    BY <2>2, <2>3
<1>2. QED
  BY <1>1, LifespanInvariant, PTL

(* Theorem: a server that is down has nothing open but what a failed close left,  *)
(* and one that failed to start nothing but a poll task, and that without a cache *)
(* only, for any configuration (the clean-up of lifespan).                        *)
THEOREM NothingStaysOpen == LifeSpec => []NothingIsLeftOpen
<1>1. LifeInv => NothingIsLeftOpen
  BY DEF LifeInv, TaskInv, OpenInv, NothingIsLeftOpen
<1>2. QED
  BY <1>1, LifespanInvariant, PTL

================================================================================
