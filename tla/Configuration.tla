----------------------------- MODULE Configuration -----------------------------
(* config.py: which files and environments are accepted, and what they then say.  *)
(* Only the values somebody looks at later are kept. The limits of admission are  *)
(* fractions of Full, whose checks refuse .inf and .nan; of the other numbers the *)
(* checks and int() tell five kinds apart.                                        *)
EXTENDS Integers, Sequences

CONSTANTS Full, SoftLimit, HardLimit   \* 1.0 and the default limits

(* YAML writes the last two .inf and .nan. A nan passes for positive: "n <= 0" is *)
(* false of it.                                                                   *)
Numbers == {"negative", "zero", "positive", "infinite", "nan"}
PassesPositive(n) == n \notin {"negative", "zero"}
PassesNonNegative(n) == n # "negative"
ConvertsToInt(n) == n \notin {"infinite", "nan"}

(* A section of a file: left out, without a value, with a key nobody knows, or    *)
(* setting some fields over the defaults.                                         *)
Missing == [form |-> "missing"]
Null == [form |-> "null"]
Strange == [form |-> "strange"]
Sets(fields) == [form |-> "given", fields |-> fields]

Given(raw, defaults) ==
  [field \in DOMAIN defaults |->
     IF raw.form = "given" /\ field \in DOMAIN raw.fields
     THEN raw.fields[field] ELSE defaults[field]]

(* How a load ends: with a configuration or with an exception. The loader's own   *)
(* is ConfigurationError; it lets some TypeErrors and AttributeErrors escape.     *)
Accepted(config) == [error |-> "none", config |-> config]
Error(error) == [error |-> error]

--------------------------------------------------------------------------------
(* The checks of the sections' __post_init__.                                     *)

CacheConfig(c) == PassesPositive(c.max_size) /\ PassesPositive(c.ttl_seconds)

(* Slip for the mutation runs: each limit is checked, but not their order.        *)
AdmissionConfigUnordered(a) ==
  /\ 0 < a.soft_limit /\ a.soft_limit < Full
  /\ 0 < a.hard_limit /\ a.hard_limit <= Full
  /\ PassesPositive(a.poll_interval_seconds)

AdmissionConfig(a) ==
  /\ 0 < a.soft_limit /\ a.soft_limit < Full
  /\ 0 < a.hard_limit /\ a.hard_limit <= Full
  /\ a.soft_limit < a.hard_limit
  /\ PassesPositive(a.poll_interval_seconds)

CircuitBreakerConfig(b) ==
  PassesPositive(b.failure_threshold) /\ PassesNonNegative(b.cooldown_seconds)

ModelRegistryConfig(m) ==
  /\ PassesPositive(m.fast_model_token_threshold)
  /\ m.fallback_cache_similarity_threshold \in 0..Full

AuthConfig(a) == a.enabled => a.api_keys > 0   \* api_keys: how many

(* _load_section: a TypeError of the constructor becomes a ConfigurationError.    *)
Section(raw, given, valid) ==
  IF raw.form \in {"null", "strange"} \/ ~valid THEN Error("ConfigurationError")
                                              ELSE Accepted(given)

--------------------------------------------------------------------------------
(* An instance is "http" if its url has one of the two schemes and "other" if not, *)
(* "no_text" if its url is no string, which has no startswith, and "bad_mapping"  *)
(* if it is a mapping of other fields than url, which the constructor refuses.    *)

VLLMDefaults ==
  [instances |-> <<"http">>, timeout_seconds |-> "positive", retry_count |-> "positive"]

NotHttp(listed) == SelectSeq(listed, LAMBDA instance : instance # "http")

(* VLLM_URL replaces the instances of the file, which have been checked by then.  *)
Instances(listed, env) == IF env = "unset" THEN listed ELSE <<env>>

VLLMFields(v) ==
  /\ v.instances # <<>>
  /\ PassesPositive(v.timeout_seconds) /\ PassesNonNegative(v.retry_count)

VLLMConfig(raw, env) ==
  LET given == Given(raw, VLLMDefaults)
      bad == NotHttp(given.instances)
      vllm == [given EXCEPT !.instances = Instances(given.instances, env)]
  IN IF raw.form = "null" THEN Error("AttributeError")
     ELSE IF bad # <<>> /\ Head(bad) = "no_text" THEN Error("AttributeError")
     ELSE IF bad # <<>> /\ Head(bad) = "bad_mapping" THEN Error("TypeError")
     ELSE IF bad # <<>> \/ raw.form = "strange" \/ env = "other" \/ ~VLLMFields(vllm)
     THEN Error("ConfigurationError")
     ELSE Accepted(vllm)

(* RedisConfig: the scheme of the url is not looked at.                           *)
RedisConfig(raw, env) ==
  LET given == Given(raw, [url |-> "redis", socket_timeout_seconds |-> "positive"])
      redis == IF env = "unset" THEN given ELSE [given EXCEPT !.url = env]
  IN Section(raw, redis, PassesPositive(redis.socket_timeout_seconds))

--------------------------------------------------------------------------------
(* load_config and from_yaml. A file is its form, and its sections by name.       *)

NoFile == [form |-> "none"]
Sections(of) == [form |-> "sections", of |-> of]
RawSection(file, name) ==
  IF file.form = "sections" /\ name \in DOMAIN file.of THEN file.of[name] ELSE Missing

Parts(file, env) ==
  LET Raw(name) == RawSection(file, name)
      auth == Given(Raw("auth"), [enabled |-> FALSE, api_keys |-> 0])
      cache == Given(Raw("cache"),
                     [enabled |-> TRUE, max_size |-> "positive", ttl_seconds |-> "positive"])
      admission == Given(Raw("admission_control"),
                         [enabled |-> TRUE, soft_limit |-> SoftLimit,
                          hard_limit |-> HardLimit, poll_interval_seconds |-> "positive"])
      breaker == Given(Raw("circuit_breaker"),
                       [failure_threshold |-> "positive", cooldown_seconds |-> "positive"])
      registry == Given(Raw("model_registry"),
                        [fast_model_token_threshold |-> "positive",
                         fallback_cache_similarity_threshold |-> SoftLimit])
  IN << VLLMConfig(Raw("vllm"), env.vllm),
        RedisConfig(Raw("redis"), env.redis),
        Section(Raw("server"), <<>>, TRUE),
        Section(Raw("auth"), auth, AuthConfig(auth)),
        Section(Raw("cache"), cache, CacheConfig(cache)),
        Section(Raw("admission_control"), admission, AdmissionConfig(admission)),
        Section(Raw("circuit_breaker"), breaker, CircuitBreakerConfig(breaker)),
        Section(Raw("model_registry"), registry, ModelRegistryConfig(registry)) >>

(* The first section with an error decides.                                       *)
LoadConfig(file, env) ==
  LET parts == Parts(file, env)
      wrong == {i \in DOMAIN parts : parts[i].error # "none"}
  IN IF file.form = "missing" THEN Error("FileNotFoundError")
     ELSE IF file.form \in {"not_yaml", "not_a_mapping"} THEN Error("ConfigurationError")
     ELSE IF wrong # {} THEN parts[CHOOSE i \in wrong : \A j \in wrong : i <= j]
     ELSE Accepted([vllm |-> parts[1].config, redis |-> parts[2].config,
                    cache |-> parts[5].config, admission |-> parts[6].config])

================================================================================
