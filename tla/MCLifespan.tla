------------------------------ MODULE MCLifespan ------------------------------
(* Configurations for Lifespan: every field that is checked takes values on both  *)
(* sides of its check, and every section also the forms that are no mapping.      *)
EXTENDS Lifespan

Malformed == {Config!Missing, Config!Null, Config!Strange}

MCVLLM == Malformed \cup
  {Config!Sets([instances |-> i, timeout_seconds |-> t, retry_count |-> r]) :
     i \in {<<>>, <<"http">>, <<"http", "http">>, <<"other">>,
            <<"no_text">>, <<"http", "bad_mapping">>},
     t \in {"zero", "positive"}, r \in {"negative", "zero"}}

MCCache == Malformed \cup
  {Config!Sets([enabled |-> e, max_size |-> m, ttl_seconds |-> t]) :
     e \in BOOLEAN, m \in {"zero", "positive"}, t \in {"zero", "infinite"}}

MCAdmission == Malformed \cup
  {Config!Sets([enabled |-> e, soft_limit |-> l[1], hard_limit |-> l[2],
                poll_interval_seconds |-> i]) :
     e \in BOOLEAN, i \in {"zero", "positive"},
     l \in {<<SoftLimit, HardLimit>>, <<HardLimit, SoftLimit>>, <<0, HardLimit>>,
            <<SoftLimit, SoftLimit>>, <<SoftLimit, Full + 1>>}}

(* The sections the server does not build parts from that could refuse.           *)
MCOthers == Malformed \cup
  {Config!Sets([enabled |-> TRUE, api_keys |-> k]) : k \in 0..1}

MCFiles ==
  {Config!NoFile, [form |-> "missing"], [form |-> "not_yaml"], [form |-> "not_a_mapping"]}
    \cup {Config!Sections([vllm |-> v, cache |-> c, admission_control |-> a]) :
            v \in MCVLLM, c \in MCCache, a \in MCAdmission}
    \cup {Config!Sections([auth |-> o]) : o \in MCOthers}
    \cup {Config!Sections([circuit_breaker |-> Config!Sets([failure_threshold |-> f])]) :
            f \in Config!Numbers}
    \cup {Config!Sections([model_registry |-> Config!Sets([fast_model_token_threshold |-> f])]) :
            f \in Config!Numbers}
    \cup {Config!Sections([redis |-> Config!Sets([url |-> "other", socket_timeout_seconds |-> t]),
                           cache |-> Config!Sets([enabled |-> e])]) :
            t \in Config!Numbers, e \in BOOLEAN}

MCEnvironments == [vllm : {"unset", "http", "other"}, redis : {"unset", "redis", "other"}]

================================================================================
