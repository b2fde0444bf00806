# LLM Inference Optimization Engine: verification project

TLA+ modules for the engine in `src/src/llm_inference_engine`: a FastAPI server
that puts a response cache, request coalescing, admission control, a pool of
backends with circuit breakers and a fallback chain in front of one or more
vLLM instances. TLC checks the modules on small instances; TLAPS proves some of
the properties for all values of the constants. `PROJECT.json` lists the
components, runs, mutants, hazards, findings and theorems, and maps every
definition to the source lines it stands for.

Paths below are relative to `src/src/llm_inference_engine` unless they start
with `src/`.

## 1. Inventory

Every worker process runs one asyncio event loop. Inside a worker, code between
two `await`s is atomic, so methods without an `await` are single steps; between
two awaits anything may run. Workers share nothing but Redis. Redis executes
commands, and `MULTI` blocks, one at a time.

| Component | State | Operations | Interacts with |
|---|---|---|---|
| Circuit breaker, `api/circuit_breaker.py` | state, failure count, time of the latest failure | `is_available` (which moves open to half-open once the cooldown is over), `record_success`, `record_failure`, `reset` | owned by the pool |
| Backend pool, `integration/backend_pool.py` | a breaker per backend, the round-robin cursor | `get_healthy_backend`, `record_success/failure`, `healthy_count` | server and fallback router call it before and after every backend call |
| Coalescer, `api/coalescer.py` | in Redis: a lock key per hash and a pub/sub channel | `coalesce`: claim and produce, or subscribe and wait, or give up and produce directly | server passes the producer; `wait_for` cancels it |
| Response cache, `api/cache.py` | in Redis: values with a TTL, a sorted set of last uses | `get`, `put` with eviction, `invalidate`, `clear`, `size` | server and fallback router read, server writes |
| Admission throttler, `optimization/throttler.py` | last KV-cache usage polled, number of active requests, the poll task | `start`, `stop`, the poll loop, `check`, `increment/decrement_active` | polls vLLM; server asks before each request |
| Backend client, `integration/vllm_backend.py` | the shared `httpx` client | `generate`, `chat` (with retries), their streams, `close` | called with a backend from the pool |
| Fallback router, `api/fallback_router.py` | none | `route`, `route_chat` | pool, other model, cache, 503 |
| Server, `api/server.py` | one coroutine per request; application state | completions, chat completions, their streams, `/health`, `/metrics` | all of the above |
| Configuration, `config.py` | none once loaded | `load_config`, a check per section, `VLLM_URL` and `REDIS_URL` from the environment | lifespan builds every part from it |
| Lifespan, `api/server.py` | the application state, which clients are open | start-up with its probes, clean-up | makes, starts, stops and closes the parts |
| Model router and token estimate, `api/model_router.py`, `utils/tokenizer.py` | none | `route`, `route_chat`, `estimate_prompt_tokens` | the model is half of the cache key |
| Schemas, API keys, metrics, exceptions | none that changes while requests run | validation, counters | server |
| `src/scripts`, benchmark and reporting utilities | files, subprocesses | offline tools | none of the above at run time |

### What is hard

* **Interleaving.** A call's outcome is reported long after the backend was
  picked. The breaker has had time to open, cool down, be probed or close.
* **Commands that are not one transaction.** `SET NX`/`SUBSCRIBE`,
  `PUBLISH`/`DEL`, and the four commands of an eviction are each separate.
* **Cancellation.** `asyncio.wait_for` can raise `CancelledError` at any await
  of the coalescer, the producer, the retry loop and the fallback chain.
  `except Exception` does not see it.
* **Expiry.** Lock TTL, value TTL, cooldown, request deadline and the timeouts of
  each wait for the network run independently of each other.
* **Death of a worker.** What it left in Redis (a lock, half an eviction) stays.
* **Stale reads.** Admission uses the last polled value; eviction uses a count
  and a list read by earlier commands; a cache hit refreshes a key that may
  have gone since.
* **Answers that travel.** What the fallback model or an old cache entry
  answered is stored under the key of the model asked for and answers others.
* **Half-made servers.** Start-up has awaits between the parts it makes, and the
  clean-up runs after the `yield` only, one close after the other.
* **Counters on all paths.** The active-request count is raised in a handler
  and lowered in a `finally`, which for streams is inside a generator that may
  never run.

### What makes each component correct

* Breaker and pool: a cooling backend is not called; a failed probe reopens
  the circuit; an available backend is not starved; a backend that recovers is
  used again; whoever looks at a breaker does not change what others get.
* Coalescer: one inference per hash at a time; waiters get what was made, or
  an error, or time out; nothing blocks a hash for ever.
* Cache: every value is one that eviction can find; after a put the sorted set
  is within `max_size`; the value evicted is the least recently used.
* Throttler: a decision rests on a value of bounded age; pressure that ends is
  forgotten.
* Backend client: a backend that stays silent is reported as failed; every call
  ends, and a stream ends once its backend is quiet.
* Server: every call handed out by the pool is reported at most once and to
  the right backend; the active count returns to zero; 503 is the last resort.
* Answers: an answer is to a question of the same text as the one asked, by the
  model asked or the fallback model; an outage leaves no trace once it is over for
  long enough.
* Configuration and lifespan: what is accepted starts; start-up takes bounded
  time; what was opened and started is closed and stopped.

## 2. Modules

One module per component. `Server` composes the pool in full (by `INSTANCE`)
and sees coalescer, cache and throttler by what a request observes of them;
`Lifespan` composes the throttler in full with start-up and shutdown; `Answers`
cuts the same server along its data, not its calls.

| Module | Stands for |
|---|---|
| `CircuitBreaker` | the breaker as a value: `Refreshed` (reading `state`), `IsAvailable`, `RecordSuccess`, `RecordFailure`, `Aged` |
| `BackendPool` | the pool and the calls in flight: `GetHealthyBackend`, `CallSucceeds`, `CallFails`, `CallCancelled`, `HealthyCount`, `Tick` |
| `StatelessPool` | abstract specification: the pool with failure counts and ages and no circuit states |
| `BackendPoolHistory` | `BackendPool` with a history variable: picks that passed a backend over |
| `Coalescer` | all requests for one hash, in any workers: every await of `coalesce`, `_execute_and_publish`, `_wait_for_result`, and what can fail at it |
| `SingleFlight` | abstract specification: what requests for one hash may be answered with, without Redis, messages, time or death |
| `ResponseCache` | all clients of the cache, one action per Redis command or block |
| `ResponseCacheHistory` | `ResponseCache` with a history of which calls overlap or are abandoned, and whether a hit has added a member |
| `Throttler` | the poll task against vLLM's changing usage, `check`, `stop` |
| `VLLMBackend` | calls with their retry loops and streams, the client they share, `close`, the caller's deadline |
| `Server` | the requests of one worker from admission to response, with pool, fallback, streams, disconnects and deadlines |
| `Answers` | which model answers which request with what, and how old it is: `Route`, `CacheKey`, the handlers, the fallback chain, the cache's leases, outages of the pool |
| `Configuration` | `LoadConfig` and what it is made of, as operators: which files and environments are accepted, and the error of those that are not |
| `Lifespan` | `create_app` and `lifespan`: load, pool, probes, cache, throttler, coalescer, serve, stop, close, and what fails on the way |
| `MCServer`, `MCResponseCache`, `MCAnswers`, `MCLifespan` | symmetry; symmetry; questions, texts and bodies; configuration files |
| `BackendPoolProofs`, `CoalescerProofs`, `ResponseCacheProofs`, `VLLMBackendProofs`, `ServerProofs`, `AnswersProofs`, `ThrottlerProofs`, `LifespanProofs` | theorems |

`EXTENDS`/`INSTANCE`: `BackendPool` extends `CircuitBreaker` and instantiates
`StatelessPool`; `Coalescer` instantiates `SingleFlight`; `Server` extends `CircuitBreaker` and instantiates
`BackendPool` as `Pool`; `Lifespan` extends `Throttler` and instantiates
`Configuration` as `Config`; the `History` modules extend their module; the
proof modules extend what they are about.

### How state and actions correspond to the code

**Time** is a `Tick` that ages whatever the code compares with a clock. Ages
saturate where the code stops telling them apart (cooldown, threshold), so
there is no bound on the length of a behaviour. A timer fires on time: `Tick`
is disabled while some wait is at its limit. The one exception is the cache,
whose scores must be ordered without end: there `MaxClock` bounds the number of
clock readings.

**Breaker.** `failures` saturates at `Threshold` because the code compares it
with nothing else, `age` at `Cooldown`. The state `half_open` is entered by a
*read*, as in the property `state`; `RecordFailure` has no half-open branch,
because `record_failure` has none.

**Pool.** A scan visits `cursor, cursor+1, ...` and stops at the first available
breaker. Those before it were open and cooling, so reading them changed nothing,
and only the picked one is refreshed. `inflight` counts calls not yet reported;
the code has no such variable, but its callers behave that way (`Server` shows
it, see `UsesPool`). When no breaker is available `get_healthy_backend` returns
`None` and nothing has changed, so it is no action here; in `Server` it is the
guard `NoHealthyBackend`.

**Coalescer.** `lock` is the age of the lock key, `Free` when it is gone. `pc`
is the await a request is at. `claimed` is the reply to `SET` on its way back:
the lock is set, the `try` not entered yet. `PUBLISH` reaches only requests in
`wait`. Payloads are four kinds, because they come back differently:
`text` as it was, `json_text` (a text that happens to be JSON) as something
else, `null_text` as `None`, which looks like a timeout, and `object`, which
`json.dumps` refuses. What the server's producers return is an `object`.
A command Redis has executed can lose its reply, to an error or a cancellation: a
`PUBLISH` has then told the waiters (`ReplyLost`, after which the sentinel is sent as
well; `SentinelReplyLost`), a `DEL` has freed the lock (`UnlockReplyLost`), and a `SET`
has taken it, which is how a request can be lost in `claimed`.

**Cache.** `live` is the set of keys whose value Redis has, `score` the sorted
set. `local[c]` is what client `c` is about to send, with the arguments it
computed earlier; a hit reads the clock when the reply to its `GET` is there (`Refresh`).
The TTL is taken to be at least a second, because Redis
refuses `EX 0` (see the end of section 3). The server calls `get` and `put` only;
`Maintenance` adds callers of `invalidate` and `clear`.

**Throttler.** vLLM's usage (`actual`) changes at any time; a fetch returns one
of the values it had during the fetch (`during`). `httpx`'s 5 s limit each wait for
the network, not the fetch: for a connection of the pool, to connect (TLS included),
to write, to read. So a fetch goes through up to `Waits` waits (`NextWait`), from
whichever it begins with, and a reply in parts (`Trickle`) starts the last one
anew. `ago`, `misses` and `trickled` are history and no guard reads them. It is `off` until `start()`, and never started
again after `stop()`; before and after nobody looks at vLLM, whose usage then
stands still. A reply without the gauge is read as a usage of
0, as in the code; `ago` takes this 0 for seen, so that freshness is about what
the loop last assumed.

**Backend client.** `spent` is the time in the current wait for the network, which is
what `httpx`'s timeout limits, and `wait` says which of the `Waits` of an attempt that
is (`Advance` goes on to the next). `elapsed` is what `wait_for` limits: it counts from
`coalesce()`, where a waiter may have spent up to 25 s before it calls the backend
(`HeldUp`), so a call starts with any part of that gone (`Start`). `Transient`
is a network error at any time or a timeout at its limit, which a call retries
and a stream does not. `Progress` is anything that arrives before the end: a
chunk of a stream, or a part of a slow reply. `Close` waits for the last request,
because the server leaves `lifespan` after its last connection.

**Server.** `pc[r]` is the await a request is at. `Produce`/`ProduceFallback`
include the call of `get_healthy_backend`, which is not separated from what
precedes it by an await. A request in `fallback` holds the event loop: only
`Tick` can come between its two scans of the pool. That is the only way for
the fallback model to get a backend at all, since the first scan found none:
some cooldown has to end in between. A claimant always ends in failure, since
its result cannot be published (finding `coalescer_result`); a waiter that
timed out can succeed. The set of coalescer outcomes is over-approximated: any
request may become claimant, waiter or failure. `Share` is another worker's
`put` of the same key.

**Answers.** A request is a record of endpoint, named model and question. A question
is what a model is asked: a prompt, or the messages of a chat with their roles, and
a temperature. `Text` is what the server makes of it, the prompt or the
contents of the messages joined by spaces (`api/server.py:431`,
`api/model_router.py:83`), which says neither who spoke nor where a message ends: several
questions have one text. Of a text the module keeps what the code computes: its length,
for `EstimateTokens`, and its lower-cased, stripped form, for `CacheKey`. Routing
looks at the one and the cache at the other. An answer says by which model and
to which question it was made and how old it is; `store` holds one per key with the
ticks left of its lease. `since` is the request's clock under `wait_for`, which a
stream has not. The pool is `up` or not, changed by `Outage` and `Recovery`; the
only other thing `Answers` knows of it is that a request enters the fallback
when it is down. As a claimant's product is lost (finding `coalescer_result`),
`Produce` stands for the waiters that gave up. `upFor` is history. The steps that
make no network call to a backend (`fallback`, `stale_lookup`, `storing`) take
less than a tick: this bounds how late a stale answer can be stored, and is the
one thing assumed of Redis.

**Configuration.** A section of a file is left out, null, strange (a key the
class does not know) or sets some fields. A number is one of five kinds, which is as
much as the checks and `int()` tell apart: negative, zero, positive, infinite, nan. A nan
passes for positive, since `n <= 0` is false of it. The limits of admission are
fractions, compared with each other. A load ends in the values somebody reads later, or
in the kind of the exception: `vllm: null`, and an instance whose `url` is no text (a
number in the list included), raise `AttributeError`, an instance that is a mapping of
other fields `TypeError`, where every other section gives `ConfigurationError`. The
first section with an error decides.

**Lifespan.** `stage` is the place in `create_app` and `lifespan`. `open` are the
clients that have connections to give back: one per backend once used, the
cache's, the coalescer's. A client that exists and was never used counts as
closed. Steps that wait for nobody are separate, because each can raise. `from_url`
connects to nothing yet: it only looks at the scheme of the url. `ConnectCache` includes
the checks of `RedisCache.__init__` and its `int(ttl_seconds)`. A probe goes through the
waits of its request one after the other (`ProbeAdvances`), each with the timeout of an
inference, and closes the client it made; that close is taken not to raise. The poll
task takes no step in stage `coalescing`: between `start()` and the `yield`
no await waits for anything, so it gets no turn. `Load` is `load_config`, with any file; the server as
`src/src/llm_inference_engine/api/server.py:733` runs it takes the defaults, which is
the case of no file.

`Reset` of the breaker and the closing of the pool (a loop over `close`) have no
action: nothing calls the one at run time, the other is `VLLMBackend`'s.

## 3. Runs

Each name is that of a run in `PROJECT.json`; the configuration has the bounds.

### Properties that hold

| Run | Properties | Instance |
|---|---|---|
| `pool` | types; `BreakerShape`: off closed iff the threshold of failures stands recorded; `NeverPicksCoolingBackend`; `NoStarvation`; `ImplementsStatelessPool`; `RecoversWhenFailuresStop` | 3 backends, threshold 2, cooldown 2, 2 calls in flight each |
| `coalescer` | types; `ExclusiveClaim`; `LockHasHolder`: only lost or disconnected requests leave a lock behind; `ImplementsSingleFlight`; `EveryRequestEnds`; `LockIsFreed` | 3 requests, every fault and lost reply, TTL 3, wait and hold 2 |
| `cache` | types; `LiveIsTracked`, while no calls have overlapped; `BoundedBetweenCalls`, while no hit has added a member; `LonePutRestoresBound`; `LoneUseIsNewest`; `LoneEvictionIsLRU` | 4 keys, 2 clients that may die, `max_size` 2 |
| `backend_retry` | types; `SilenceIsReported`; `EveryCallEnds`; `QuietStreamsEnd` | 2 calls or streams, 1 retry, 2 waits of 2 ticks in each attempt, 1 tick of the deadline gone or not, deadline one tick above that and the budget |
| `server` | types; `CallsAreTracked`; `ActiveIsExact`; `UsesPool`; `CompletionsTryStaleCache`; `SparesCoolingBackends`; `FallsBackInOutageOnly` | 3 requests of every kind, 2 backends, disconnects and Redis errors |
| `answers` | types; `AnswersFit`: to a question of the same text; `OutagesAreForgotten` | 2 requests, 2 models, 4 questions with 3 texts, every endpoint; lease and deadline of 2 ticks |
| `lifespan` | types; `DecisionsAreFresh`; `PressurePasses`; `AcceptedConfigStarts`; `ProbesAreBounded`; `NothingIsLeftOpen` | several hundred files in nine environments; up to 2 instances; fetches and probes of 2 waits; every fault |

Why the bounds suffice:

* *Backends.* Three is the least number for which "skip one, serve another,
  come back" differs from alternating. The theorems cover every number.
* *Threshold and cooldown 2* separate "below", "at" and "reset from", and
  "inside" from "just over".
* *Calls.* Two in flight give a late report next to a probe. In `Server` the
  limit is the number of requests and so never refuses a call: this is the
  assumption `MaxCallsSuffices`.
* *Requests of one hash.* Three: a winner, a second winner after the lock went,
  and a waiter, or a third claimant. TTL above wait is the order of the code's
  constants (30 s and 25 s); hold below TTL is the proviso of `ExclusiveClaim`. The
  code does not ensure it (a producer may run for the 300 s of its request), so this
  property says nothing of a producer that outlives the lock; the theorems
  `LocksHaveHolders` and `CoalescerImplementsSingleFlight` hold for any times.
* *Cache.* Two clients are enough for every pair of commands to interleave;
  with four keys and `max_size` 2 an eviction can have two victims, and a key
  can be used while it is being removed. `Maintenance` is on, for the interleavings of
  `invalidate` and `clear`; run `cache_ghost` needs neither and has it off. Six clock readings fill the cache, fill
  it over, and leave two uses for the repair.
* *Retries.* `Deadline` is `HeldUp + SilentBudget + 1`, the tightest value for which
  the property claims anything. One retry has an attempt before and after a sleep, and
  two waits in an attempt are the least with one in which the backend cannot have
  spoken; `RetryInvariant` has any number of both, and sleeps that differ. Two requests
  share the client, and one can end while the other goes on.
* *`server`* has three requests, so that one can be in the fallback while another
  fills the cache and a third ends a stream, and two backends with threshold 1,
  so that a call can be charged to the wrong one and the pool can be down. The
  one step that is not the pool's, a stream whose `put` fails, is named in
  `UsesPool`: everything else must be a step of `BackendPool`.
* *`answers`*: two texts share a key and are routed differently, a third has its own
  and is that of two questions, a prompt and a chat of two messages; a request can
  name its model or not. Two requests are enough for one
  to store what the other is answered from. With a lease and a deadline of two,
  an entry can be stored, grow old, be stored again and grow old again. The
  property is about the tick after the fourth, up to which clocks run exactly.
* *`lifespan`*: every field a check looks at is given a value on each side of the
  check, with every form of section, and mixed with every environment for the
  three sections whose values are used; a nan and an infinity are among the values
  of numbers. Two instances are the least with a
  probe after a probe.

### Documented behaviour the code does not have

Each of these runs checks one sentence of a comment or document and ends in a
counterexample. `PROJECT.json` quotes the sentence.

| Run | What happens |
|---|---|
| `pool_late_success` | a call sent earlier succeeds and closes an open circuit inside its cooldown |
| `coalescer_lost_wakeup` | the winner publishes between a loser's `SET` and `SUBSCRIBE` |
| `coalescer_result` | the winner of every coalesced request of the server raises `TypeError` |
| `cache_ghost` | between the `GET` and the `ZADD` of a hit another worker's put evicts its key; the `ZADD` adds it again, and the set stays above `max_size` |
| `server_leak` | a stream whose client leaves at once stays counted |

They mark the limits of the properties that hold. The sorted set is bounded
between calls unless the `ZADD` of a hit adds a member (`BoundedBetweenCalls`), which
happens when calls overlap (`cache_ghost`), and heals at the next undisturbed put
(`LonePutRestoresBound`). The gauge is exact but for leaked streams
(`ActiveIsExact`), and these are real (`server_leak`). Section 5 has for each of
the five a theorem that says when the sentence is true, or which step alone breaks it.

### Seen while modelling, without a run

The models contain the steps that lead to these; no run is spent on them.

* `is_available` lets every request through while half-open, not one probe
  (`api/circuit_breaker.py:66`, comment in line 8).
* A cancelled winner publishes no sentinel (`Cancel` in `Coalescer`;
  `api/coalescer.py:113`, comment in line 114). A winner that outlives the TTL
  deletes the lock of its successor (line 118). A text that is JSON reaches
  waiters parsed (`Decoded`; line 142).
* A put between the `DEL` and the `ZREM` of an eviction leaves a value outside
  the sorted set (`api/cache.py:182`); expired members count against `max_size`
  (line 171); a TTL below one second becomes `EX 0` (line 62), which Redis
  refuses while it runs the `ZADD` of the same block.
* A TTL of `.inf` or `.nan` passes `config.py:80` and `api/cache.py:60` and then raises
  `OverflowError` or `ValueError` at `api/cache.py:62`: the second exception
  `AcceptedConfigStarts` names. `src/docs/usage_guide.md:106` says that a TTL of 0
  disables expiry; `config.py:80` refuses it.
* Other numbers that are not finite are accepted and followed no further here: a
  `failure_threshold` of nan never opens a circuit, a `retry_count` that is no int fails
  in `range()` (`integration/vllm_backend.py:228`), `poll_interval_seconds` reaches
  `asyncio.sleep`.
* With the default timeouts the retry loop needs at least 361 s for a backend that
  takes connections and says nothing, more if connecting is slow as well (each wait has
  its own 120 s), and the request is cancelled after 300 s, of which the coalescer may
  have taken 25. So a hung backend is not recorded as failed (`api/server.py:361`): the
  proviso of `SilenceIsReported`.
* The 5 s of the throttler's client limit a wait, not a fetch
  (`optimization/throttler.py:167`): a `/metrics` that dribbles holds the poll loop as
  long as it likes, and admission decides on the last value meanwhile (`Trickle`; the
  exception of `DecisionsAreFresh`). The start-up probes have the same gap (`Dribble`).
* A chat is looked up, and stored, under the contents of its messages joined by spaces
  (`api/server.py:431`): a system message `a` and a user's `b` share an answer with a
  user's `a b`, with the roles swapped, and with the completion of `a b` (run
  `answers` has such a pair; `AnswersFit` speaks of texts for that reason).
* A Redis error while a stream's text is stored is recorded as a failure of the
  backend, after its success (`StreamStoreRaises`; `api/server.py:628`): the
  exception `UsesPool` names.
* The server never loads the file: it runs `create_app()` with the defaults
  (`api/server.py:733`), while `src/README.md:94` and `src/docs/architecture.md`
  describe `load_config`. `Load` is the path the documents describe.
* The loader lets `TypeError` and `AttributeError` escape (`VLLMConfig`;
  `config.py:23` and `config.py:243`, docstring in line 209). `retry_backoff_seconds` and
  Redis's url are not checked; a bad url stops start-up, without a cache only after the poll
  task was started, which then is left (`AcceptedConfigStarts`,
  `NothingIsLeftOpen`; `api/server.py:134`).
* `redis.socket_timeout_seconds` is checked and reaches no client, and `get` and
  `put` are outside `wait_for`: a Redis that hangs holds the request.
* The probes at start-up wait for one backend after the other
  (`ProbesAreBounded`; comment "non-blocking" in `api/server.py:98`).
* A close that raises in the clean-up leaves the later ones undone
  (`CloseRaises`; `api/server.py:160`).
* An answer of the stale cache is stored again with a full lease, so it can
  outlive `ttl_seconds`, and can replace a fresher one (`StaleHit`, `Put`;
  `api/server.py:378`, docstring `api/cache.py:47`). `OutagesAreForgotten` says how
  long this can go on. The response names the model asked for, whoever answered.
* A model name with a colon can make the key of another model and prompt
  (`api/cache.py:36`).
* `route_chat` does not look into the stale cache (`GiveUpFallback`;
  `api/fallback_router.py:149`), so `CompletionsTryStaleCache` is about
  completions. Admission is asked before the cache (`Reject`;
  `api/server.py:304`), and streams are cached (`StreamStore`;
  `api/server.py:627`), both against `src/docs/architecture.md`.

* The cache key has neither `max_tokens` nor `temperature` (`api/cache.py:36`), against
  `src/docs/architecture.md:116` and `src/docs/usage_guide.md:109`: a request at one
  temperature is answered with what was made at another (`Hit`; in run `answers` a
  completion and a stream of the same text have different ones), which is the second
  reason why `AnswersFit` speaks of texts.

Deadlock checking is off for `VLLMBackend` and `Server`, which stop when every
request has ended, and for `Lifespan`, which stops when the server is down.

## 4. Fairness

* **Pool** (`RecoversWhenFailuresStop`): weak fairness of `Tick` and of picks,
  because time passes and the claim is about a server that still has traffic
  (nothing but a request moves a half-open circuit). Strong fairness of "a call
  to b reports": a request to a backend may be cancelled, but not each and
  every one for ever; the calls are enabled only while one is in flight, hence
  strong.
* **Coalescer**: weak fairness of `Tick` and of each request's own steps. The
  event loop schedules every ready task, timers fire, and the server wraps
  every producer in `wait_for`, so it returns or is cancelled. No fairness on
  faults.
* **Throttler** (`PressurePasses`, run `lifespan`): weak fairness of `Tick` and
  `Fetch`, strong fairness of leaving each wait of a fetch and of a good poll
  ("reachable now and then", and no reply that dribbles for ever). Without it
  the property is false: failing polls, or one endless reply, keep the last value. The premise
  asks for a throttler that keeps running, since nobody forgets after a stop.
  No fairness of start-up or shutdown is assumed.
* **Backend client**: weak fairness of `Tick` and of what a timer sets off (a
  timeout, the end of a sleep, the deadline). Nothing is assumed of the backend,
  which may send something for ever without ending: only the deadline ends such a
  call, and nothing such a stream, hence the premise of `QuietStreamsEnd`.

## 5. What is proved

All proofs are checked by `tlapm` to the last leaf.

| Theorem | Says | From |
|---|---|---|
| `PoolInvariant`, `TypeCorrect`, `BreakersAreShaped` | the pool's inductive invariant, types, `BreakerShape` | any `N`, threshold, cooldown, number of calls |
| `CoolingBackendsAreLeftAlone` | `NeverPicksCoolingBackend` | `PoolInvariant` |
| `PoolImplementsStatelessPool` | `BackendPool` refines `StatelessPool` | `PoolInvariant` |
| `RoundRobinServesEveryone` | `NoStarvation` | `PoolInvariant`, `ScanInv` |
| `OnlyLateSuccessesCutShort` | inside its cooldown a circuit leaves open only by the report of a success: all that breaks `OpenLastsForCooldown` in run `pool_late_success` | any number of calls in flight |
| `CoalescerInvariant`, `CoalescerTypes` | the coalescer's inductive invariant, types | any set of requests, any faults |
| `ClaimsAreExclusive` | `ExclusiveClaim` | `MaxHold < LockTTL` |
| `LocksHaveHolders` | `LockHasHolder` | any requests, times and faults |
| `CoalescerImplementsSingleFlight` | `Coalescer` refines `SingleFlight` | any requests, results, times and faults |
| `ObjectsAreNotShared` | no answer is another's product, nothing is ever published but the sentinel | producers return objects, as the server's do |
| `OnlyClaimantsLoseProducts` | who has produced is answered with an error only as a claimant whose product `json.dumps` refuses or Redis fails to take: all that breaks `ProducedIsReturned` in run `coalescer_result` | any results, objects included, and any faults |
| `TimelySubscribersAreServed` | `WaitersHaveAProducer`, which run `coalescer_lost_wakeup` refutes | no faults, and every `SUBSCRIBE` before the result is published |
| `CacheInvariant`, `CacheTypes` | the cache's inductive invariant, types | any finite set of keys, any clients, any `max_size` |
| `LiveStaysTracked`, `BoundedWhenSettled`, `LoneEvictionRestoresBound` | `LiveIsTracked`, `BoundedBetweenCalls`, `LonePutRestoresBound` | `CacheInvariant` |
| `LoneUsesAreNewest`, `LoneEvictionsAreLRU` | `LoneUseIsNewest`, `LoneEvictionIsLRU` | `CacheInvariant`, `OrderInv` |
| `RetryInvariant`, `VLLMBackendTypes`, `SilenceIsAlwaysReported` | the loop's inductive invariant, types, `SilenceIsReported` | any requests, retries, waits, timeout, backoff, deadline, and any part of it gone |
| `ServerUsesPool` | each step of `Server` is one of `BackendPool` or `StreamStoreRaises` | any requests, backends, faults |
| `ServerImplementsPool` | `Server` refines `BackendPool` | Redis answers |
| `CoolingBackendsAreSpared`, `FallbackMeansOutage` | `SparesCoolingBackends`, `FallsBackInOutageOnly` | any requests, backends, faults |
| `ActiveSettlesWithoutLeaks` | `ActiveSettles`, which run `server_leak` refutes | no streams, or no disconnects and Redis errors |
| `GaugeIsExact`, `CallsStayTracked` | `ActiveIsExact`, `CallsAreTracked` | any finite set of requests, any faults |
| `ServerTypes`, `StaleCacheIsTried` | types, `CompletionsTryStaleCache` | the same |
| `AnswersTyped`, `AnswersAreFitting` | types, `AnswersFit` | any requests, models, questions, texts, threshold |
| `OutagesPass` | `OutagesAreForgotten` | any lease and deadline of a tick or more |
| `DecisionsStayFresh` | types, `DecisionsAreFresh` of `Throttler` | any limits, interval, waits, timeout, faults |
| `LifespanDrivesThrottler` | `Lifespan` refines `Throttler` | nothing |
| `LifespanTypes`, `LifespanDecisions` | `LifeTypeOK`, `DecisionsAreFresh` | any files and environments |
| `AcceptedConfigsStart` | `AcceptedConfigStarts` | instances of a file are a list of the four kinds (`FilesAssumption`) |
| `StartupIsBounded`, `NothingStaysOpen` | `ProbesAreBounded`, `NothingIsLeftOpen` | the same |

*Pool.* `BreakerShape` is not inductive. That a failed probe reopens a circuit
depends on the count still being at the threshold when it is half-open, and that
picking only available breakers means picking cooled ones depends on half-open
being reached only after the cooldown. `PoolInv` says both for each breaker
(`Shaped`); the lemmas show that every method keeps it, and one step per action
lifts that to the pool. `AvailableIsUsable` turns it into the refinement: for a
well-shaped breaker, "available" is a function of count and age.

*Round robin.* `passed[b] < N` says nothing about the next step.
`ScanInv` adds the distance from the cursor to `b` in scan order: picks that
passed `b` over plus the turns until the scan reaches it stay below `N`. A pick
that passes an available `b` moves the cursor behind the picked backend, which
lies before `b`, so the distance shrinks by at least as much as `passed` grows.
The arithmetic of `%` is in `ModSmall`, `ModOneTurn` and `ModCases`.

*Coalescer.* Exclusiveness needs to know that the lock is in Redis while there is
a claimant, which needs to know that it has not expired: `CoalescerInv` says
that for the one claimant the lock is as old as its clock, and the clock is at
most `MaxHold`. Under `MaxHold < LockTTL` the lock cannot be `Free`, so `SET NX`
fails for everyone else and every `DEL` is the holder's own. The assumption is
the exact limit: beyond it a second request can claim while the first runs.

`LockHasHolder` needs none of that. A claimant stops being one by its `DEL`, which
leaves no lock, or by being lost; and a request once lost stays so, since it has at
most the `DEL` ahead of it (`GoneInv`). So a claim that outlives the lock's TTL may
delete another's lock but never leaves one.

*Single flight.* `CoalescerImplementsSingleFlight` is proved per action. The abstract
holders are the claimants, and shared is what lies in some inbox. An answer must
come while none was given, from the request's own product made once, or from
what a holder publishes at that moment. `ProductInv` says so of the stages: before
its place in `coalesce` nothing is made or answered, what is at `PUBLISH` is a
product that can be sent, and only a `DEL` follows an answer. Beyond the TTL there
may be several holders, so the theorem has no condition: `MaxHold < LockTTL` is
what `Exclusive` stands for in the mapping.

*Cache.* Its bound is about how many members `ZRANGE` lists: of `n` asked for, `n`.
That rests on scores being different (`StampInv`: clock readings are, used or still
pending), and on `LowestAreN`: the number of members below each is a one-to-one map
into `0..m-1`, so by counting onto it, and `n` of them are below `n`. An eviction
in whose time no other call runs then removes the surplus it counted (`AloneInv`).
Between two commands of a call the two Redis keys disagree in one direction only,
the value goes before its member (`HalfDone`), so a worker that dies there leaves a
member without a value and never a value without a member. `BoundInv` says that the set
exceeds `max_size` only while some eviction, from what it has counted or listed, will
remove the excess (`Covers`). Other calls may run meanwhile: whoever removes members
leaves it enough, a put is itself about to count, and what adds a member without
counting is the `ZADD` of a hit alone. `GhostInv` says that a hit nobody overlapped adds
none.

`OrderInv` is about calls with nobody in between. What such a call is about to send
carries the last reading of the clock, so it becomes the newest member
(`LoneUseIsNewest`). And the members it is about to remove are older than all
others: they are so when `ZRANGE` lists them (`OldestAreBelow`), and stay so until
`DEL` and `ZREM` (`LoneEvictionIsLRU`).

*Backend client.* `Cost(a)` is what a silent backend can have cost before attempt
`a`. `RetryOf` says that a call to one has lasted no longer than what was gone when it
began, that, a timeout for each wait behind it, and its current wait. One attempt more
costs the timeouts of all its waits and the sleep (`CostGrows`), and at the last attempt
that is the budget (`BudgetIsCost`), which the deadline exceeds.

*Server.* A step that ends a call must be a report of that call to the pool,
which needs a target among the backends. `CallInv` says that whoever waits for
a call has one. Every action is then a step of the pool or leaves it alone, but
for `StreamStoreRaises`, which reports a backend that is owed no report. Without
that step what is proved of the pool holds of the pool in the server.

`SparesCoolingBackends` cannot be taken from the pool's theorem, because of that
step: its report can hit a breaker in any state. `ShapeInv` is the
pool's shape of breakers, shown to survive a failure reported at any time, and
so every pick is of a backend that is not cooling. Read the other way, a scan that
finds none has looked at every breaker, and a well-shaped breaker that is
unavailable is cooling (`FallsBackInOutageOnly`).

*Gauge.* `ActiveIsExact` is inductive next to `CallInv`: a request is on one side
of the gauge or the other, and each action moves it to a stage on the same side
and leaves the counter (`GoesOn`), or across with the counter (`Enters`,
`Leaves`). `Leaves` shows that the counter is above 0, so the `max(0, ...)` never
cuts.

*Findings, from the other side.* The refuted properties are proved where the step that
breaks them is ruled out, or the steps that can break them are named, so that nothing
else does. Inside its cooldown a circuit stays open through reads
(`ReadingWaitsForCooldown`), late failures (`LateFailureLeavesOpen`), picks and ticks,
with any number of calls in flight: a late success alone closes it
(`OnlyLateSuccessesCutShort`). A waiter has a producer when it
has subscribed before the result is published (`TimelySubscribersAreServed`); the lock
does not tell, since it is held until after the publication. Of those who have produced,
only a claimant can be told of an error, and only when its product is an object or Redis
fails (`OnlyClaimantsLoseProducts`); that includes what the server's producers return,
which are objects always, so there every claimant loses its product and no one else
does. The sorted set is bounded
without hits that add members (`BoundedWhenSettled`): `ZADD` with `XX` would be enough.
The gauge settles when no stream can end before its `try`
(`ActiveSettlesWithoutLeaks`).

*How the modules rest on each other.* `Server` and `Answers` let a coalesced request
fail or produce for itself, and never receive another's result. That this is all
`Coalescer` can do to them is `ObjectsAreNotShared`. `Server` names `BackendPool`'s
actions; that they add up to its specification is `ServerImplementsPool`, which
carries the pool's theorems into the server. `Lifespan` and `Throttler` are linked by
`LifespanDrivesThrottler`.

*Calls.* `CallsAreTracked` is the gauge's argument for each backend: a request joins the
callers of the backend it picked and leaves those of the backend it reports on
(`BeginsCall`, `EndsCall`).

*Answers.* `AnswersFit` needs the same of the cache (`EntriesFit`): what a key holds
answers a question whose text is the key's prompt, by the key's model or the fallback
model. Nothing is assumed of how texts are made of questions. An entry is
made of an answer that fits and an answer of an entry that fits, so passing
answers on changes nothing (`EntryFits`, `AnswerFits`). `OutagesAreForgotten` needs
to know how late each of its sources can still act. `ForgetInv` follows a request
through the fallback: it enters while the pool is down, waits no longer than its
deadline, and so stores within a deadline of the outage or stores the asked
model's own fresh answer. An entry was then stored so late, or is as old as its
lease has run (`Lasting`), and both say what is left when a deadline and a lease
have passed.

*Throttler.* `DecisionsAreFresh` holds between polls because of what happens in
them: whatever a fetch can return was true during the fetch, so is no older than
the fetch, and the value in use is younger than allowed by what remains of the
running phase (`Recent`). A fetch that is in its last wait has spent at most a timeout in
each wait before it (`WaitCosts`), unless its reply comes in parts; `trickled` then says
so until a later reply has come at once. A failed poll adds a failure, which allows one cycle
more (`AgePerMiss`).

*Lifespan.* `LifeInv` says for each stage what is configured, started and open.
That a failed start-up leaves nothing open needs the configuration first: if the
throttler could refuse its limits, the cache's connection would be left. It
follows from `LoadedIsUsable`: a configuration without a section in error has
passed each section's check, and these imply the constructors'. The bound of
the probes counts the ones ended, a timeout for each wait behind the running one, and
the time of its present wait (`ProbeInv`).

## 6. What is only model-checked

* Liveness (`RecoversWhenFailuresStop`, `EveryRequestEnds`, `LockIsFreed`,
  `PressurePasses`, `EveryCallEnds`, `QuietStreamsEnd`), which the prover cannot do
  under fairness.

Every invariant and action property of the runs that hold is also proved.

## 7. What is not modelled

* Schemas, exceptions and the API-key check: functions of one request, without
  state.
* Of the configuration, the fields nobody checks, values of a wrong type, and
  `to_dict`, which nothing calls at run time.
* Metrics: counters nothing reads, the active-request gauge apart.
* Parsing of SSE lines and replies, building of responses, status codes of
  waiters, sampling parameters but the temperature.
* A stream whose client is connected but reads nothing: its generator stays suspended at
  a `yield`, which no timer of this code ends.
* How long Redis takes: `Server` and `Answers` let every cache call end (see the end of
  section 3).
* `src/scripts`, benchmarks and reports: offline and sequential, file and process
  I/O whose results nothing in the engine reads.

## 8. Plan

Done, in the order of importance: pool with its abstract specification;
coalescer; cache; throttler; backend client; server over the pool; answers,
configuration and lifespan; for each, the proofs of its safety properties.

Left, models:

1. `Server` with `Coalescer` and `ResponseCache` in place of their observations,
   and two workers: what a waiter's status code is.
2. An abstract cache (a set of at most `max_size` keys that forgets the least
   recently used), with the refinement where it holds: calls one after another.

Left, proofs: none of what the runs check, liveness apart.
