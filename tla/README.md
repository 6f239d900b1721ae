# L3 store: models, checks and proofs

This directory holds TLA+ specifications of the Python package `src/src/l3store`, the third
level of a cache for LLM serving: KV blocks, RAG objects, semantic cache entries, plans, tool
results and agent traces kept in S3 (or in memory) behind an in-process metadata store.  Each
module is written from the code and names the file it models; `PROJECT.json` maps every
definition to the lines it stands for.

TLC checks the small instances in the `.cfg` files; TLAPS proves the theorems of the `*Proofs`
modules for every value of the constants.

## 1. Inventory

### Parts of the system

| Part | State | Operations | Hard behaviour |
|---|---|---|---|
| Object store, `core/object_store.py` | none of its own: a backend and a metadata store | put, get, delete, list of eight object types, `prefetch_batch` | two keys per object written, read and deleted in separate requests; rollback; no lock |
| Backends, `storage/` | keys in a dict or a bucket | put, get, delete, delete_many, exists, list_keys | requests fail before or after their effect; `delete_many` stops halfway; S3 and memory count missing keys differently |
| Metadata store, `metadata/metadata_store.py` | the three structures below | register, unregister, might_exist, searches, `_ensure_hnsw` | order of updates; two first entries that each create the index; empty after a restart |
| Bloom filter, `metadata/bloom_filter.py` | a bit array | add, might_contain | probes of different threads interleave |
| Prefix tree, `metadata/prefix_tree.py` | nodes, block ids, token lists | insert, remove, search | nodes created twice or pruned under another thread; re-registration |
| HNSW index, `metadata/hnsw_index.py` | labels, names, free list, vectors | add, remove, search | label reuse between threads; failing `add_items`; a full index |
| Tool artifact cache, `agent/tool_cache.py` | key to artifact index, counters | put, get, invalidate, purge_expired, rebuild_index | several store calls per operation; expiry; versions; restart |
| Semantic cache, `semantic_cache/` | none but the store's index | get_or_generate, load at start | misses and deletes between search and read; calls that raise halfway; a full index; restart |
| Plan cache, `agent/plan_cache.py` | an HNSW index of its own | put, search, record_plan_result, delete, load at start | index and store change in separate steps; two calls on one plan; a second manager; restart |
| Embedding service, `embeddings/` | an LRU dictionary | embed, clear_cache | lookup, move, insert and eviction of other calls in between; a text evicted before it is moved |
| Agent step graph, `metadata/agent_step_graph.py` | workflow lists, parent and child links, completion | add_step, mark_step_completed, predict_next_steps, steps_to_execution | completion out of order |
| Agent prefetch policy, `policies/prefetch/agent_prefetch.py` | current step, objects per step, accounting | register_step_objects, predict_prefetch, callbacks | repeated predictions, late callbacks, the cut to `max_decisions` |
| Agent retention policy and latency estimator, `policies/retention`, `policies/agent` | decisions, pinned and offloaded blocks, samples | on_llm_step_completed, prefetch_due, callbacks | polls at any time; steps decided again; which observations an estimate rests on |
| Session prefetch, `policies/prefetch/session_prefetch.py` | recent prompts per session | on_request_completed, predict_prefetch | blocks registered and removed, and requests completed, between the searches of one prediction |
| Adaptive prefetch, `policies/prefetch/adaptive.py` | depth, counters of one window | on_prefetch_used, predict_prefetch | window boundaries, depth limits |
| Eviction policies, `policies/eviction` | recency order; times, counts and sharers of the blocks; the current step | on_block_added, on_block_accessed, on_block_evicted, set_current_step, select_victim | uses reported after an eviction; blocks that come back; signals of different ages in one score |
| gRPC server and client, `api/` | none | one handler per store operation, PrefetchBatch | ten worker threads over one store; a batch over objects that come and go |
| Types, serialization, configuration, entry | none | codecs, YAML, process start | none |
| Benchmarks and deployment | counters of a run | workloads, reports | outside the running system |

### How they interact

The gRPC server runs its handlers on a pool of ten threads that share one
`UnifiedObjectStore`.  A call of the store makes requests to the backend and direct calls into
the metadata store.  Nothing in the package takes a lock, so all shared state is subject to the
interleaving of threads; `test_concurrent_access.py` states that this is how the store is meant
to be used.  The semantic, plan and tool caches call the store from the process they live in.
The semantic cache uses the HNSW index inside the metadata store, the plan cache builds its own.
The policies are called by one runtime and share nothing with the store but object ids: the
decisions of a prefetch policy go to the server in one PrefetchBatch call, an eviction policy is
asked when L2 is full.  Only session prefetch holds a reference to the metadata store, whose
prefix tree it searches.

A process restart loses everything except what is in the bucket.

### What makes each part correct

* **Store**: an acknowledged put is readable until the next write; reads return an object some
  put wrote; searches name objects that exist; a failing or overlapping call has no effect
  outside its own object; every call returns.
* **Bloom filter**: never a false negative.
* **Prefix tree**: finds exactly the registered blocks; keeps no dead nodes; no change of the
  tree sends a walk back.
* **HNSW index**: a label belongs to one object; the two maps agree; a name keeps its vector.
* **Tool cache**: never returns a superseded, invalidated or expired version; store and index
  hold the same artifacts; a rebuild finds what is stored.
* **Semantic cache**: a cached answer is found again, after a restart too, and not generated
  twice; what is stored is searchable.
* **Plan cache**: index and store agree; a result is lost only to one recorded at the same time.
* **Step graph and prefetch**: predictions lie ahead and do not run dry; the next step's objects
  come first; the reported ratios are ratios.
* **First index**: an entry is searchable unless its call overlapped the creation of the index.
* **Embedding cache**: it keeps to its limit and to the texts used last.
* **Batch prefetch**: what it brings was there, under the id and the type asked for; what was
  there is brought; guesses do not make it fail; it ends.
* **Session and adaptive prefetch**: predictions match the session's own prompts, the longest
  matches first; the depth follows the windows of reported prefetches.
* **Eviction**: no victim is better than another candidate in every respect.
* **Retention**: a block that is offloaded or pinned has a decision that brings it back; nothing
  is prefetched twice for one call; estimates rest on what was observed for the call's arguments.

The hazards with their source lines are in `PROJECT.json`.

## 2. Modules

| Module | Models | Correspondence |
|---|---|---|
| `ObjectStore` | store, backends, the metadata store's updates | `pc[t]` is the place of a thread in `put_*`, `get_*`, `delete_*`; one action per backend request or metadata call; `Fault` lets a request fail with or without its effect |
| `StoreHistory` | | adds the history the safety properties speak about |
| `AtomicStore` | the promise of the store | a call takes effect in one step; a raised put is in doubt; gets are regular |
| `StoreRefinement` | | maps `ObjectStore` to `AtomicStore` |
| `BloomSet`, `BloomFilter` | the filter's promise, the filter | one action per probe of `add` and `might_contain`; `Hash` stands for the mmh3 positions and is any function |
| `PrefixTree` | the trie | one action per turn of a loop and per call between two dictionary accesses; nodes have numbers, `children[n][k]` is the child dictionary |
| `HNSWIndex` | the index over hnswlib | one action per call; hnswlib is the map `vector` and the set `deleted` |
| `ToolCache` | the tool artifact cache | one caller, one action per store call, `clock` for `time.time()` |
| `SemanticCache` | `get_or_generate`, direct deletes, the load at start | a topic is a set of prompts above the threshold of each other |
| `PlanCache` | the plan manager | one action per call into the store or the index |
| `AgentSteps` | step graph and agent prefetch policy | one action per method |
| `AgentTTL` | retention policy and latency estimator | one action per method or branch of it; a latency is short or long, and the moving average lies anywhere between its last value and the new latency |
| `LazyIndex` | `_ensure_hnsw`, `on_semantic_entry_added`, `on_object_removed` | one action per piece of code between two calls; an index has the name of the thread that made it |
| `EmbeddingCache` | the cached embedding service | `cache` is the key order of the `OrderedDict`; one action per dictionary call |
| `PrefetchBatch` | client, handler and store of PrefetchBatch | one action per decision loaded; other calls write and delete objects between two loads |
| `SessionPrefetch`, `AdaptivePrefetch` | the two prefetch policies | one action per callback and per search of the tree |
| `Eviction` | LRU, prefix reuse and workflow aware eviction | one action per notice; the victim is an operator of the state, for every set of candidates |
| `StoreProofs`, `BloomProofs`, `PrefixTreeProofs`, `ToolCacheProofs`, `AgentProofs` | | theorems about one component, with their proofs |
| `SemanticPathProofs`, `PlanCacheProofs`, `PrefetchProofs` | | theorems about what `MCSemanticPath`, `MCPlanCache` and `MCPrefetch` compose; those about the components of each are in them |
| `MC*` | | constants and symmetry for TLC |

The modules compose as the code does.  `AtomicStore` is the contract the three caches rely on,
and the caches model the store by what it promises: a readable object is one whose id passed
the Bloom filter and whose keys are there.  `HNSWIndex` establishes when an index is the set of
names that `ObjectStore`, `SemanticCache` and `PlanCache` take it for, and `BloomFilter` when
the filter is the growing set they use.  `LazyIndex` says when there is one index at all.
`PrefetchBatch` takes a load for the single step `AtomicStore` makes of it, and `SessionPrefetch`
the tree for what `PrefixTree` promises, where a search may also raise.

Three MC modules put components side by side: `MCSemanticPath` what a semantic lookup goes
through, `MCPrefetch` what brings blocks to the faster levels and out of them, `MCPlanCache` the
plan cache and the retention policy.  They rely on each other's promises only and share no
variable, so one moves while the others are in their initial state; their interleavings would
show nothing more.

### Steps

CPython switches threads between bytecodes; the interpreter checks for a switch at calls and at
the back edge of loops.  A step is the code between two such points (prefix tree, HNSW index,
Bloom filter) or between two requests to the backend or the metadata (store and caches).  Pure
computation on local values is joined with the step before it.

Every put goes through `_put_pair` or a single `put`, so the object types differ only in the
number of keys, in whether an index is updated and in which one; the eight types are the id
classes `PairIds`, `MetaIds`, `IndexedIds` and `SemanticIds`.  Payloads are versions.

### Assumptions on callers

The first five are constants, so a run can do without them; the others are in the guards:

* `ExclusiveIds`: ids on which writing calls do not overlap.  New objects get a uuid4, so two
  puts of one id only happen when an object is rewritten.
* `WriteOnceIds`: ids that are put once.  Reads of rewritten ids can be torn (`store_torn_read`),
  and the refinement therefore speaks about the others.
* `AddsOverlap` (HNSW): whether two threads add one id at a time.  `MapsAgree` is checked
  and proved for `FALSE`; the other theorems hold for both values.
* `Overlap` (prefix tree): whether inserts overlap other writers.
* `Rewrites` (prefix tree): whether a block is inserted again with other tokens.
* The prompts of the semantic cache fall into topics: similarity above the threshold is taken as
  an equivalence.
* Each tool call has an id of its own (`NewCall` in `AgentTTL`): an id decided a second time is never
  prefetched again.
* An index of `LazyIndex` has room for all entries: a full one is the business of `HNSWIndex`,
  `SemanticCache` and `PlanCache`.
* Objects a batch asks for are put once per id and type, as in `AtomicStore`.
* A runtime tells the eviction policy when a block comes in and goes out, and asks with the
  candidates it has in L2; only reports of use may come late.

## 3. Runs

| Run | Question and answer | Instance |
|---|---|---|
| `store_history` | Do acknowledged puts stay readable, do searches name stored objects, does every step of a call bring it closer to its end, with a failing request, a full index and a restart?  Yes. | 2 threads, 2 semantic entries, room for 1, 2 versions |
| `store_refinement` | Does the store implement `AtomicStore`, does every call return?  Yes. | 2 threads, a KV block and a workflow, 2 versions, 1 fault |
| `store_torn_read` | Are reads whole?  No: a get over an overwrite mixes two puts. | 2 threads, 1 block |
| `bloom_filter` | Is the unlocked filter a growing set?  Yes. | 3 threads, 3 keys with common bits, 2 probes, 10 bits |
| `prefix_tree` | Does the tree hold the registered blocks exactly, is a concurrent search correct, are emptied nodes pruned, does every step of a call bring it closer to its end?  Yes, when inserts come one at a time. | 2 writers, 1 reader, 2 blocks, tokens of length 2 |
| `prefix_tree_lost` | Is what is registered found when inserts overlap?  No: two inserts can create one node twice. | 2 writers |
| `tool_cache` | Is a hit of the current version, do store and index agree while nothing fails, does a rebuild pick the longest-lived version?  Yes. | 2 keys, 2 versions, clock to 3, 1 fault, 1 restart |
| `tool_cache_restart` | Does a rebuild find the persisted artifacts?  No: the new Bloom filter denies them. | 1 restart |
| `semantic_path` | Do labels of the index have one owner, its maps agree, named vectors stay?  Is what the semantic cache stored searchable, also when calls raise halfway, and a cached topic not generated again?  Are only the entries of overlapping first calls lost to a second index?  Does the embedding cache keep to its limit and to the texts used last?  Yes. | index: 3 threads, 2 objects, 2 elements, 1 failing add; cache: 2 threads, 2 topics, 3 entries, room for 2, 1 restart; creation: 3 threads, 3 entries, 2 dimensions, 4 calls; embeddings: 2 threads, 4 texts, room for 3, 7 calls |
| `prefetch` | Is a batch answered with what was there, and all of it; does it fail only for requests that mix types or loads that are refused; does it end?  Do victims, session predictions and the adaptive depth follow from what was reported?  Yes. | batch: lists of 2 and 3 decisions over 2 ids and 4 types, one of them unknown, 2 writes, 1 refused load; eviction: 3 blocks, 2 agents, 4 notices; sessions: 2, history of 2, 3 requests, 3 changes of the tree; depth 1 to 3, windows of 4, thresholds of one and three hits in four, 12 reports |
| `plan_cache` | Do index and store agree, is a result lost only to one recorded at the same time?  Does the retention policy keep a decision for each held block, prefetch once and estimate from what it observed?  Yes. | 2 threads, 2 plans, room for 1, 3 results, 1 fault, 1 second manager, 1 restart; apart from it 2 steps, 2 tool calls, 1 block |
| `agent_steps` | Are predictions ahead, do they last, do turns come closer, do the next step's objects win, are the ratios ratios?  Yes. | 3 steps, 2 workflows, 2 agents, 2 objects, room for 1 decision |

The three runs that end in a violation show disagreements between code and documentation; they
are described under "findings" in `PROJECT.json`.  Two more were met while modelling and are kept
as hazards: a block inserted again with other tokens is found by its old tokens too
(`prefix_tree.py:38`), and `HNSWIndex.search` can return the object a label was given after the
query (`hnsw_index.py:97`).  Three divergences have no run of their own:

* `prefetch_batch` promises that "callers can safely pass speculative decisions"
  (`object_store.py:441`).  A PrefetchBatch request that names one id with two types fails
  although both decisions are legal, because the handler encodes the one result as each of them;
  `OnlyMixedRequestsFail` says that this is the only such request.
* `EvictionDecision.priority` is documented as "чем меньше, тем раньше эвиктируем" (the smaller,
  the earlier we evict; `policies/base.py:16`).  LRU returns the time of the last use, which fits;
  the scoring policies return the negated score of the victim (`prefix_reuse.py:90`,
  `workflow_aware.py:90`), so of two victims the one they would rather evict has the larger value.
* A use reported after the eviction of a block gives it an entry again that no eviction removes,
  in all three eviction policies.

**Bounds.**  All are constants named as such in the modules: faults, restarts, versions, entries,
clock, labels, nodes.  Two threads suffice for a pairwise race; three are used where a race needs
a third party (a label freed and taken while a third thread holds it, a query that two adds
together satisfy by accident, a search under two removes).  One fault reaches every error path and
every retry after it.  Index limits of one or two make the index overflow.  Three first calls, of which
two overlap and one comes later, give an entry that is lost with a replaced index and one that stays.
Three decisions make a batch skip one id and load another; three blocks give a victim that is
neither the oldest nor the cheapest, and windows of four with twelve reports move the depth to both
limits and back, and have rates below, at and above each threshold.  Three results let two calls on one
plan overlap with a third after them.  Two versions tell an
overwrite apart, and a clock of two or three ticks with two lifetimes gives both orders of expiry.
Three steps give a step with a child, with a later
sibling and with both.  Objects are
interchangeable wherever the properties treat them alike, hence the symmetry sets.

**Fairness.**  `CallsReturn` and `BatchesEnd` need it: weak fairness of each thread's next step
(`Fairness` in `ObjectStore`) and of the next step of each batch, once asked for (`Fairness` in
`PrefetchBatch`).  The code justifies it because no step waits for another thread:
there is no lock, condition or queue, and the interpreter schedules every runnable thread of the
server's pool.  Nobody is bound to make a call or a write.

**Deadlock** is checked except in `semantic_path`, `prefetch` and `plan_cache`, where the
bounds can end a behaviour: the labels, ids, calls or notices are used up, or a manager failed
to start.

## 4. Proofs

Each theorem holds for every value of the constants.

| Theorem | Says | Argument |
|---|---|---|
| **Object store** (`StoreProofs`) | | |
| `TypeCorrect` | the store stays well formed | `TypeOK` is inductive: it includes what each place of a call says about its locals (`CallOK`) |
| `AcknowledgedPutStaysReadable` | an acknowledged put on an exclusive id stays readable until the next write of it begins | the property says nothing while a put runs, so the invariant `IInv` adds what each put has already done (`PutProgress`) and that an acknowledged id has no writer; a step of another thread touches only its own id |
| `SearchesNameStoredObjects` | outside writing calls that did not raise, a search entry has its object | `EntriesOwned`: the object of an entry is complete or a delete is on its way to the entry, unless a call on it raised |
| `SearchHitsAlwaysPassBloom` | search results pass the Bloom check | the bit is set before the entry is made, so a thread between the two must have its bit: `BitsBeforeEntry` |
| `PairsPutOnceAreReadWhole` | a get never mixes two puts, if every two-key object is put once | `OneVersion`: the backend, the puts and the gets hold one version of a pair at most |
| `CallsAreWaitFree` | each step of a call brings it closer to its end, and no other thread sends it back | the places of a call have an order (`Left`) in which every step goes down, or deletes a key, or sets a bit; the steps of other threads leave the call alone (`StepIsLocal`) |
| `StoreIsAtomic` | the store implements `AtomicStore` | `RInv`, see below |
| **Bloom filter** (`BloomProofs`) | | |
| `LoopsKeepTheirProbes` | what a loop of add or might_contain read or wrote in its earlier turns still holds | inductive with the types: bits are only set (`BitsGrow`) |
| `FilterIsGrowingSet` | the filter implements the growing set | at the last turn the invariant above speaks of every probe of the key |
| **Prefix tree** (`PrefixTreeProofs`) | | |
| `TypeCorrect` | the tree and the walks in it stay well formed, also when inserts overlap | inductive with what each place says about its locals (`CallsOK`): a walk is as long as its depth and ends in a child that was there |
| `TreeStaysExact` | between writing calls the tree holds the registered blocks and no dead node, if `~Overlap` and `~Rewrites` | `TInv`, see below |
| `SearchesAreCorrect` | a search beside writers returns all that was registered throughout and nothing else, if `~Overlap` and `~Rewrites` | `TInv` and `SInv`, see below |
| `CallsAreWaitFree` | each step of an insert, remove or search brings it closer to its end, also when inserts overlap | a turn reads a token more, or goes on in `Stage`; a way back only gets shorter, and the blocks visited at a node only more |
| **Tool cache** (`ToolCacheProofs`) | | |
| `TypeCorrect` | the tool cache stays well formed | `Shape` adds to the types what each place says about its locals |
| `HitsAreCurrent` | a hit is of a version nothing replaced | `CInv`, see below |
| `StoreHoldsWhatIsIndexed` | nothing superseded is left in the store while nothing fails | `CInv` |
| `RebuildIndexesTheFreshest` | a rebuild picks the longest-lived artifacts | `RebuildSoFar`, the loop invariant: of the fresh artifacts visited so far, the index names for each key one that no other outlives |
| **Semantic cache** (`SemanticPathProofs`) | | |
| `StoredStaySearchable` | what is stored is known to the filter and in the index, unless its put raised | `SInv`, see below |
| `DeadEntryCostsOneGeneration` | a cached topic is not generated twice | `SInv`: a call that is not cold finds an entry until it generates (`WarmOK`), and no dead one anybody had met when it began (`DeadOK`) |
| **HNSW index** (`SemanticPathProofs`) | | |
| `OneOwner` | no label has two owners | inductive with the types; labels are in the free list, named, held by one thread, or never given out |
| `NameKeepsVector` | a named label keeps its vector | names exist only between `Publish` and `Unmap` (`NamesAreLive`), and only `AddItems` writes vectors, for a label without a name |
| `MapsStayInverse` | the two maps agree, if `~AddsOverlap` | an object that is being added has no label and one thread that adds it (`AddersApart`), so `Publish` overwrites no other name |
| **First index** (`SemanticPathProofs`) | | |
| `OnlyOverlappingFirstCallsLose` | an entry is searchable until removed, unless its call overlapped the creation | once an index is there and no thread is at `Create`, nobody gets there again (`CreationIsOver`), so the index a later call looks at is the one that stays |
| **Embedding cache** (`SemanticPathProofs`) | | |
| `CacheKeepsTheRecent` | the cache keeps to its limit and to the texts used last | `CacheInv`, see below |
| **The semantic path together** (`SemanticPathProofs`) | | |
| `PathTypeCorrect` | index, semantic cache, creation of the index and embedding cache stay well formed | inductive with what each place says about its locals (`CallsOK`, `AdderOK`) |
| **Plan cache** (`PlanCacheProofs`) | | |
| `IndexFollowsStore` | index and store have the same plans, but for those a call raised on or a delete met | `PInv`, see below |
| `ResultsAreCounted` | the stored plan counts no result twice and at least one for each stretch of overlapping calls that recorded one | `Counted`, see below |
| `RuntimeTypeCorrect` | plan cache and retention policy stay well formed | `PInv`; the index keeps to its limit because `HasRoomFor` is asked where the entry is made |
| **Retention** (`PlanCacheProofs`) | | |
| `HeldAreDecided`, `HeldBlocksAreNotForgotten` | every held block has its decision; on the runtime also that nothing is prefetched more often than scheduled | inductive as it stands: a new call has no decision to lose, and a decision without a call replaces none of a call |
| `PrefetchesFollowOffloads` | no more prefetches than were scheduled | `CountersCount`: the counters are the sizes of two sets of pairs of a call and a block, and the second set is part of the first |
| `PredictionsFollowObservations`, `PredictionsAgree` | estimates follow the observations | `EstimateOK`: a profile has an average once something was recorded, equal to the latencies recorded when they are alike |
| `RetentionTypeCorrect` | the policy stays well formed | the counters by `CountersCount`'s lemma on the size of a set with one element more |
| **Batch prefetch** (`PrefetchProofs`) | | |
| `BatchIsRight` | a batch brings only, and all, of what was asked for and there | `BatchInv` follows the loop: each result is of a decision already passed, of the type of the first one with its id, and in `during`; each decision passed has its result or was not in `throughout` |
| `OnlyMixedBatchesFail` | guesses are safe but for requests that name one id with two types | a misread result has another type than the decision, and both have the id |
| **Eviction** (`PrefetchProofs`) | | |
| `VictimsAreWorst` | LRU names the candidate used the longest ago, a scoring policy none that is worse in no respect than another and was used later | `EvictionInv`, see below |
| **Session prefetch** (`PrefetchProofs`) | | |
| `PredictionsAreOfHistory` | a prediction names matches of its session's recent prompts, and leaves one out only for `top_k` as long | `SessionInv`, see below |
| **Prefetch and eviction together** (`PrefetchProofs`) | | |
| `PrefetchTypeCorrect` | batches, eviction, session and adaptive prefetch stay well formed | the three invariants, and for the adaptive depth the type invariant itself, which is inductive |
| `DepthIsOfWindows` | the adaptive depth is what the windows of reports make of it | inductive with the types: the depths after each window are a witness that a report lengthens by one or leaves (`AdaptiveInv`), as a new report changes the hits of no window that has ended (`HitsOfMore`) |
| **Step graph and agent prefetch** (`AgentProofs`) | | |
| `TypeCorrect` | the lists name each known step once, the ratios are ratios | `GraphInv` and `PolicyInv`, see below |
| `PredictionAlwaysFollows` | predictions lie ahead, are not done, and do not run dry | `GraphInv` |
| `TurnsAlwaysCloser` | an agent's turn recedes only when its next step is done | `Grows`: a step of the graph leaves every list a prefix of the new one, and completes but never reopens |
| `NearestStepAlwaysFirst` | the cut keeps the objects of nearer steps, if `SourceValues` | with those weights a nearer step beats any weight of a farther one |

The longer arguments:

* **Refinement of the store** (`RInv`).  The abstract content of an id is what a get would
  see of it (`Seen`): both keys, behind the Bloom filter.  A pair has one version in the backend, the
  puts and the gets together (`OneVersion`), so a get that read the metadata can only meet the
  tensors of the same put (`ReadsAreSeen`).  A writing call no other overlaps is alone on its id, so
  what its place says of the keys still holds when it returns (`CleanCalls`); what is stored and
  still hidden by the filter is of a put in progress or of one that raised, and so in doubt
  (`HiddenIsJustified`), which is what the abstract store allows to turn up.  Each step is
  then a begin, an effect or a return of the abstract store, or a stutter.
* **Prefix tree** (`TInv`).  Removes run at once and cut nodes off under each other, so a remove on its
  way back may hold nodes that are not in the tree any more.  What saves it is that the tree's nodes are
  the ends of ways spelled by the strings, and that a node that is cut off is empty (`Forest`): the way
  down to a block that is there cannot be cut, and a stale node on the way back has no child to lose
  (`RemoveOK`).  A block under a string is registered with it or in the hands of one call (`BlocksOwned`),
  a registered block is stored (`BlocksStored`), and an empty node in the tree belongs to the insert that made
  it or to a remove that has still to look at it (`DeadMinded`).  When no writer is at work nobody minds
  a node, so there is no dead one.
* **Search of the prefix tree** (`SInv`).  Writers change the tree behind and ahead of a search.  All they can
  do (`TreeEffect`) is cut off an empty node, link one that nobody stands on, and put a block at the node
  an insert has come to.  So a search stands at the end of the way of the tokens it has read
  (`OnWay`), or on a node that was cut off, which has no block and no child, and then nothing it has to find is
  left (`CutOff`): what it has to find is registered, hence stored at the end of the way, and an ancestor
  of a block is not empty (`MustAhead`).  What it has to find and has not found is further down, or at the node it
  is reading and among the ids it saw there (`Ahead`), so an end of the walk leaves none.  What it takes
  from a node on its way is owned (`BlocksOwned`) under the string that leads there, which is a prefix of
  the query because a node is the end of one way only (`WaysMeet`, `BlocksAtEnds`).
* **Hits of the tool cache** (`CInv`).  A hit reads the store through the index, and the index
  names current versions only (`IndexIsCurrent`).  That alone is not kept by a rebuild, which
  reads the store: so while no call failed, every artifact a rebuild could find is current, or
  the running call is about to delete it, and the index names it or has still to
  (`VisibleAreAccounted`); and a process that started on an empty store knows all it holds
  (`StoredAreKnown`).  After a failed call `current` keeps the old version and the new, as a rebuild
  may find either.
* **Search of the semantic cache** (`SInv`).  A manager that loads has indexed the stored
  entries or has them still in its list (`LoadingOK`); an entry that is being added is its own
  call's (`NewIsOwn`); a dead index entry that was met is out of the index for good (`DeadOK`); a
  topic that is warm has a stored entry in the index nobody deletes (`WarmOK`).
* **Embedding cache** (`CacheInv`).  The cache is the end of the list of all texts (`Behind`), as a use moves
  a text to the end of both and an eviction takes one off the front.  It is over its limit by the
  threads that have still to look at the size (`OverLimit`).  A thread at `pop` found it over
  the limit when it looked, but others may have evicted since; what is left is counted against those
  that look or pop at the time (`RoomLeft`), so the cache falls short by less than the number of threads.
* **Step graph** (`GraphInv`).  The list of a workflow has exactly its known steps, each once, in the order
  they were added (`GraphTypes`); a child is listed once, and its parent was there before it, in the same
  workflow (`ChildrenOK`).  So the children of a step, like the rest of its list, lie behind it.  A
  prediction picks positions of a list in their order, and two positions hold two steps; it is empty
  only if there is no position, and then all that is behind the step is done.  `PolicyInv` needs that the used ids
  are among the predicted, whose number the count of prefetches never falls below.
* **Plan cache** (`PInv`).  Several calls can be on one plan.  A call that has read the count keeps its
  stretch of overlapping calls going, so at most one stretch was added to the sum since it read, its own
  (`CountAt`).  Whatever overwrites whatever, the entry then has at least a result for every stretch,
  and never more results than calls went to save.  What saves the index is that results, and
  deletes, only do to a plan what the others of their kind do: while no delete meets a put or a result and none raised, a
  plan that can be read is in the index or a call on it is between its remove and its add, and what a
  call or a search has found missing is still missing when it acts on that (`Kept`).  An id not given
  out is nowhere (`Unmade`), and what is being put has been seen by nobody (`Putting`); a manager that loads has indexed what it found
  and will find the rest (`Loading`).
* **Eviction** (`EvictionInv`).  LRU's list has a block once if and only if a use of it is on record, in the
  order of the last uses (`OrderOK`), so the first candidate in it is the least recent; blocks that
  are out of L2 and were reported late are in it too.  The other policies know of each block in L2 its
  last use and its uses (`UsesKnown`), and no count is ahead of the clock (`Counting`).  A quotient falls when its
  denominator grows, and strictly so for recencies, as `Unit` is fine enough (`LaterIsMoreRecent`):
  a candidate that loses in no respect has the higher score.  Metadata that lost fields over gRPC are
  covered (`MetaKnown`).
* **Session prefetch** (`SessionInv`).  A session's list ends as the record of its prompts does (`Ends`), so
  what a prediction takes from it are the recent prompts.  While it searches (`Searching`), every match
  found is of a block seen in the tree, and a block that was there all the time has been found at its
  length or the prompt it matches is still to be searched for.  When no prompt is left the
  second part says that it was found, and the first top_k can only be as long.
* **Composition.**  The components of a path share no variable and each step moves one of them.
  `ComponentsRunAlone` (semantic path) and `PartsRunAlone` (runtime; batches, eviction and prefetch) prove that a behaviour of the
  composition is one of each component, and the theorems about a component follow for the
  composition, which is what the runs check.

**Hypotheses.**  The theorems rest on the `ASSUME`s of the modules: the id classes are as
described, `NoVersion` is no version, `None` no object, label or type, bounds are natural numbers,
the hash function stays within the filter.  `MCPrefetch` states those of the modules it instantiates:
histories have room and spans are not empty, the initial depth is within its limits, metadata
have the types of `ObjectMeta`, and `Unit` is at least `MaxClock * (MaxClock + 1)`, so that rounding keeps two
recencies of a behaviour apart.  `MCSemanticPath` states that of the embedding cache: there is a thread, there are
finitely many, and `None` is no text.  `AgentSteps` has finitely many objects.  TLC evaluates them in the runs that extend the
modules.  `AgentTTL`, `LazyIndex` and `SemanticCache`, which the runs instantiate, have none;
their theorems state what they need: that `None` is no call, latency, thread, entry, topic or
dimension (it is Python's `None`), that `MaxRestarts` is a natural number, that the set of
blocks is finite where the counters are compared (a runtime has finitely many).  `StoreIsAtomic`
has `CallersAssumption`: two-key objects are put once and not deleted during a put or another delete
of them, which fresh uuid4 ids give, and the process does not restart.  Both are needed:
`store_torn_read` shows what an overwrite does, and `tool_cache_restart` that a new process has
a Bloom filter that denies what is stored.  `NearestStepAlwaysFirst` has `SourceValues`: weights between 75 and 100 percent, as `_TYPE_WEIGHTS` are,
and a `top_k` of at most 3, the default.  With a larger `top_k` the ranks 4 and 3 differ by less than the
weights do.  `TreeStaysExact` and `SearchesAreCorrect` have `~Overlap` and `~Rewrites`: no writer works on the tree
beside an insert, and a block is inserted again with its own tokens only.  `prefix_tree_lost` shows a block
lost without the first; without the second it stays at the node of its old tokens, which TLC shows when
`MCPrefixTree.cfg` says `Rewrites = TRUE`: `TreeIsExact` is violated.

**Model-checked only.**  Liveness under fairness (`CallsReturn`, `BatchesEnd`) is out of the
prover's reach.  What they have to say beyond the scheduling of threads is that no call goes round in circles;
for the store and the tree `CallsAreWaitFree` proves that, for any number of failing requests and of other
threads.  It could not be stated of the embedding cache, whose eviction loop goes on as long as other calls
insert.  All other properties of the passing runs have theorems.  What is defined by
recursion over a history is stated with a witness instead: `DepthFollowsWindows` says that there
is a sequence of depths, one after each window, that leads to the depth.  No module declares a recursive operator; where the
library edits sequences with one (`SelectSeq`), the models use an operator of positions instead
(`StepsAt`, `RemoveFirst`), which the provers can expand.

## 5. Not modelled

* The handlers other than PrefetchBatch, and the encoding of messages.  Each calls one operation
  of the store.  `proto_to_meta` is modelled in `Eviction` for what it loses.
* Semantic prefetch: it keeps no state and makes one search of the index.
* The estimator's percentiles and snapshots, and the counters of time and bytes of the policies.
* Serialization, types, configuration, generated code, benchmarks and deployment: pure functions,
  I/O or drivers around the system.
* Which element hnswlib takes when it replaces a deleted one, and what becomes of the label of that
  element.  `HNSWIndex` lets a later `mark_deleted` of a label that was used again raise, and `SemanticCache` and `PlanCache` the
  `remove` that calls it; in `ObjectStore` it would only change what the call answers.
* Semantic entries of which half is there: `ObjectStore` has them, `SemanticCache` has entries that can
  be read or cannot.
* Numeric content: similarities are relations between model values.  The priorities of prefetch
  decisions are exact fractions and the scores of eviction whole parts of `Unit`, without the rounding of floats.
* Counters for reporting (hits, misses, bytes), unless a property is about them.

## 6. Plan

Modules: the estimator's snapshots, so that a policy can start from one; writers of one id that
overlap inside a batch.

Proofs: nothing the prover can reach is left of the properties the runs check; a new property comes
with its theorem.
