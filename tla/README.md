# expanse: a TLA+ verification of the concurrent tree, the memtable and the device tracker

expanse is an ordered key container in Rust: a 256-way radix trie over 64-bit
keys (sets, maps, string, byte and blob maps), with a C API and bindings. The
sequential engines are ordinary data structures with unit and property tests.
What tests hardly reach is the concurrency layer, `crates/expanse/src/sync.rs`
and `occ.rs`: lock-free readers, optimistic writers under per-node version
locks, serialised whole-tree sections, and epoch-based reclamation of the
blocks all of them share. This project models that layer, and the one C++
component with a concurrency protocol of its own: the RocksDB memtable
(`integrations/rocksdb`), whose readers search its leaf blocks without a lock
while an insert shifts and splits them. Of the sequential C it models the
device tracker of the ESP-IDF component, whose hard part is time: a 32-bit clock
that wraps, and keys relative to an epoch that moves.

Paths below are relative to `src/`; `occ.rs`, `sync.rs`, `mutate.rs`, `node.rs`,
`leaf.rs`, `set.rs` and `alloc.rs` are in `src/crates/expanse/src/`,
`expanse_memtable.cc` in `src/integrations/rocksdb/src/`, `expanse_ble_tracker.c`
in `src/components/expanse/src/`.

## 1. Inventory

| Component | State it keeps | Operations | Hard behaviour | What makes it correct |
|---|---|---|---|---|
| Reclamation (`occ.rs` `Collector`, `Reader`, `Pin`) | epoch, reader slots, three epoch bins striped by writer slot, per-stripe byte counts, carry list, freelists | `register`, `pin`, `retire`, `try_advance`, `release_free_lists`, `recycle_unpublished`, `drain` | a pin, a retire or an advance delayed at any load or store; two advancers; a drain over its byte budget; drop with garbage queued | no block a pin covers is reused or freed; every block has one owner; counters exact; garbage is reclaimed |
| Retained-bytes gauge (`Collector::retained_bytes`) | none | a sum of relaxed loads | runs beside an advance that moves bytes between counters | what stays retired throughout is counted |
| Writer gate (`occ.rs` `WriterGate`, `sync.rs` `WriterTable`, `quiesce_writers`) | closed flag, in-flight counter per slot, allocated mask, thread-local slot cache, two mutexes | `enter_writer`, guard drop, `close`, `wait_drained`, `open` | Dekker race of announce against close; slots shared or allocated late; panics inside a section | a section runs alone; the gate reopens; a drain ends |
| Shared tree (`sync.rs` `Shared<T>`) | engine, published root, tree version word, sharded population, dirty digits | `insert`, `remove`, `clear`, `with_locked`, `with_exclusive`, `len`, lookups | optimistic mutations leave the engine's populations stale; retries, fallbacks; flush of the counter; unwind | counter and populations exact where they are relied on; reads exact when quiet; every call ends |
| Node versions and validated walks (`occ.rs` `version_*`, `sync.rs` `walk_validated_body`, `olc_*`) | a version per branch, edges, leaves | sample, load, validate; lock, store, unlock; obsolete | torn header and edge, replaced nodes, version wrap | a lookup's answer was true at some moment of the call; no store into an unlinked block |
| Set and map engines (`set.rs`, `map.rs`, `mutate*.rs`, `leaf.rs`, `node.rs`) | the trie | insert, remove, promote, condense, split, merge | population bookkeeping at the shape boundaries | the trie denotes its key set |
| Ordered reads, cursors, set algebra (`nav.rs`, `iter.rs`, `cursor.rs`, `algebra*.rs`) | a path | next, prev, rank, by_count, union... | boundaries of the key space | agreement with a sorted set |
| Concurrent ordered reads (`sync_nav.rs`, `sync_cursor.rs`, `sync_str_cursor.rs`) | bookmark, batch | seek, next, refill | mutations between two batches | monotone, no key present throughout is skipped |
| Blob, string and bytes maps (`blobmap.rs`, `strmap.rs`, `bytesmap.rs`, `ordered_bytesmap.rs`, `codec.rs`) | arenas, value tables, key codecs | put, remove, compaction, reconcile | staged compaction beside readers | a value handed out stays valid |
| 32-bit engine (`trie32.rs`, `sync32.rs`, ...) | a second trie behind a single-writer seqlock | | readers overlapping the writer | as for the 64-bit tree |
| Allocator (`alloc.rs`) | size classes, owner-thread freelists | alloc, free | deferral to the collector | with the collector, one owner per block |
| RocksDB memtable (`expanse_memtable.cc`) | a chain of leaf blocks with a version each, a trie from prefixes to blocks, `tail_`, `mutex_`; iterators with an anchor | `Insert`, `Get`, `Contains`, `Seek`, `SeekForPrev`, `SeekToFirst/Last`, `Next`, `Prev`, `ScanBatch` | reads beside shifts and splits; the trie, `prev_leaf`, `tail_`, `next_leaf` stored one after the other; a cursor kept across calls; three lock scopes | no entry present at the call is missed or delivered twice; a cursor goes on from its entry |
| BLE tracker (`expanse_ble_tracker.c`) | a slab and its free list, two maps over it, an unwrapped clock, an epoch base, one lock | `record`, `get`, `remove`, `expire_stale`, `count` | the 2^32 ms wrap; late sightings and cutoffs; time keys recomputed after the epoch has moved | the two maps and the slab agree; exactly the stale devices are evicted |
| ESP memtable (`components/expanse/src/expanse_memtable.c`) | one map behind one lock | put, get, delete, scan | | |
| C API, bindings | handles | argument translation | | no protocol of their own |
| Microcontroller demos, vendor drivers | | | | no logic of this library |

How they interact. A mutation of `Shared<T>` enters the writer gate, descends
the trie under node versions, stores under one node's lock, counts itself in its
slot's shard and leaves; what it cannot do in place it hands to a serialised
section, which closes the gate, drains the writers and uses the sequential
engine with `&mut`. Blocks that either unlinks are retired to the collector,
which readers keep from reusing by pinning an epoch. Readers never meet the gate:
they validate against the tree word and the node versions, and after a bounded
number of failures take the serialised section.

The memtable stands on top of the map: its trie is an `expanse_map_t` under
`mutex_` (scopes `kFullLocate`, `kTrieCall`) or a shared map read without it
(`kOptimistic`), and only suggests the leaf block where a search begins.

`PROJECT.json` lists the hazards of this code, each at its line, with the
properties that would catch it.

## 2. Modules

| Module | Models | Uses |
|---|---|---|
| `Collector` | epoch reclamation, every shared access a step | |
| `RetainedBytes` | `retained_bytes()` load by load beside the collector | EXTENDS `Collector` |
| `WriterGate` | gate, slots, both mutexes, quiesce, unwind | |
| `SharedTree` | mutations, covered and locked sections, population counter, validated reads | INSTANCE `WriterGate` as `G`: every gate step of the tree is a `G!` action |
| `OptimisticWalk` | the words of a shared set: validated lookups, optimistic mutations and sections, load by load and store by store | INSTANCE `AtomicSet` as `A` |
| `AtomicSet` | abstract specification: what the calls of a set promise | |
| `MemTable` | the RocksDB memtable: inserts and splits store by store, reads load by load, iterators | INSTANCE `OrderedLog` as `L`, with a refinement mapping |
| `SliceSeek` | a `Seek` given a slice and no `memtable_key`, beside the inserts | EXTENDS `MemTable` |
| `OrderedLog` | abstract specification: what the reads of a memtable promise | |
| `BleTracker` | the BLE device tracker: slab, maps, clock and epoch, one operation a step | INSTANCE `Sightings` as `S`, with a refinement mapping |
| `Sightings` | abstract specification: what the calls of a tracker return | |
| `CollectorProofs`, `WriterGateProofs`, `SharedTreeProofs`, `BleTrackerProofs` | theorems and proofs | EXTENDS the module they are about |
| `CollectorAccounting` | theorems about the byte counters, the budget and the drop | EXTENDS `CollectorProofs` |
| `MemTableProofs` | theorems about the memtable under its writer, between any two stores | EXTENDS `MemTable` |
| `MemTableReads` | theorems about its chain, its trie and its readers | EXTENDS `MemTableProofs` |
| `MemTablePromise` | the proof that it implements `OrderedLog` | EXTENDS `MemTableReads` |
| `MCCollector`, `MCRetainedBytes`, `MCWriterGate`, `MCSharedTree`, `MCOptimisticWalk`, `MCMemTable`, `MCBleTracker` | constants and symmetry sets of the runs | |

`WriterGate` has two roles: it is checked as a component, and it is the abstract
specification the composed `SharedTree` is shown to implement (`GateSpec`).
`AtomicSet` is the abstract specification of the walk (`AtomicSetSpec`),
`OrderedLog` that of the memtable (`Promise`), and `Sightings` that of the tracker
(`Registry`).

Definitions named `...Skips`, `...Stale`, `...Leaks` and the like, commented
"Mutant", are deliberately wrong variants of the definition that follows them.
No specification uses them; `PROJECT.json` pairs each with the property it
breaks, which shows that the property depends on that line of the code.

### Collector

State: `epoch`, `advancing` (the try-lock), `registry` and each handle's `slot`;
`bins[i][s]`, `retained[s]`, `carry`, `carriedBytes`, `freelist[s]`; `sys`, the
blocks the system allocator holds, and `live`, the blocks a walk that starts now
can reach. Each writer has a program counter and the locals of `retire` or
`try_advance`.

- A pin is four steps (load the epoch, store the slot, reload, retry or start),
  a retire three (fence, epoch load, locked push), an advance one per slot read,
  per bin taken, per block disposed of and per counter settled. Mutex-protected
  sections are one step.
- The code's ordering comes from SeqCst fences. A relaxed store before a fence
  takes effect, for other threads, at the fence: the latest moment it may. The
  store that unlinks a block thus acts at `RetireFence`, not at `Unlink`.
- `held[r]` is every block that was reachable at some moment of the pin, whether
  or not the walk went there. It over-approximates what the reader may
  dereference, so `NoUseAfterFree` is stronger than the code needs.
- Bins and lists are sets. The code pops them in list order; the model pops in
  any order. The failure branch of the epoch's compare-exchange is unreachable
  under the try-lock and is left out (`ControlInv` proves `epoch = wep[w]`
  there).
- One size class stands for all; the classed/unclassed split is kept, as
  only it decides between freelist, system and carry list.
- `Publish` and `Unlink` stand for the stores of `sync.rs` that link and replace
  a block; ownership of the link (the node lock) is the guard of `Unlink`.
- `MaxEpoch` bounds the epochs of a run. The proofs hold for every value of it.

### WriterGate

`gpc[t]` is the position of thread t in the protocol: `check`, `announce`,
`recheck`, `in` for an optimistic writer, `serial`, `close`, `mask`, `drain`,
`excl`, `open`, `release` for a section, `unwindOpen` and `unwindRelease` for a
section whose closure panics. `inflight[s]` counts, `allocated` is the bitmask,
`slot[t]` the thread's cached slot, which `ForgetSlot` evicts (the cache holds
128 trees). When every bit is set a thread takes slot `Token[t]`, so slots are
shared. A mutex released by a panicking thread is poisoned, and a later `lock()`
on the fallback mutex panics in its turn (`MeetPoison`).

### SharedTree

The engine is abstracted to what the wrapper relies on: the key set, the root
state (`"leaf"` or `"tree"`), `tree_pop`, and the population each top-level child
stores. An optimistic mutation is one store under its node's lock (`OlcApply`);
the three things the code does after the unlock, marking the digit (`OlcMark`),
counting the key (`PopAdd`) and leaving the gate (`OlcDone`), are separate steps,
as anyone can run in between. Which attempts retry and which fall back depends on
trie shapes that are not in the model: both are nondeterministic, within
`MAX_RETRIES` attempts.

- `CoverBegin .. CoverCount` is `write_root_covered_with`: re-sync `tree_pop` for
  an exact section, open the tree word, run the closure, republish the root, close
  the word, move the difference to the counter. `PublishedRoot`'s several stores
  and the close of the word are one step: a torn root is visible only under a
  moved word, and no reader uses what it read under one.
- `flush_and_set` is the base first, then shard by shard, each a step; so is the
  sum of `len()`.
- `with_locked` folds the dirty children or re-syncs the counter, then runs the
  caller's closure at `"view"`.
- The closure of `with_exclusive` inserts or removes one key, or panics before its
  first change.
- `pend[t]` is bookkeeping for the properties: the part of t's change that is in
  the tree and not yet in the counter. `overlap[t]` is a history variable: whether a
  change of the contents, or one still uncounted, and whether a flush of the
  counter has overlapped t's `len()`.
- `Total` sums integers as a difference of two cardinalities, and `SumBytes` of the
  collector as one: sums the prover can take apart with the library's theorems on
  finite sets, where a fold would need an induction.
- `MaxCalls` bounds the calls of a behaviour and `MaxRetries` is the code's
  `MAX_RETRIES`, made small.

### OptimisticWalk

`SharedTree` takes a mutation as one store and a lookup as one read;
`OptimisticWalk` is why it may. The shared words are in `mem`: the tree word, the published
top edge (two words), for each branch its version, count, digits and edges (two
words each), for each leaf its entries; and for each block whether it is live,
retired or free. `th[t]` holds a thread's position and the locals of
`walk_validated_body`, `olc_insert_set` or `olc_remove_set`.

- An action is one load, one validation or one exchange. A mutation
  under its lock is a `script`, the sequence of stores in the order the code
  makes them, of which `Store` makes one: the edges of `linear_insert_at_shared`
  one word at a time, then the digits, then the count; `Edge::store_at` the tag
  word and then word 0, which `Edge::load_at` loads in the opposite order; the key
  words of a leaf in ascending order. A lookup may run between any two.
- A section is a script too: tree word, the brackets of `insert_with_path_occ` or
  `remove_occ`, the published root, tree word. A replaced branch is marked
  obsolete and retired before the edge to it is stored, as in the code.
- `commit` marks the version store that ends the bracket of the change: there
  the history variables of `AtomicSet` take the call's effect. The refinement
  mapping is the identity on them, so `AtomicSetSpec` says that each call changes
  the contents at most once, there, and that each answer was true at some
  moment of the call.
- The trie has two levels, and a key is determined by its two digits. Branches are
  linear (L3, L7), terminals are linear leaves and immediates; so every leaf
  below the second branch is an immediate of one key, and the cascade of a split
  is one branch built in private.
- Left out: the bitmap and uncompressed branches, bitmap leaves and full
  expanses, prefixes skipped by an edge, values, the population an edge to a
  branch carries (`SharedTree` has it), the root leaf, and the removal of
  the last top-level child. `Scenarios`, the
  initial trees and the keys each thread is asked for, keep behaviours inside.
- The collector is its promise: `waits[b]` are the threads pinned when b was
  retired, and b is reclaimed when they have all unpinned (`MemorySafety` in
  `CollectorProofs`). The gate is its promise too: sections start when no
  mutation is admitted (`SectionExclusive`). Hence a mutation does not validate
  the tree word, in the code either.
- Memory is sequentially consistent: what the fences of the version protocol
  order, taken as given. Versions are unbounded, `OBSOLETE` above all of them.
- `Finished` lets a behaviour end, so the deadlock check stays on.

### MemTable

State: `version`, `count` and `entries` of each block; `prev`, `next`, `tail` and
`used`, the chain and the number of blocks allocated; `trie`; `wpc` and `ins`, the
position and locals of the insert that holds `mutex_`; `rpc[r]`, `loc[r]` and
`pos[r]`, a reader's position, the locals of its call and its iterator (leaf, slot,
version, anchor). `scope` and `cap` are the constructor's arguments. An entry is its
rank in the comparator's order, with the user key it is a version of and the prefix
under which the trie would hold it.

- An insert is `InsertBegin` (the mutex, the block, the slot), `InsertOpen`, one
  `InsertShift` per entry moved, `InsertStore`, `InsertCount`, `InsertClose` and, if
  the slot is the first, `InsertMap`; then, if the block is full, `SplitOpen ..
  SplitClose`. The stores into a new block are one step with its allocation, as it
  is private until it is linked; its own links go with the one store that follows
  them and is public, `prev_leaf` of its successor or `tail_` (`SplitLinkBack`).
- `visible` is a history variable, the entries whose bracket has closed: from there
  on every read has to find them.
- `FindLeafBlockForSeek` follows the scope. With `kFullLocate` the whole walk is one
  step, possible when no insert is under way; with `kTrieCall` the trie read is, and
  the walk (`SettleBack .. SettleForward`) runs without the mutex; with
  `kOptimistic` nothing waits and `tail_` is loaded apart. `SettleBack` loads a
  block's `prev_leaf`, count and first entry in one step: once set, a `prev_leaf` is never
  null again and only the head is ever emptied, so the entry's load decides. A read of the shared map is
  one step: that the map's ordered reads are atomic is its own promise.
- A bracket is three steps: `Open` (an even version, and the count), `Read` (the
  search and the entries it gives), and a `Check...` that reads the version again
  and acts. The reads inside a bracket are one step where the code has several;
  since a validated bracket spans no store to its block, splitting `Read` up could
  only add brackets that are torn, all of which retry. What is not
  covered by a bracket is a step of its own: `next_leaf` and `prev_leaf` (`Hop`), the
  count and `max_key` that `Contains` reads after it (`MaxCount`, `MaxKey`), `tail_`.
- The callback of `Get` may stop the delivery at any entry (`CheckGet`); the window
  between the callbacks and the load of `next_leaf` is `"hop"`.
- `SeekForPrev` is its parts: a `Seek`, `Valid()`, `key()`, then `Prev` or
  `SeekToLast`, each of which may revalidate and re-seek (`stage`, `Resume`).
- Calls that do not use a position are made with a new iterator, as nothing
  in them depends on an old one.
- Memory is sequentially consistent, which is what the release fence after the
  odd version and the acquire fence before the second load are for.
- Seeks here have a `memtable_key`. Those without one have comparisons of their own, in
  `SliceSeek`: a `Seek` by slice, made while no insert is under way and in one step.
- Left out: `SeekForPrev` by slice, the registry of reader handles of `kOptimistic`, the
  destructor, memory accounting.

`OrderedLog` says what a reader may rely on: `Get` delivers every version present
at the call, in order and once; `Contains` is right about what was there; `Seek`,
`SeekToFirst`, `Next` and `ScanBatch` pass over no entry that was present;
`Valid` and `key` stay on the anchor. It asks little of `Prev`, `SeekToLast` and
`SeekForPrev`, because the code guarantees little beside an insert: see the
violations below.

### BleTracker

- Each operation takes the tracker's lock first and gives it back last, so each is
  one action; `expanse_ble_tracker_record` is four, one for each way it returns.
  All four unwrap the clock and move the epoch first, the two that refuse the
  sighting too.
- `now` is the caller's clock, which never wraps; a time t is handed in as
  `t % Wrap`. `Sec` ticks are a second. `Offset` is the offset `unwrap_mono_ms`
  leaves, `Lowered`, `Rebased` and `Rebuilt` are `rebase_epoch_if_needed`. A time key
  is `rel_sec * Capacity + slot`, the map's value its slot. `Wrap`, `RelMax`, `RebaseSpan`
  and `KeepSpan` stand for 2^32 ms, 0x7FFFF s, 400 000 s and 100 000 s.
- `heard`, `at`, `taken`, `slips` and `call` are history: the last time unwrapped, when each
  slot's device was last seen on the caller's clock and on the tracker's, how many times
  have come from before a turn already heard, and the last call with its arguments and
  answer. `seen`, from `taken`, and `call` are what `Sightings` speaks of.
- A slot given back keeps its record and its second, as in the code. Signal strength,
  flags, distance and name are left out, the hash is a function with a collision,
  `expanse_map_t` is a map.
- Callers may hand in any time that lags their clock by no more than `Late` (sightings) or
  `Ttl` (cutoffs), from both sides of a turn. A time from before a turn already heard is a
  slip: its raw value is greater than `last_raw_ms`, the tracker takes it for one of the turn to
  come, and counts that turn at the next time. `Taken` is the time it takes each for, the
  caller's plus one turn for every slip so far; `MaxSlips` bounds them.
- The model's own limit is that half a turn, 24.8 days, never passes without a call (`Tick`),
  nor does a time lag by as much: without it the raw values alone do not tell one turn from two.
- `Envelope` is what the proofs need and the code does not enforce: no time lags by
  more than the epoch leaves behind it (100 000 s), and the second fits its 32 bits. Two of
  the counterexamples below are outside it, which is why it is there.
- `Sightings` follows the code: it evicts by the second, and it runs on the tracker's clock.
  What the documentation says of the same calls is stated apart, in `ExpiresStale` and
  `CountsActive`, and fails: see the violations and the further counterexamples below.

## 3. Runs

| Run | Instance | Distinct states | Checks |
|---|---|---|---|
| `collector_budget` | 1 reader, 2 writers on 2 stripes, 3 blocks (1 classed), budget 2, 3 epochs | 2 060 308 | `TypeOK`, `NoUseAfterFree`, `OneOwner`, `AccountingExact`, `BudgetRespected`, `NothingOutlives` |
| `collector_liveness` | 1 reader, 2 writers, 1 block, 4 epochs | 9 442 | `Reclaimed` |
| `writer_gate` | 3 threads, 2 slots | 18 747 | `TypeOK`, `Exclusion`, `ClosedHasOwner`, `DrainEnds`, `GateReopens` |
| `tree_len` | 2 threads, 2 slots, 3 keys on 2 digits, leaf capacity 2, 4 calls, exclusive closures that panic | 996 215 (up to symmetry) | `TypeOK`, `SectionAlone`, `PopulationExact`, `CondenseSeesExact`, `LenSettled`, `GateSpec` |
| `tree_len_locked` | 1 slot, leaf capacity 1, with locked reads | | `LenExact`: violated |
| `tree_returns` | 2 threads on 1 slot, 3 keys, removals, lookups and locked reads that panic, 2 retries, 3 calls | 146 960 | `PopulationExact`, `CondenseSeesExact`, `ViewExact`, `WritersReturn`, `ReadersReturn` |
| `walk` | 1 reader and 1 writer, one call each, any of 7 keys, 14 initial trees; and 1 reader and 2 writers over a full leaf below a top branch with and without room; small capacity 2, leaf capacity 4 in classes 1, 2, 4 | 1 615 949 (up to symmetry) | `TreeSpellsKeys`, `BlocksOwned`, `NoDanglingPointer`, `LockFindsEdge`, `AtomicSetSpec` |
| `memtable_reads` | 1 reader, any sequence of the ten calls, batches of 2; 3 entries, two of them versions of one key; the three lock scopes, leaf capacities 1 to 3 | 1 062 978 | `TypeOK`, `ChainExact`, `TrieReaches`, `Anchored`, `NoneBehind`, `MinNeverRises`, `ReseekExact`, `Promise` |
| `memtable_cursor` | `SeekToFirst` and `Next` beside inserts, default scope, capacity 2 | | `StepExact`: violated |
| `memtable_slice` | seeks by slice after inserts, default scope, capacity 2 | | `SliceSeekExact`: violated |
| `ble_tracker` | 4 devices, two of one hash, 2 slots, a turn of 11 ticks, seconds of 2, the epoch moving every 2 seconds, 10 ticks, one slip | 177 741 (up to symmetry and view) | `IndexesAgree`, `ClockExact`, `KeysUnsaturated`, `Registry` |
| `ble_wrap` | the same with a second of one tick, cutoffs 2 ticks late | | `ExpiresStale`: violated |

### Why the bounds are enough to be interesting

- Three epochs bring an advance round to the bin a delayed `retire` loaded the epoch
  of, with a second writer to advance meanwhile and a reader that pins at any
  moment of it; a block can be reused while a pin from its earlier life lasts.
  More readers, blocks and epochs are the subject of the proofs.
- In `collector_budget` the bytes and the budget are chosen so that a stripe's
  list overruns in the middle, with a classed block in the rest of it, and so that
  the next advance finds both a carry list and a stripe to spend its budget on.
- Three threads over two slots force a shared slot, and eviction forces a
  thread that holds two bits of the mask.
- Three keys with a leaf capacity of 2 cross promotion and condense in both
  directions within three or four calls; two keys on one digit leave a child's
  stored population stale.
- The trees of `walk` with one writer put every form at every boundary: an immediate at its
  maximum, a leaf with and without room in its class and at its capacity, a
  branch of each form with and without room, the wide form a removal would
  shrink, a branch whose last key goes. With any key asked of either thread,
  each way of `olc_insert_set` and `olc_remove_set` over these forms, and each of
  the section, meets a lookup between any two of its stores.
- Its two trees with two writers, over the keys 11, 15 and 21, let a leaf be split by
  one writer, shifted by the other, reclaimed, and its block reused by the other
  while the first or the reader still walks; key 21 replaces the top branch of
  the narrow tree and shifts its edges in the wide one. A lookup of 12, which no call
  touches, may then be covered by the replaced branch while the leaf it scans shifts
  under the new one: only the obsolete mark keeps it from answering (the mutant
  `ReplaceUnmarked`, which `AtomicSetSpec` catches).
- An immediate of the runs holds one key (`ImmMax` 1), so the branch of the code that adds a
  key to an immediate in place, one edge store like that of a new leaf, is not reached.
- Two branches are out of reach and stay in the model because they are in the code:
  a header whose count exceeds the form's capacity, which no store produces; and the second
  look at the edge under the lock, which never fails after the exchange from
  the sampled version. The latter is the invariant `LockFindsEdge`.
- Three entries with a capacity of 2 make every insert order, a split of the head and
  one of a later block; with 3 a split carries two entries, and the shift has
  two to move under a search; with 1 it leaves the head empty. Two versions of one user
  key let `Get` deliver from two blocks. One reader is enough: readers store nothing
  that anyone else reads, so a second one changes no behaviour of the first.
- Symmetry: in `tree_len` the threads, which share one token, and the two keys of one digit are
  interchangeable (`Next` does not mention the initial keys), in `walk` the
  two writers, and in `ble_tracker` the two devices of one hash and the two others. The liveness runs use none.
- In `ble_tracker` the clock passes one wrap, which falls inside a second, a time from before
  it may still come and sends the tracker a turn ahead, and the
  epoch moves before and after it; four devices over two slots
  fill the slab and collide, and cutoffs run past the greatest relative second.
  The run's `VIEW` leaves out what no later step reads: the records of slots on the
  free list and the arguments of the last call, which `Registry` checks on every
  step all the same.
- `MemTable` has no end state of its own: an iterator can always be asked again. The
  deadlock check is on.
- The deadlock check is off in `tree_len` and in `SharedTree_exclusive_panic.cfg`, because after
  a panic in an exclusive section the tree word stays odd and whoever samples it
  waits, which is what the second run is about; and in `writer_gate` and
  `tree_returns`, whose liveness properties a stopped thread violates itself.

### Fairness

- `Collector!FairSpec`: a reader inside `pin` goes on and a pin ends (a walk is
  finite), a retire or advance that has started goes on. Strong fairness on
  taking the try-lock says that some writer keeps calling `try_advance`: the
  writers do every `ADVANCE_EVERY` mutations, so a tree nobody mutates any more is
  not promised reclamation, neither by the code nor here.
- `WriterGate!FairSpec` and `SharedTree!FairSpec`: weak fairness per running
  operation, i.e. a thread is scheduled. Nothing obliges a thread to start one.
  Neither mutex is fair and a writer spins at the gate without a queue, so
  starvation of one writer by an endless stream of sections is possible and not
  denied: `WritersReturn` is stated over boundedly many calls.

### What the violations show

1. `tree_len_locked`. `len()` validates the root and then sums base and shards
   unvalidated, while `with_locked` flushes them outside the tree word: base is
   already the new total while a shard still has its old count. A reader can
   report a population the tree never had although no key changes. `clear()` of a
   tree that optimistic removals have already emptied does the same: its flush is
   inside the tree word, which the sum does not validate again. A read that overlaps
   neither a change nor a flush is exact: `LenSettled` (`tree_len`, and proved).
2. `memtable_cursor`. `Next` validates its step against the block and loads
   `next_leaf` after that. If the cursor is on the block's last entry, and an insert
   fills and splits the block in between, the anchored entry has moved to the block that
   `next_leaf` now names: the cursor lands on it, or before it, and emits it again.
   `Get` guards against the same window with `GetAfterDelivered`. The other clauses of
   `StepExact` fail in the same way when their calls are added to `Ops`:
   `ScanBatch` repeats an entry, `Prev` skips the upper half of a block that is split after
   `prev_leaf` is loaded, `SeekToLast` stops short when the tail is split
   after `tail_` is loaded, and `SeekForPrev` lands past its key when an entry is
   inserted between its `Seek` and its `Prev`. None is lost from the memtable, and
   `Next` never passes over one (`Promise`).
3. `memtable_slice`. A `Seek` by slice, `memtable_key == nullptr`, compares the slice with
   the entry where the other branch compares the entry with the key, and the search that
   follows is the same: its sign is inverted. With the one entry `user:1001`, `Seek("user:")`
   of the integration's README ends nowhere. Tests and benchmarks pass a `memtable_key`.
4. `ble_wrap`. In the first `ttl` after a turn the ordinary cutoff `now - ttl` is from before
   it, is taken for a time 49.7 days ahead, and `expire_stale` evicts every device, those
   seen after the cutoff included; the next sighting counts another turn. The header says
   that it evicts what has `last_seen_ms <= cutoff_ms`, which is `ExpiresStale`. `Registry` says
   that this is all that goes wrong: from there on the tracker is consistent, a turn ahead. The
   test of the wrap (`test_expanse.c:274`) hands in a cutoff from past the turn.

### Further counterexamples

These configurations are not among the runs of `PROJECT.json`. Each is violated, and each
shows where a claim of the documentation, or the envelope of a theorem, ends:
`tlc -config <cfg> <module>`.

- `RetainedBytes.cfg` (`MCRetainedBytes`), `NeverReadsCarriedAsFreed`. The gauge loads the carry list's count and then the stripes'.
  An advance that carries a tail and settles the stripe between the two
  loads moves bytes from a counter not read yet to one already read; the sum
  then misses blocks that were retired and unfreed throughout. The comment at
  `occ.rs:2071` says this never happens. Only the gauge is wrong.
- `SharedTree_exclusive_panic.cfg` (`MCSharedTree`), `ReadersReturn`. The gate and the mutexes are released by guards; the
  tree word is closed by a statement. A panic in the closure of `with_exclusive`
  skips it, and later readers of the tree spin in `SeqVersion::sample`. With
  `panic = "abort"` the process does not get there. Panics in locked reads, which
  do not hold the word, are harmless (`tree_returns`).
- `BleTracker_millisecond.cfg` (`MCBleTracker`), `ExpiresStale` with a second of two ticks. The
  header's sentence again: the code evicts the whole of the cutoff's second, as a comment
  in `twin_containers.c` says, so a device seen later in that second than the cutoff goes too.
- `BleTracker_window.cfg` (`MCBleTracker`), `ExpiresStale` with cutoffs older than the epoch. Such a cutoff
  gets the relative second 0, the epoch's own, and evicts devices seen after it. The epoch is 100 000 s before the sighting that moved
  it, well inside the "~6.06 days active window" of `docs/DATABASE.md:631`; and only
  `record` moves it, not `expire_stale` as that line and the header say.
- `BleTracker_late.cfg` (`MCBleTracker`), `CountsActive` with sightings older than the epoch. A sighting older than the epoch lowers it without rebuilding the time map. A
  removal by the recomputed key then misses and leaves a key behind, whose expiry releases
  the slot a second time; the slot is on the free list twice, and `count`, a `size_t`,
  goes below zero.

## 4. Proofs

The theorems hold for every value of the constants: any number of readers,
writers, threads, slots, stripes, blocks, keys and entries, any budget, any
assignment of tokens, any lock scope and leaf capacity. The assumptions are those named beside the constants
(`CollectorAssumption`, `SlotsAssumption`, `ThreadsAssumption`, `NoneAssumption`,
`TreeAssumption`, `GateAssumption`, `MemTableAssumption`, `TrackerAssumption`): the types of the parameters, the finiteness of the sets of
threads, blocks, keys, digits and entries, that a null value is none of the real ones, for
the memtable that user keys and prefixes are ordered as the entries are, and for the tracker the
order of its constants, which those of the code satisfy: the epoch keeps less than
the span of a rebase behind it (100 000 s, 400 000 s), that span is within the 19-bit limit (524 287 s), and
what is kept is less than half a turn of the clock (2^31 ms). The tracker's theorems
have `Envelope` as a hypothesis, which the code does not enforce (section 2).

### CollectorProofs: `TypeCorrect`, `MemorySafety`, `BlocksConserved`

The invariant `IInv` is the conjunction of

- `TypeOK`;
- `ControlInv`: only the holder of the try-lock is inside an advance, one at a
  time; up to the compare-exchange the epoch is still the one it loaded, and
  from there to its return one more;
- `PinInv`: a stable pin is registered, its slot shows its epoch, and that is the
  current epoch or the one before; a reader the scan has passed is not one behind;
- `OneOwner`: the block conservation that `BlocksConserved` states;
- `HeldInv`: a block that a reader pinned at e holds is on no list past its grace
  period and no writer's private block; a writer about to push it has loaded an
  epoch between e and the current one; and if it is in a bin, the bin is that of
  e or of the current epoch, and the advance that is possible while e is pinned
  drains neither (`StaleDistinct`).

`NoUseAfterFree` alone is not inductive: that a taken bin is safe depends on which
epoch its blocks were loaded under, hence `HeldInv`; that `HeldInv` survives an
advance depends on the pin's distance to the epoch, hence `PinInv`; and that only
one bin is drained per distance depends on the try-lock being held until the
drain ends, hence `ControlInv`. The mutant that releases the lock with the epoch
shows the last point is essential.

### CollectorAccounting: `CountersExact`, `FreesWithinBudget`, `DropReturnsAll`

`BooksInv`, on top of `IInv`, is the types of the counters, the two halves of
`AccountingExact` (`StripesExact`, `CarryExact`), `BudgetInv` and `GoneInv`.
`AccountingExact` needs `OneOwner` from the first proof: a stripe's count is the size of
a set, so a block pushed, taken or carried moves it by the block's bytes only because
the block was in no other bin and in no other hand. `BudgetRespected` is not
inductive: the code compares its own `freed` with the budget, so `BudgetInv` says that
what a call has returned to the system is covered by what it has charged, and that
this is within the budget or a single block. The plain loop charges only at its
end; there what it took still fits, because the stripe's count, which the code tested, is no less than
what was queued (`StripesExact`). `GoneInv` adds to `NothingOutlives` that no writer runs
after the drop.

### WriterGateProofs: `GateTypes`, `SectionExclusive`, `GateOwned`

`IInv` is `TypeOK`, `CountInv` (a slot's counter is the number of threads whose
announcement on it stands, so never negative), `SlotInv` (a thread past the slot
allocation has a slot and its bit is set), `LockInv` (who holds which mutex),
`GateInv` (the gate is closed exactly while a thread is quiescing) and
`DrainInv` (while a thread drains, every admitted writer is on a slot still in its
mask; once it is in its section there is none). `DrainInv` is where the Dekker
argument lives: a writer is admitted only by a re-check that reads the gate open,
so it announced itself, with its slot's bit set, before the gate closed; its
bit is in the loaded mask, and by `CountInv` its counter is not zero.

### SharedTreeProofs: `TreeImplementsGate`, `SectionIsAlone`

`LinkInv` relates each thread's position in the tree to its position in the gate.
With it every step of the tree is a step of `WriterGate` or leaves it alone, which
gives `Spec => G!Spec`; `SectionExclusive` then carries over, and `SectionAlone`
follows for the tree. The mapping is the identity on the gate's variables.

### SharedTreeProofs, the populations: `TreeTypes`, `CounterIsExact`, `CondensesExactly`, `LockedViewExact`, `LenIsSettled`

`PopInv` is proved with the gate's facts (`GateKeeps`, `LinkInv`, `SectionAlone`) at
hand in both states of a step. Its parts, and what each is for:

- `OpInv`: a position fixes the kind of operation, so that a reader never counts
  and a covered write never reads;
- `PendInv`, `ZeroInv`: where a change may be uncounted, and that a slot nobody has
  allocated has counted nothing, so the sum over the allocated slots is the whole sum;
- `PopulationExact` itself, with `FlushInv` for the states inside a flush, which it
  says nothing of: the goal is the number of keys, the base has it, and the shards already
  visited are zero;
- `ApplyInv`, `CountInv`: an exact section starts on a true `tree_pop`, and after
  the closure the engine's population has moved by what the counter is still to be
  told, unless the section emptied the tree;
- `DirtyInv`, `ViewInv`: a child whose stored population is wrong is marked, or its
  writer is about to mark it; since a section excludes that writer
  (`SectionAlone`), the fold repairs every child. That the repaired children sum to the number of
  keys is `CountsTotal`, a bijection between the units of the counts and the keys;
- `PubInv`, `ParityInv`: the published root is the engine's except while a section
  changes it, and then the tree word is odd; a reader that validated an even word
  saw a true root. The word stays odd after a panic, hence the clauses on `poisoned`;
- `ReadInv`: what a `len()` that nothing overlaps has in hand at each position, the
  partial sum plus the shards still to add included.

The proof splits the steps into those that leave engine and counter alone (`Passing`) and those
that do not (`Counting`); the latter are all in a section or admitted by the gate,
which is what leaves the other threads' clauses alone.

`LenExact` was first stated without the flush. Its proof failed at `clear()`, and TLC
then showed why (above); the run's bound of four calls had not reached it.

### BleTrackerProofs: `TrackerAgrees`, `ClockIsExact`, `KeysBelowLimit`, `TrackerIsRegistry`

All four are stated under `Envelope`, and for times from both sides of any number of turns.
Outside it `TrackerAgrees`, and with it `TrackerIsRegistry`, is false
(`BleTracker_late.cfg`, `BleTracker_window.cfg`). They say what the tracker does on its own clock; how far that is from the
caller's is part of the statement, one turn for every slip. The modulus, the second, the spans, the capacity and the devices are arbitrary.
`IInv` is the types; `ClockInv`, that `last_raw_ms` and the offset together are what the time last heard was taken for;
`EpochInv`, that the epoch has moved only to where it leaves `KeepSpan` behind;
`SlotInv`, what a slot in use holds, with the second its last sighting was taken for, less than
`RebaseSpan` after the epoch; `FreeOnce` and `FreeAgree`, the free list;
`HashesAgree` and `KeysAgree`, that the two maps hold exactly the slots in use, under
the keys their records give. `IndexesAgree` alone is not inductive: a removal finds its
time key only if the key recomputed now is the one stored then, which needs the clock and
the epoch (`AfterEpoch`), and that a key determines second and slot (`KeyParts`,
`KeyOrder`). The clock is exact because two times in a row are less than half a turn apart, so a raw value that falls by more than half
a turn is a turn, or the return from a slip, and one that rises across a turn is a slip (`Unwrapped`); and taken times
keep the order the epoch needs, as a slip only adds to them (`EpochKept`, `LaterSecond`). The refinement maps each call to the call of
`Sightings` with the same answer; the eviction loop takes the keys in order, and the order
of keys is that of seconds.

### MemTableProofs: `TableInvariant`, `FirstKeysOnlyFall`

`ChainExact` speaks of the table while no insert is under way; nothing about a reader
follows from it, as readers run between the stores. `TableInv` says what holds there:

- `Linked` and `Joined` are the blocks that `next_leaf` and that `prev_leaf` and
  `tail_` reach. They differ inside a split, which links the new block backwards first.
- `low(b)` is where a block begins: the head below every key, another at its first entry.
- `Owned(b)` are the slots whose entries are the block's own. In the middle of a shift one
  slot holds a copy of its neighbour, and after the copy of a split the upper half is
  in two blocks; `Owned` says which count.
- `Sorted`, `NonEmpty`, `Distinct`, `Ordered`: the owned entries ascend, and come before
  the block that begins next; `Contents`: they are the visible entries and the one being
  inserted, no other.
- `NextOrder`, `PrevOrder`: a link is the neighbour in the order of `low`. The chain is
  thereby described without a walk along it.
- `TrieLinked`, `Parity` (the block under modification, and only that, has an odd
  version) and `Inserting` (the writer's position: the slot its search returned is where
  the entry belongs, what the shift has emptied, the halves of a split).

Each store of an insert and of a split is one lemma (`InsertOpenKeeps .. SplitCloseKeeps`).
That the insert finds the right block and slot is `SettleCovers` and `BinarySearchFinds`: the
leaf walk and the binary search are recursive functions, and what they return is proved from a
measure that falls at every turn (`LoopDefined`, `LoopResult`), by taking a least
counterexample (`LeastElement`) where an induction would be used.

`MinNeverRises` follows: an insert never stores to slot 0 of a block that is not the head
(`Inserting` has `left > 0` there), to that of the head only a smaller entry, and a split only to a new block's.

### MemTableReads: `ChainSpellsEntries`, `TrieNamesTheChain`, `ReaderInvariant`, `MemTableTypes`, `PositionsAnchored`, `SeekPassesNothing`, `ReseekFindsAnchor`

`ChainWalked` and `ChainCovers` show that `Chain`, followed by `next_leaf`, is the
linked blocks in the order of `low`; `ChainExact` and `TrieReaches` are then `TableInv` read
along it.

`ReaderInv` says, of each reader, its position `pc`, its locals `l` and its iterator `p`:

- `Control`: which search a position belongs to, and the types;
- `Located`: the reader is at a block that is linked, at least backwards;
- `Bracketed`: as long as the version is the one loaded first, what the bracket has read
  is still so, and a seek's reading is the first entry from the target on;
- `Positioned`: the same of the iterator, its slot and its anchor;
- `Approaching`: nothing that a seek wants lies before the block it is at, and when it
  leaves a block (`"hop"`, the window in which the block may be split) all that it wants begins after it.
  `Wanted` is what was visible at the call, from the target on; for a re-seek also the anchor,
  which may have been inserted after the call began.

A step of the writer keeps all of this because of two lemmas about it: `BlocksOnlyGrow`
(linked blocks stay linked, visible entries stay visible) and `BlocksStand` (blocks begin
where they began, versions only grow, and a block whose even version has not moved has not changed). A step of a
reader changes nothing of the table, so each is a lemma about one reader (`LocateGoes ..
StepCheckGoes`). The hard case is the hop: a seek that found nothing in its
block loads `next_leaf` after the bracket; `SeekLeaves` shows that
all it wants then begins after the block, in a block that `next_leaf` reaches: what a
split of another block has carried to one not linked yet follows the block it came from, which is linked.

`NoneBehind` adds `HeldBelow`: the slots in use of a block, copies included, come before every block
that begins after it. `ReseekExact` adds `SeekLandsOn`: the anchor is visible, visible
entries never leave the chain, so the first entry from it on in the block that covers it is the anchor.

### MemTablePromise: `CallsServed`, `MemTableKeepsPromise`

`Promise` is `OrderedLog`'s specification under the mapping of `MemTable` (`Calls`,
`Answers`, `Cursors`): a call begins with the entries visible then, and what it returns is
acceptable for those and for what has been inserted by its end. `ReaderInv` speaks of one
search; a call may run several, with re-seeks and hops between them, so the refinement needs an invariant of the call.
`ServiceInv` says of each reader in a call, with `Due` the entries that the call still has to account for
(visible at its start, asked for, not given out yet):

- `Serves`: the search under way is one this call asks for, with its key or the iterator's anchor as the target;
- `Rooted`: the iterator has not been moved past anything due, and what was given out is visible;
- `Ahead`: all that is due lies in the block being read or after it; once that block is left, in linked blocks that begin after it,
  wherever splits carry it;
- `Noted`, `StepNoted`: if the version still matches, what is due and in the block is in the list read
  or no earlier than the entry that ends it;
- `Delivers`: a `Get` has given its versions in order, those due follow them all, and so do those just read;
- `Retreats`: a `Prev` that leaves its block is at one that begins before the anchor;
- `Ends`: a `SeekToLast` of two entries or more ends on an entry, as the block
  that it reads, the tail then or a later one, has one and keeps one.

The last needs three facts of the table that nothing else does: the slots past the count are
null but for those of the insert or the split under way (`Spare`), a split leaves halves that differ by one at
most (`Halved`), and the head never empties again (`HeadStays`).

A step of a reader in a call (`Turns`) either goes on with the call, keeping `Serving`, or ends it with an answer that is
right (`Answered`): one lemma for each handler (`LocateTurns .. StepCheckTurns`). A step of the writer keeps
`Serving` (`ServingStays`): blocks only gain linked blocks and entries, and a block whose version has not
moved has not changed. `AnswerAccepted` shows that an `Answered` call is one that
`OrderedLog` accepts; `TurnRefines`, `OutsideRefines` and `WriteRefines` then map each step to a step of
`OrderedLog` or to none, and `LogInit` the initial states.

### Only model-checked

Liveness (`Reclaimed`, `DrainEnds`, `GateReopens`, `WritersReturn`,
`ReadersReturn`) is out of the prover's reach, as are the library's induction
theorems, which take an operator: the memtable's loops are proved by least elements
instead. The properties of the walk, `AtomicSetSpec`, `TreeSpellsKeys`,
`BlocksOwned`, `NoDanglingPointer` and `LockFindsEdge`, are model-checked only: a
section's stores are a script computed when it starts, so a proof has to describe every
suffix of every script, for branches and leaves of any size, and that a section leaves a
tree whose edges name live blocks before it can say anything of the walk that follows it. A theorem for all constants would
also have to bound the blocks, since `NewNode` and `NewBuffer` are unspecified once none is free
(in the run there is always one).

## 5. Not modelled, and the plan

Done, in this order because each is what the next relies on: reclamation, the
writer gate, the shared tree composed with the gate, the optimistic walk over
linear branches, linear leaves and immediates, the RocksDB memtable, the device
tracker. Next:

1. **The walk's other forms**: `BranchB` and `BranchU` with their own locks,
   bitmap leaves, edges that skip a prefix, the root leaf and its promotion, and
   map values, whose read follows the key's. The width of the version word as a
   constant, for the carry into `OBSOLETE`. Its composition with `Collector`, in
   place of the grace promise.
2. **`sync32.rs` / `occ32.rs`**: the single-writer seqlock.
3. **Concurrent ordered reads and cursors**: bookmarks and batches; no key present
   throughout is skipped, none is returned twice.
4. **Blob map compaction** (`write_quiesced` in stages) and the string map's
   reconcile, as further operations of the shared tree.
5. **Sequential engine**: promotion, condense and the branch forms as operators
   checked against a set; ordered navigation, set algebra and the key codecs in
   the same way.
6. **Memtable**: the registry of reader handles, and `SeekForPrev` by slice.
7. **Proofs**: `LockFindsEdge` and `NoDanglingPointer` of the walk for every tree.

Left out for good: instrumentation (`census.rs`, `occ_stats.rs`, `validate.rs`),
which changes no state; the C API and the bindings, which translate arguments; the
ESP memtable, a single-threaded buffer over the map, and the allocator
registration beside it; benchmarks and microcontroller demos; the STM32 HAL and CMSIS
headers and drivers under `integrations/stm32h747/demo/Drivers`, which are the board
vendor's and by far the larger part of the repository's C (about 296 000 lines,
most of them register definitions), so that the share of all C lines that has a
counterpart here says little; and hardware behaviour weaker than what the fences of the
code rule out.
