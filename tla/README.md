# A TLA+ model of oras-go

oras-go is a Go library that moves OCI artifacts between content stores: remote
registries, OCI image layouts on disk, directories of files and memory. The
content is a DAG of blobs addressed by digest; manifests point to other content
by descriptor. What is hard in it is concurrency (a copy runs one goroutine for
each node under a shared semaphore, stores are used by many goroutines, clients
of a registry merge their updates of a shared index) and partial failure (every
storage operation may fail, a context may be cancelled at any moment, a process
may end between two writes). This directory models that part of the code, checks
it with TLC on small instances and proves the central invariants with TLAPS.

`PROJECT.json` maps every definition to the source lines it models and lists the
components, the runs, the hazards, the findings and the theorems.

## The system: parts, state, operations

| Part | Source | State | Operations | What is hard |
|---|---|---|---|---|
| Copy, CopyGraph | `copy.go` | destination, tracker, proxy cache, semaphore, one error group per non-leaf node | the traversal `fn`, hooks, tag | shared nodes, permits, cancelled contexts, failures |
| ExtendedCopy | `extendedcopy.go` | the same, and an outer group | findRoots, one copyGraph per root, tag | roots that reach each other share permits and tracker |
| Limiter | `internal/syncutil/limit.go` | semaphore, regions, error groups | Start, End, Go | Go returns early, regions end twice |
| Tracker, proxy | `internal/status`, `internal/cas` | done channels, cached manifests | TryCommit, Fetch | one goroutine per node, one fetch per node |
| Content model | `content/graph.go`, `internal/descriptor` | none | Successors, IsManifest, IsForeignLayer | media types |
| Predecessor index | `internal/graph` | three maps under a lock | Index, IndexAll, Remove, Predecessors | content is read outside the lock |
| Resolver | `internal/resolver` | two maps under a lock | Tag, Untag, Map, TagSet | the maps must agree |
| OCI store | `content/oci` | blobs, `index.json`, resolver, graph, two locks | Push, Tag, Untag, Delete, GC, SaveIndex, New | interleaving, crashes, failing writes, recursion of Delete |
| Referrers index | `registry/remote/repository.go`, `referrers.go` | index manifests and a tag in the registry | Push and Delete of a manifest with a subject | lost updates, lost answers |
| Merge, Pool | `internal/syncutil/merge.go`, `pool.go` | batches, channels, reference counts | Do, Get | the main caller, error delivery |
| Repository of a registry | `registry/remote/repository.go` | referrers capability, ping lock; content, tags, indexes in the registry | Push, Mount, Tag, Fetch, Delete, Referrers, Tags | capability race, lost answers, mount fallback, paging |
| Once, token cache, auth client | `internal/syncutil/once.go`, `registry/remote/auth` | pending fetches, tokens by key | Do, Set, GetToken | waiters take over, one fetch per key, scheme changes |
| Retry | `registry/remote/retry` | attempt, body | RoundTrip | rewinding, back-off, deadline |
| File and memory store | `content/file`, `content/memory` | names, files, digest to path, fallback storage | Push, Add, Tag, Close | name claims, duplicates, failing writes |
| Packing, TagN | `pack.go`, `content.go` | none of their own | PackManifest, Pack, TagN, TagBytesN | existing blobs, concurrent tags |
| Credentials | `registry/remote/credentials` | configuration file and its copy in memory, helpers, detected store | Login, Logout, Credential | which store, failing saves, restarts |
| Verification | `content/reader.go` | none | ReadAll, Verify | short, long and corrupt content |

They interact as follows. Copy reads a source and writes a destination through
the storage interfaces; it owns tracker, proxy and limiter. The OCI, file and
memory stores are built from a blob storage, the resolver and the predecessor
index. A registry client keeps the referrers index by pushing and deleting index
manifests with its own requests, which go through the authentication client and
the retrying transport.

## Modules

| Module | Models |
|---|---|
| `Content` | descriptors as nodes, their kind (media type) and links; constants of every other module |
| `CopyGraph` | `Copy` and `CopyGraph` with limiter, error groups, tracker, proxy and hooks |
| `ExtendedCopy` | extends `CopyGraph` with findRoots, the outer group of `ExtendedCopyGraph` and the tag of `ExtendedCopy` |
| `Graph`, `Resolver` | the values behind the locks of `graph.Memory` and `resolver.Memory`, as pure operators |
| `GraphMemory` | `graph.Memory` in concurrent use |
| `OCIStore` | `oci.Store`: extends `Resolver` (and so `Graph`) with disk, locks, operations, crashes |
| `ReferrersList` | abstract: a list to which each caller's change is applied once between its call and its return |
| `ReferrersIndex` | `updateReferrersIndex` over `Merge` and `Pool`; implements `ReferrersList` |
| `Repository` | the methods of `remote.Repository` beside each other, and the registry |
| `Scopes` | the normal form of scopes (`CleanScopes`), pure operators |
| `TokenCache` | `concurrentCache.Set` on `syncutil.Once` |
| `AuthClient` | extends `TokenCache` and `Scopes` with `Client.Do` and the retrying transport |
| `FileStore` | `file.Store`, and `memory.Store` as its kind "memory" |
| `Pack` | extends `FileStore` with the calls that use a store: packing and tagging |
| `Credentials` | `DynamicStore` with configuration file, helpers and fallback |
| `CopyGraphProofs`, `GraphMemoryProofs`, `TokenCacheProofs`, `FileStoreProofs` | theorems |
| `MC*` | instances for TLC, with a `.cfg` for each run |

Definitions whose comment calls them a mutant are wrong variants of the
definition that follows them. They are not part of any specification; they
document which slip in the code each property would catch.

### CopyGraph

A call of `syncutil.Go` is named by its caller (an entry call of `copyGraph`, or
the node whose successors it handles) and a goroutine by `<<caller, item>>`.
`stage[n]` is the program counter of `fn` for the node `n`, `task` that of a
goroutine of an error group, `call` that of a call of `Go`, `cancelled` the
contexts. One action stands for one operation on shared state: `Spawn` is the
semaphore acquisition and `eg.Go`, `TryCommit` the tracker, `CheckExists` the
call to the destination, `FindSuccessors` the fetch through the proxy with the
release of the permit, `AwaitSuccessors` the loop over the done channels (stable
facts, hence one step), `CopyNode` the fetch and the push, `PostCopy` and
`OnCopySkipped` the hooks of `prepareCopy`. Every operation may fail, a failing
push or tag may have had its effect, the caller may cancel at any time, and
`OtherPush` is another client of the destination. The propagation of a
cancelled context to derived ones is a step of its own, as other goroutines may
run in between. The variable `mode` tells the hooks apart: none, `Tag`, or
`PushReference`.

The destination starts closed under successors: `Exists` is taken for the
presence of the whole sub-DAG (`copy.go:222`).

### ExtendedCopy

`FindStep` is one round of the loop of findRoots: `stack`, `visited` and `found`
are its variables, and the order in which predecessors are pushed is any, since
the stores list them from maps. `depth` is `opts.Depth`; `kept` is what filters
such as `FilterAnnotation` and `FilterArtifactType` let through. Each node that
may turn out to be a root has an entry, a call of `copyGraph`; the calls share
limiter, tracker and proxy, that is, the state of `CopyGraph`.

### GraphMemory, Resolver

`IndexNode` and `RemoveNode` are the critical sections of `index` and `Remove`;
in `GraphMemory` the fetch that precedes `index` is a step of its own. `IndexAll`
starts its goroutines without a limiter, so a call is the set of nodes whose
goroutine has not begun (`todo`) and the set being read (`reading`).

### OCIStore

`blobs` and `file` survive a crash; `resolver`, `graph` and the state of the
operations do not. An operation is a sequence of steps under the store's lock
(shared or exclusive); `index.json` is truncated and written in two steps under
`indexLock`. `file` holds what `saveIndex` writes: an entry for each tag, and one
without name for each node that has none. `Open` loads it as `loadIndex` does.
Delete's queue, the order in which Go maps list referrers and danglings, and the
loop of `gcIndex` over untagged manifests are explicit. AutoSaveIndex and AutoGC
have their default value, true. `Events` selects crashes and I/O errors. The
history variables `acked`, `unsaved` and `clean` say which promises are in force:
what `TagsResolve` and `PushDurable` say of `index.json` leaves out a file that
is truncated and one that is known to be behind the memory after a failed save
or a GC (`unsaved`). What happens there is the subject of
`oci_store_retry_delete`; a file that a crash left truncated cannot be loaded.

### ReferrersIndex

One subject, hence one referrers tag and one key of the pool. An index manifest
is the set of referrers it lists. A status channel of `Merge` has the name of
the caller who made it. Registry requests may fail before or after they take
effect. Deleting the index that the tag names removes the tag with it.
`SkipReferrersGC` is the variable `skipGC`, chosen in the initial state.

### Repository

Each client goroutine is in one method call, `job[c]`, and every HTTP request,
every load or swap of `referrersState` and taking and leaving the ping lock is a
step. A request may fail before (`RequestFails`) or after (`AnswerLost`) it has
taken effect. The registry has the Referrers API or not, creates the repository
with its first content, and lists in pages of `PageSize`. The update of the
client-side index is a single step here; `ReferrersIndex` has its steps and
shows that they implement it. `mount` is `mountOrCopyNode` over `blobStore.Mount`
for each of the repositories that `MountFrom` names. `read` is a reader with
seeks over a blob, of which some fail.

### TokenCache, Scopes, AuthClient

A `Once` and a cache entry are named after the caller that made them. The channel
of a `Once` holds a value, is empty, or is closed. `Scopes` represents a scope by
a resource and a sequence of actions, all numbers, so that sorting is by number;
the wildcard and the empty action are treated as in `cleanActions`. In
`AuthClient` a request goes through up to three calls of `send`, each with the
attempts of `RoundTrip`; the registry may change its scheme, revoke a token, fail
transiently, and contexts may be cancelled. A body is absent, can be rewound, or
can be read once.

### FileStore, Pack

The lock of a name, creating (truncating) a file, writing it, and each access to
`digestToPath`, to the memory CAS and to the graph are steps; content may be
short, long or corrupt, so that `VerifyReader` refuses it at the step where the
code does. A run makes the calls of one program; programs pair what can
conflict. `Pack` turns a call of a pack function into the sequence of its pushes
(`plan`). Names and paths are identified: names that resolve to one path and
`Add` with a path other than its name are left out.

### Credentials

`file` is the configuration file, `mem` the copy in `Config`, `native` what the
helper programs keep. A value carries the number of the call it came with and
which fields it has; `NativeForm` is what a helper keeps of it. Saves and helpers
may fail (`MaxFaults`), and the process may stop anywhere and start with other
options (`MaxRestarts`). `cand` and `tried` are history: the values that a `Get`
may find.

## Runs

The longest passing run (`copy`) takes about two and a half minutes on two
workers, the others about two minutes or less.

| Run | Checks | Bounds |
|---|---|---|
| `copy` | the destination is closed, the tag comes last, success is complete, one fetch, termination | 5 nodes: an index over an image and an artifact that is the image's subject, a blob they share, listed twice by the image, and a foreign layer; two permits; with Tag and with PushReference; the blob may be pushed by another client or provided by PreCopy |
| `extended_copy` | the roots found fit, the tag comes after what was asked for, no failure of its own making, termination | 4 nodes; depth 0, 1, 2; three filters; one permit |
| `graph_memory` | the documented relations, completeness of IndexAll | 5 nodes, one of them not stored; Index and Remove at any time |
| `oci_store` | tags resolve, predecessors are stored, reopening loses nothing, stored content is known, GC and Delete keep what is used | image, referrer, shared config blob; one tag; two clients; crashes |
| `oci_store_faults` | pushes last and every operation but GC returns, with failing I/O | two clients, every operation, subject and referrer |
| `referrers_index` | refinement of `ReferrersList` (no change is lost), listed referrers exist, no dangling index, every call returns | three callers: a push of one referrer, a delete and a push of another; SkipReferrersGC on or off |
| `repository` | successful Referrers list all, the capability is true, what succeeded is stored, fetched bytes match, tags are listed once, every call returns | two clients, three calls out of one of three programs; a subject with two referrers, a blob, three tags, two mount sources; pages of one |
| `auth_client` | one fetch at a time for the same permissions, whole bodies, tokens fit their keys, Do returns | two requests whose hints and challenges word the same scopes differently; one retry, one change of scheme; cancelled contexts and revoked tokens |
| `file_store` | files stay intact, duplicates are restored, packs are complete, TagN tags one descriptor, every call returns | two goroutines; programs of two to five calls; each option of the store alone, and the memory store |
| `credentials` | Credential finds the last Login or Logout, the detected store is saved before a Put returns | two goroutines, two registries (one is docker.io), two to four calls, one fault, one restart |

The bounds are the smallest in which the interesting cases meet. The DAGs have a
shared node, so that one goroutine waits for another's work; one permit is where
a wait that holds a permit blocks, two permits where goroutines overlap. For the
store, two clients are enough for every pair of operations to interleave and the
three nodes contain a shared blob, a referrer and its subject. Three callers of
the referrers index give a running batch, a pending batch and a batch of two.

In `repository`, three calls are enough for one to learn the capability, one to
depend on it and one to observe the outcome; in `auth_client` two requests are
enough for a fetch, a waiter and a takeover.

Deadlock is checked for the OCI store and the authentication client. The other
runs of a set of calls switch the check off, since the set ends when all have
returned; `Termination`, `XTermination`, `AllReturn`, `CallsReturn` and
`StoreReturns` show that they end in no other way. `credentials` has no liveness
property: helper programs are outside the code and may never end.

Fairness: a goroutine that can take a step takes it at last (weak fairness),
storage operations return. Nothing is assumed about callers, other clients or
cancellation. In the store, `BeginSave` is strongly fair: `sync.Mutex` hands the
lock to a goroutine that has waited for more than a millisecond. For the same
reason taking the ping lock is strongly fair in `Repository`.

### Disagreements between text and code

Two runs expect a violation; `PROJECT.json` quotes the text each one contradicts.

* `oci_store_gc_loop`: GC loops for ever on an untagged manifest whose subject
  no tag reaches (a variable is shadowed).
* `auth_cancelled_fetch`: a request with a live context fails with the
  cancellation of another one that fetched the token for both, because `Once`
  does not recognise a wrapped context error.

Three configurations of `MCOCIStore` show further ones when run by hand:

* `OCIStoreTaggedReferrer.cfg`: Delete removes tagged referrers of its target,
  while "Tagged manifests will not be deleted" (`content/oci/oci.go:63`).
* `OCIStoreQueuedTwice.cfg`: Delete fails on a node that it queued twice and
  leaves dangling content (`content/oci/oci.go:160`).
* `OCIStoreRetryDelete.cfg`: repeating a Delete whose save failed removes the blob
  while index.json still lists the tag (`content/oci/oci.go:50`).

Met while modelling, and part of the models or named as a limit of a property:

* Copy returns nil without tagging a root for which the caller's PreCopy
  returned SkipNode (`copy.go:368`); `SuccessComplete` makes an exception for it.
* ExtendedCopy with a depth limit of two or more may leave out nodes within the
  limit: findRoots marks a node visited when it meets it first, perhaps over a
  longer path (`extendedcopy.go:171`). `XTaggedComplete` claims the first level.
* Moving a tag leaves it in the tag set of the old node
  (`internal/resolver/memory.go:61`), which `isTagged` then takes for tagged.
* CleanScopes removes duplicates of structured scopes only, not of scopes that
  it cannot split (`registry/remote/auth/scope.go:190`).
* Delete of a credential leaves an entry under a legacy URL, and one in a
  fallback store, that Get then finds (`credentials/internal/config/config.go:169`,
  `credentials/store.go:46`); `GetReturnsPut` allows for them.
* After a failed save the configuration in memory is ahead of the file
  (`config.go:197`), and a save writes the whole file over what other processes
  have changed (`config.go:250`).
* A native store keeps no access token, and with a refresh token neither username
  nor password (`credentials/native_store.go:109`).
* A push to the file store whose restoring of duplicates fails is stored but never
  indexed, and the retry is refused (`content/file/file.go:236`).
* A pack that finds its manifest existing may return before the other push of it
  has indexed it (`pack.go:397`).

## Theorems

`CopyGraphProofs` proves, for every DAG, set of entries, number of permits and
mode that satisfy `ContentAssumption` and `CopyAssumption`: `TypeCorrect`,
`DstAlwaysClosed`, `TagAfterContent`, `NoUncommittedSuccessor`,
`PermitsBalanced` and `FetchedOnce`. None of the invariants is inductive alone.
The inductive invariant `IInv` adds to them what links the pieces of state: which
task owns a node and in which state it is at each stage; which tasks hold a
permit; that a call which returned nil has tasks that all ended well, and that
such a task's node is committed; that a node at "restart" or later has all its
successors done; that a done node is in the destination; and for each stage how
often a node can have been fetched. `DstClosed` follows because a node is pushed
only at stage "copy", when its successors are done and hence present;
`TaggedComplete` because the root is tagged when it is present itself and the
destination is closed.

`GraphMemoryProofs` proves that `IndexNode` and `RemoveNode` keep the graph
consistent (two lemmas about the operators) and from there `Consistent` for every
interleaving.

`TokenCacheProofs` proves `CacheSingleFetch` for any number of callers and keys,
from `CacheAssumption`. The difficulty is that Set takes the Once out of the map
by its key; the inductive invariant says that an unfinished Once, and a finished
one until whoever ran its fetch has taken it out, is the one in the map, so that
nothing else is removed and no second fetch starts. `AuthClient` uses the same
actions for its calls of Set.

`FileStoreProofs` proves `FilesStayIntact` (`FilesIntact` always holds) for any
goroutines, contents, names, options and programs of calls, from
`StoreAssumption` (no name is one of the special values, programs consist of
well-formed calls) and `PackAssumption`. `FilesIntact` alone says nothing about
who may open a file. The inductive invariant adds that the lock of a name is held
by exactly the call that writes its file, while the name does not exist (`Locks`),
and that a file in `digestToPath` belongs to a name that exists or whose push
holds the lock at its last step (`Files`); hence a call that gets the lock of a
name that does not exist truncates no file that is in `digestToPath`. The lemmas
have one step for each kind of change: those that leave the files alone
(`QuietStep`), taking a lock (`Takes`), writing (`Proceeds`) and releasing
(`Releases`).

Out of reach of the prover and left to TLC: liveness under fairness, and facts
that need induction over the data, such as what `SubDAG` or `Visited` contain.

## Not modelled

* Selection by platform (`WithTargetPlatform`, `internal/platform`, `Resolve` and
  `Fetch` with a platform): a walk through content that nothing changes; its
  decision is a pure function of the manifests.
* Parsing and formatting: references, challenge headers, Link and Range headers,
  URLs, JSON, tar and gzip, the text of errors, warnings. They share no state.
* The read-only OCI layout and tar file systems: reads only.
* The pipe of the caching proxy and `LimitedStorage`: `CopyGraph` has their effect,
  that a manifest is read once. `StopCaching` is not modelled.
* Several processes: two programs that update the same referrers tag, OCI layout
  or configuration file. The last writer wins (`registry/remote/repository.go:1458`);
  the code promises nothing else.
* A mount as a step of the traversal in `CopyGraph`: it is an operation of
  `Repository`, on one blob.
* `AutoSaveIndex` and `AutoGC` of the OCI store other than true.
* Proofs for the OCI store and the referrers: `TagsResolve` and `PushDurable` for any number of
  clients, and the refinement of `ReferrersList`, are only model-checked.
