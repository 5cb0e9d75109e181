# GTE: a verification project

GTE is a Vulkan "hello triangle" with a text-buffer reader left over from an earlier life. `main()` reads a file,
sets up a window and a Vulkan pipeline (`graph_init`), draws until a draw fails
(`while (!graph_draw(graph));`), and tears everything down (`graph_destroy`, `close_buff`). The program is single-threaded, but
what it drives is not: the graphics queue executes submitted batches in its own time, the presentation engine holds and
releases images in its own time, and everything rests on fences and semaphores indexed two different ways. This
directory holds TLA+ models of that, the TLC runs that check them on small instances, and TLAPS proofs of the safety
properties for instances of every size.

Paths below are relative to the repository root.

## Inventory

| Part | State | Operations | What makes it correct |
|---|---|---|---|
| Frame loop and its synchronisation (`src/main.c`, `src/graph/draw.c`, `src/graph/sync.c`) | `Sync`: fences `obj_f`, acquire semaphores `obj_s`, semaphore groups `grps`; what is queued, running and waiting on the device | `sync_request`, `graph_draw`, the idle wait of `graph_destroy` | no fence or semaphore is reused while something may still signal or wait for it; an image is drawn to by one batch at a time and never while it is on screen; the loop never blocks for ever; nothing is destroyed while in use |
| Swapchain images (`src/graph/sch.c`, `img.c`) | who has each image | acquire, draw, present, release | one owner at a time |
| Graph lifecycle (`src/graph.c`) | the `Graph` structure | `graph_init` with its fifteen labels, `graph_destroy` | no leak, no double free, no wrong order, on any error path |
| The stages of `graph_init`: window, instance, layers and extensions, debug messenger, surface, physical device, device, swapchain, images, shaders, render pass, pipeline, framebuffers, command pools, command buffers, sync objects (`src/graph/*.c`) | one or more handles each | an init with its own unwinding, a destroy | as above, and each returns |
| Physical device selection, surface checks, queue selection (`src/graph/pdev.c`, `pdev/*.c`, `ver.c`) | a score; the chosen queue families, extent, format, present mode and image count | `select_pdev`, `rate_dev`, `check_srf`, `create_queues` | a suitable device is found when there is one; the chosen values are within what the device offers |
| Hash table, and the sets of names and blocks made of it (`include/hash.h`, `src/graph/nameset.c`, `src/blockset.c`) | buckets with chains, a lock count, a load factor | `hash_set`, `hash_get`, `hash_unset`, iteration, `rehash` | behaves as a map |
| Text buffer (`src/buff.c`) | a list of blocks over one array | `open_buff`, `buff_from_file`, `close_buff` | every block is linked and freed once |
| Options (`src/opts.c`) | the file name | one pass over `argv` | at most one file; `-h` ends the program |
| Build script (`make`, `shader/conf`) | the running jobs and their count | `submit`, `waitall` | no more than `max_threads` jobs; nothing is linked of which a part failed or is not done; the build ends |
| Error strings (`src/graph/glfw.c`), cache-line tool (`cache/main.c`) | none | formatting, printing | not modelled |

**Interactions.** `graph_draw` is the only operation between init and destroy. It calls `sync_request` and three Vulkan
functions that hand work to the two other actors. Device and engine never call back: they signal fences and semaphores,
and `vkAcquireNextImageKHR`, `vkWaitForFences` and `vkDeviceWaitIdle` block until they have. `obj_f[o]` is signaled when
a batch is done, and it is the only thing the host ever waits for; `obj_s[o]` goes from engine to device;
`grps[img][PIPE_SEM]` from device to engine.

**What is hard.** (1) The host reuses `obj_s[o]` because `obj_f[o]` is signaled, and `grps[img]` because `img` came back from the
engine: neither is waited for itself. (2) A draw may fail between any two of its calls and leave a fence reset, an image acquired, a
semaphore signaled. (3) `graph_init` has some 170 places to fail even in a small instance, with hand-written unwinding for each.
`PROJECT.json` lists these and the others as `hazards`, each with the properties that cover it.

## Modules

| Module | Models or proves |
|---|---|
| `FrameSync` | the frame loop: host, device queue, presentation engine; properties |
| `SwapImages` | abstract: each image goes round engine -> host -> gpu -> done -> engine |
| `FrameSyncInv` | the inductive invariant of `FrameSync`, and the mapping to `SwapImages` |
| `FrameSyncProofs` | type correctness and the safety properties, proved |
| `FrameSyncRefines` | `FrameSync` implements `SwapImages`, proved |
| `Lifecycle` | `graph_init` and `graph_destroy` with every error path; properties |
| `LifecycleProofs` | its safety properties, proved |
| `HashMap` | abstract: a map with iterators |
| `Hash` | the hash table of `include/hash.h`; properties, and the mapping to `HashMap` |
| `HashProofs` | what holds of its counts, iterations, growth, hint, keys and nodes, and that it implements `HashMap`, proved |
| `PickDevice` | `select_pdev`: version, extensions, features, surface and queue families of each device, and the choice; properties |
| `PickDeviceProofs` | its safety properties, proved |
| `Program` | `main()` around the graph: options, text buffer, what is given back; properties |
| `ProgramProofs` | its safety properties, proved |
| `BuildPool` | the background jobs of `make`; properties |
| `BuildPoolProofs` | its safety properties, proved |
| `NatLemmas` | least and greatest numbers, division and remainders, for the proofs |
| `MCFrameSync`, `MCLifecycle`, `MCHash`, `MCPickDevice`, `MCProgram`, `MCBuildPool` | the values of the constants for TLC |

Some definitions come with a variant just above them ("Mutant of ..."). The specification does not use it. Putting it in
place of the definition must break the property `PROJECT.json` names, which shows that the property constrains the code.

### FrameSync

`pc` is the call the host makes next, and every call is one action, because the device and the engine may step between any
two of them:

| `pc` | Action | Code |
|---|---|---|
| `wait` | `WaitFences` | `vkWaitForFences(..., VK_FALSE, UINT64_MAX)`: some fence is signaled |
| `scan` | `FenceStatus` | one turn of `for (i = 0; 1; i = (i + 1) % nsync)` |
| `reset` | `ResetFence` | `vkResetFences` |
| `acquire` | `Acquire`, `AcquireSuboptimal` | `vkAcquireNextImageKHR` with `obj_s[sync_obj]` and no fence |
| `submit` | `Submit` | `vkQueueSubmit2`: wait `obj_s[sync_obj]`, buffer `bufs[img]`, signal `grps[img][PIPE_SEM]`, fence `obj_f[sync_obj]` |
| `present` | `Present`, `PresentSuboptimal` | `vkQueuePresentKHR`, waits for `grps[img][PIPE_SEM]` |
| `idle` | `WaitIdle` | `vkDeviceWaitIdle` in `graph_destroy` |
| `destroy` | `Destroy` | `sync_destroy` and the rest |

Each `...Error` action is a result other than `VK_SUCCESS` that changes nothing else; `graph_draw` then returns 1, and `main()` goes to
`graph_destroy`. Two results are not `VK_SUCCESS` and change something: `VK_SUBOPTIMAL_KHR` from
an acquisition (the image is acquired, its semaphore will be signaled), and `VK_SUBOPTIMAL_KHR` or
`VK_ERROR_OUT_OF_DATE_KHR` from a present (the semaphore will be waited for). `MayFail` is the set of calls that may return
such results.

Device and engine are external: they are what the calls above may rely on, and no more. A batch starts when
its wait semaphore is signaled, in any order with the others, and any number run at once; when it is done it signals its semaphore and
its fence in either order. The engine signals an acquire semaphore when it stops reading the image, which may be long
after the acquisition returned; it takes a presented image when the image's semaphore is signaled, and may hand it
back out while still reading it.

Abstracted: the contents of images and command buffers; which queue (graphics and present may be one or two); timeouts of
`vkWaitForFences` (a retry that changes nothing); what stages a semaphore blocks (`TOP_OF_PIPE`: all of them).
`nsync` is both the number of sync objects and of images: `graph_init` passes `imgs.nimgs` to `sync_init`.

### Lifecycle

Each init function is written as the sequence of its calls. Every step says what it makes (`makes`), what it frees (`frees`), and what is
destroyed, in order, when it fails (`undo`): the unwinding its own code does at that line, to which `Within`
adds the labels of the caller. Each destructor is the sequence of what it destroys. `graph_init` and `graph_destroy` are then
the concatenations their code is; a loop of the code is `Repeat`, or a sequence indexed by its counter. The state is small: the next step, what is left to undo, and what is alive.
A malloc'ed array is an object too, and holds the handles stored in it: the `Holder` of a handle must be alive for a store
to succeed and for the handle to be found again.

Things the code does that the model keeps: `calloc` in `img_init` is checked through the wrong pointer (`checked = FALSE`);
`frames_init` never leaves its unwinding loop after the second framebuffer (`spins`); the shader modules are destroyed at
the end of a *successful* `graph_init`, and by the labels only if a later stage fails. A device that does not fit leaves
`rate_dev` early, having freed the same arrays as one that does, so a failing run of `rate_dev` needs no branch of its own.
The messenger and the layers are those of a debug build, the larger of the two lifecycles (`make` passes `-DDEBUG`), and
`MAX_SEM` is 1.

### Hash

One action per call of the interface and outcome of it: `hash_set` of a key that is there, is new, makes the table grow, finds it locked,
or runs out of memory at each of its allocations; `hash_unset`, `hash_get`, `hash_size`; an iterator's begin, next, end.
A bucket is its head, which is part of the table's array and may be empty, and its chain, in which a new node comes first.
An iterator is the slot its `d` points at. `rehash` is `StoredAll`: `hash_set` of each node in turn, in the order of an iteration, into
an array of `hash_init(elts * 2, thresh)` buckets, and a call that made the table grow goes on with the index from before. `hash_fn` is
any function of a given set, fixed at the start: XXH32 is external, and the pointer modulo the size for blocks. The load factor is
a rational; in single precision the default `0.8f` gives the same bucket counts and comparisons at the sizes used here. `prev`
pointers are implied by the order of the chain. `ToArray` is `nameset_to_array`: an array of `hash_size` elements, of which an
iteration fills as many as it gives out. Every call says how many chain nodes it mallocs and frees (`Accounts`), and `lost`
remembers whether that once was not what the chains gained and lost.

A call that fails without effect and a `hash_begin` without memory change nothing. The one failure that does is that of a
node of the new table in `rehash`, whose `clean_2` label calls `hash_end` with the wrong pointer: the table is `broken`, and no more is said about it. `Free` is
`hash_free`, the last call; that its callers have ended their iterations is theirs to see to, and they do.

### PickDevice

A behaviour is one call of `select_pdev`. `pc` is the check of `rate_dev` that comes next, and each check is one step, passed
(`Pass`), failed (`Unfit`: the next device) or failed to run (`Error`: `NULL`). `create_queues` takes a step per queue family (`Family`), because
`by_q` and `creates` are filled side by side, and only together make sense. `dev_srfinfo` and `dev_qs` start each turn with what C leaves
in them, here the value `none`, so that a field that was not filled in would be seen in the result. `Score` is what the code computes, which is 1: see the findings.
A surface offers at least one format, as Vulkan requires: `fmts[best]` is read without a look at `nfmts`.
Left out: what devices are called, `currentTransform` (handed on as it is), and the `VK_INCOMPLETE` of a second enumeration,
which is an error like any other.

### Program

One action per call of `main`, `parse_opts`, `open_buff`, `buff_from_file` and `close_buff`, so that the file may change (`FileChanges`) between any
two. A node is the range of bytes it holds and the indices of its neighbours. `live` is what has been allocated or opened and
not given back. The graph is one thing here that is there or not; `Lifecycle` says what it is made of, and that
neither a failing `graph_init` nor `graph_destroy` leaves anything, and `FrameSync` when a draw fails. `fread` is taken to return what the file has at that time, at
most `BUFF_DATA_CAP - 1` bytes; the buffering of stdio makes that an older state of the file, which the model includes, the file being free to
change again.

### BuildPool

The jobs of a build are numbered in the order in which they are submitted, for both calls of `main`: the one in the subshell of
`gen_size`, which builds the cache-line tool, and the one for the program, shaders first. `threads` and `r` are the variables of the script. A job is
`running`, then `ended` until a `wait -n` returns it, and `broken` when its status is not 0. `wait -n` is external: it returns any child that has exited,
or fails when there are no children. `set -e` turns a status that is not looked at into the end of the script: `failed` after a job
or a link, `cut` after a command of the shell itself (`StepFails`), which leaves the jobs running.

## Runs

| Run | Instance | Shows |
|---|---|---|
| `FrameSyncLive` | 3 images, no call fails, fairness | frames keep coming, and no image gets stuck on its way round |
| `FrameSyncFaults` | 3 images, every call may fail, fairness | the type invariant, nine safety properties, the inductive invariant, the refinement of `SwapImages`; fences come back, presented images arrive, and the program shuts down |
| `LifecycleFaults` | 2 devices, 3 images, 2 shaders, 2 pools; every call may fail; fairness | no double free, no wrong order, no leak, a complete graph; `graph_init` returns, the two mishandled failures aside |
| `LifecycleFramebuffer` | only `vkCreateFramebuffer` fails | **violated**: `frames_init` spins (`src/graph/frame.c:33`) |
| `LifecycleCalloc` | only `calloc` fails | **violated**: `img_init` stores through a null pointer (`src/graph/img.c:28`) |
| `HashHint` | 3 keys, hint 3 (5 buckets), every hash function; no unset; memory may run out | the table never grows, and is a map, `nameset_to_array` included: what the program relies on |
| `HashGrow` | 3 keys, hint 2 (3, 6, then 11 buckets), every hash function; sets, unsets, an iterator, a free; memory may run out | what holds of a table that grows: `hash_size` is never too small for the iteration, iterations list every key that is set, no *other* key is lost, what is unset is gone, nodes are freed when they leave the chains and not before, `rehash` does not recurse and the old index is an index |
| `HashGrowLoses` | the same, all calls but unset | **violated**: the key that makes the table grow is not found (`include/hash.h:142`) |
| `PickDevice` | one device that differs from a plain one in version, extensions, image counts, extents, up to three formats or up to three families; or up to three devices out of ten sorts; every query may fail | a suitable device is selected if there is one, never an unsuitable one, with its own queue families and surface parameters, which are valid for it |
| `PickDeviceScore` | up to three devices of two kinds, all suitable | **violated**: an integrated GPU listed first is preferred to a discrete one (`src/graph/pdev.c:103`) |
| `BuildPool` | 1 job, then 10; 4 slots; every job and every command may fail; fairness | the count is right, links are complete, a failure stops the build, the build ends |
| `Program` | up to two arguments; four kinds of file; lengths 0 to 7, changing; nodes of 3 bytes; every call may fail | the buffer is one list of consecutive pieces, stores are inside their arrays but for an empty file, what is left at the end |

**The safety properties of the frame loop.** `ResetFenceIdle`, `AcquireSemFresh` and `SubmitFresh` say that the fence and the semaphores given
to a call are in the state that call asks for. `AcquireMayBlock` says that the host keeps no image back while it waits for
one without a timeout. `RenderExclusive` and `ShowsCompleteFrames` say what the synchronisation is for: one batch per image, not
while it is on screen, and complete when shown. `WaitsAreFed` says that no wait is for something nobody will signal, `ScanFindsFence` that
the scan in `sync_request`, which has no other exit, finds a fence before it wraps around, and `DestroyIdle` that `sync_destroy` comes
after the last batch.

**Bounds.** There are no counters to cap: batches, requests and acquisitions are records over finite sets, and
the state space of an instance is finite and explored to the end. Three images is what `check_srf_caps` asks for
where the surface allows it (`clamp_1D(minImageCount, 3, maxImageCount)`), and the least number with which the fence, the acquire semaphore and
the image of a frame can all differ in index and a third frame be on its way. `MinImages` is the surface's
`minImageCount`; the engine is entitled to keep one image less than that. In `Lifecycle` two or three of each
array give a first, a middle and a last element to fail at; two devices let the second start from what the first left. In `Hash`
three keys in one bucket give a head, a middle and a last node; with a hint of 2 the third key makes the table grow, and
unsetting keys and setting them again makes it grow again, since `elts` never falls. `MaxElts` stops that at 6, after the second growth. The keys are a symmetry set: `HashFns` has every function from the keys to the
buckets, and the properties of these runs are invariants, action properties and a refinement without fairness, for which symmetry is sound.
In `PickDevice` the numbers lie on either side of every comparison: minor versions 2 to 4, counts around the 3 that is asked for, extents
below, on and above both limits, and `UINT32_MAX` = 9 as a number larger than any other. Three families give the two queues every order, together and apart; three devices
put the selected one first, in the middle and last. In `BuildPool` ten jobs fill the four slots of the script twice and over, and the first `main` hands the count on.
In `Program` seven bytes are no node, a part of one, exactly one or two, and a part of a third.

**Deadlock** is checked in every run. The only states with no way on are those in which the process has ended, and they
have an explicit stuttering step (`Stopped`, `Over`; in `Hash` also the table that was freed or broken).

**Fairness.** `FrameSync`: the host thread keeps running, weakly fair on its successful calls as a whole (no failure is ever forced); the
device eventually runs, and signals for, every batch it may start; the engine eventually signals
acquisitions, takes presents whose semaphore is signaled, and releases an image while it keeps `minImageCount` of
them or more, which is the forward-progress rule that lets `vkAcquireNextImageKHR` be called with `UINT64_MAX`. It may keep
fewer for ever. `BuildPool`: the shell goes on, and every job exits some day; none has to fail. `Lifecycle`: the thread keeps running; nothing makes a draw fail. In `FrameSyncFaults` a call may fail at
any time but need not: the properties hold with "or the program quits".

## Theorems

Each is about every value of the constants that the named assumptions of its module admit.

**Frame loop**: every `NSync > 0`, every `MinImages` in `1 .. NSync`, every `MayFail`.
`FrameSyncProofs` proves `Spec => []IndInv` (`Invariance`) and from it `TypeCorrect`, `ScanTerminates`, `FencesResetIdle`,
`AcquiresFresh`, `SubmitsFresh`, `AcquiresMayBlock`, `NoWaitInVain`, `ImagesExclusive`, `FramesComplete` and `DestroySafe`. None of
these is inductive but `ScanFindsFence` and `DestroyIdle`. `IndInv` says for each kind of object where it can be:

- `Shape`: the fence of a batch is that of its acquire semaphore, and its image that of its signal semaphore. This is
  what ties the two ways of indexing together.
- `Unique`: no two batches in flight share a sync object or an image.
- `Fences`: a fence is in one place: signaled, about to be, with a batch, or with the host.
- `AcquireSems`, `BatchesFed`: an acquire semaphore with something to happen to it has the one batch that waits for it, or the
  host about to submit that batch, or a failure has ended the loop; and the batch finds its acquisition. So a
  signaled *fence* says that the *semaphore* is idle, which is why `sync_request` may hand out both.
- `Images`, `PipeSems`, `RequestsFed`, `Reading`: a render-done semaphore is only ever in use while its image is out of the engine's
  hands, so acquiring the image says that the semaphore is idle too.

The proof takes the actions one at a time, and under each the conjuncts it can disturb.

`FrameSyncRefines` proves `Spec => ImplementsSwapImages`: the owner of each image, read off the state by `Owner`, changes
only as `SwapImages` lets it. `Acquire` is `Take`, `Submit` is `Hand`, the last `Finish` of a batch is `Finish`, `TakePresent` is
`Show`, all other steps stutter. It uses `IndInv`.

**Lifecycle**: any positive number of devices, images, shaders and pools, any set of calls that may fail (`free` is not one).
`LifecycleProofs` proves `TypesSound`, `DestroysSound`, `OrderSound`, `NothingLeaks` and `HandsOutSound` (every safety property of the run) and
`OnlyCalloc`: if `calloc` does not fail, nothing is stored into an array that is not there, so the second finding below is the only one of its kind.
The invariant is that in `init` what is alive is `LiveAt[next]`, the objects before that step (or, after the failed `calloc`, those before the step before),
and that whenever something is being undone, `todo` is a `Teardown` of what is alive: it names every living object once, and none before one that needs it.
That the sequences have this property at every step is proved function by function, the way the code is written. `Does(steps, base, X, Y)` says that from the
objects `X`, which the caller can undo by `base`, the steps lead to `Y`, and that at each of them the function's own undoing followed by `base` is a
`Teardown` of what is there. Two such functions in a row do, a function `Within` one that has more to undo does, a loop that makes an
array does by induction on its index (`Makes`), and `Repeat` does if its body gives back what it takes. `Earlier` is `graph_init` up to
`img_init`; `Later` is the rest, which is proved once for any prefix of its objects because the labels run with the shader modules alive and `graph_destroy` without.

**Hash table**: any keys and values, any hash function, any hint and any load factor for which a table has a bucket. `HashProofs` proves
`SizeSound`, `ListingSound` and `RehashSound` from the invariant `IInv`: every bucket has at most one head, the nodes are finitely many, `elts` is
no less than their number (and equal to it, with no chain behind an empty head, if nothing is unset), and every stored key has a node. `RehashSound` needs the arithmetic of the load
factor: a table made for `2 * elts` nodes is below its threshold with `elts` in it. `HintSound` is what keeps GTE from finding 3: with nothing unset, a load factor of at most 1, and no more
keys than the hint, no call ever grows the table. It needs more, `RoomInv`: the table is the one of `hash_init`, every key is in its own
bucket, and there once, so `elts` cannot pass the number of keys. It covers the callers that give a hint and those that give 0, which stands for 16. The hint and twice `MaxElts`
are at most `FloatExact`, 2^24 - 1, and the load factor is an exact quotient: single precision beyond is not modelled.
What `StoredAll` gives is proved by induction over the walk on a formula without operator parameters: the table is `Placed` (every key in its
bucket, and there once), no chain is behind an empty head, and the keys found in it are those of the walk, which visits every node.
`OthersSafe` follows from that for a call that grows the table, and from what `Inserted`, `Updated` and `Removed` leave in a bucket for the others. `NodesSafe`
counts: the nodes of the chains are those of the table less the filled heads, and each call changes the difference by what it allocates and frees. `NoneSound` needs `MadeInv`: a
table never has fewer buckets than `hash_init` gave it, and one that still has those is `Placed`, also after heads with chains were unset.
`MapSound` is the refinement of `HashMap` (`ImplementsHashMap`), under the conditions of `HintSound`: finitely many keys, no more than the hint, a load factor of at most 1, nothing
unset. A `Placed` table has one node of each key, so `Contents` is the set of its nodes (`NodesOf`): `hash_set` replaces the node of its key and no other (`SetMaps`), their number
is `elts` (`SizeMaps`), an iterator leaves behind exactly the slot it gave out (`AheadAfter`), and `nameset_to_array` fills all of its array (`ToArrayMaps`).
Each action is one call of `HashMap`, a call that finds the table locked or runs out of memory its failing one.

**Device selection**: any list of well-formed devices (`DevListsAssumption`), any number of formats, modes and families, any `UINT32_MAX` of at least 3.
`PickDeviceProofs` proves `QueuesServed` and `SelectionSound`. The invariant follows the chain of checks: `Passed` and `Info` say what the checks before `pc` found and
filled in, `Queues` that the families chosen so far serve the queues found and that no earlier family could be one that is still missing
(so that a device is turned down only if none of its families will do), `Rated` that the best device so far is suitable and comes with its own infos.

**Main and text buffer**: any command line, any file that changes at any time, any node size of at least 2, lengths below 2^32 (the code counts
the nodes in 32 bits: `MaxLenAssumption`). `ProgramProofs` proves `ListSound`, `StoresSafe` and `ExitSafe`. `Room`
is the reason: as many nodes as `Measure` computed hold what it measured, and a file that has grown since is cut off there. `Holds` names what is
allocated or open at each point.

**Build script**: any number of jobs and slots, any order of calls of `main`.
`BuildPoolProofs` proves `CountRight` (`SlotsCounted`), `LinkSafe` (`LinksComplete`) and `FailureSeen`
(`FailureStops`) from the invariant `IInv`. `LinksComplete` is not inductive: it needs `Noticed`, which says that while no `wait -n` has returned a failure
every job that failed is one still to be waited for, and `Counted`, by which a count of 0 means that there is none. `Shape` keeps jobs in one place each, and below `next`.

**Only model-checked.** Liveness (`FramesKeepComing`, `ImplementsFairSwapImages`, `FenceReturns`, `PresentsArrive`, `ShutsDown`,
`OthersReturn`, `Ends`): the provers have no rules for fairness and `ENABLED`.

## Findings

1. `src/graph/frame.c:33`: when `vkCreateFramebuffer` fails for any frame but the first, `while (i) vkDestroyFramebuffer(dev,
   frames->frames[i], NULL);` never changes `i`. The loop does not end, and starts with a handle that was never created. The loops in
   `shader.c` and `pool.c` decrement. Run `LifecycleFramebuffer`.
2. `src/graph/img.c:28`: the result of `calloc` goes to `imgs->views`, and `imgs->imgs` is tested. "Can't calloc" is never
   printed, and the first view is stored through a null pointer. Run `LifecycleCalloc`.
3. `include/hash.h:142`: `hash_set` stores a new key at the bucket index `lookup` computed before `rehash`. It is not found again until
   the table grows once more. Run `HashGrowLoses`. `HashHint` shows why GTE does not meet it: `check_layers`, `check_exts` and
   `check_dev_exts` pass the number of names as the hint, `get_layers`, `get_exts` and `open_buff` set fewer than the default 16.

4. `src/graph/pdev.c:103`: `rate_dev` writes `score += 10` (`11`, `12`) for `*score += 10`. The pointer moves, every device that fits scores 1, and the
   first of them is selected whatever its type. Run `PickDeviceScore`.

Seen in the models, with no run of its own: (a) filling the unset head of a bucket cuts off its chain (`include/hash.h:141`; the condition of
`OthersKept`); (b) `hash_unset` leaves `elts` as it is (`include/hash.h:185`; hence `>=` in `SizeCovers`); nothing in GTE unsets; (c) `rehash` passes the iterator instead of
its address to `hash_end` when it runs out of memory (`include/hash.h:265`; `SetCrashes`); (d) `vkDeviceWaitIdle` waits for submissions, not for the presentation
engine, so `sync_destroy` may run while a present still waits for its semaphore. The repository claims nothing about it; (e) an empty file asks for an array of no nodes, and `buff[nodes - 1].next = NULL` is stored before it
(`src/buff.c:69`; `Overrun`, the exception in `StoresInside`); (f) `close_buff` does not check the iterator it gets (`src/buff.c:38`; `BeginFails`); (g) when `graph_init` or
`open_buff` fails, `main` returns without `close_buff`, and the blocks are left to the system (`src/main.c:20`; the exception in `ExitsClean`); (h) a command of the build script that
fails between two jobs leaves jobs running (`make:89`; `StepFails`, the exception in `LinksComplete`); (i) the queue families differ whenever the first that can draw cannot
present, and then the images change families without a transfer (`src/graph/sch.c:23`).

## Not modelled, and the plan

1. `FrameSync`, `SwapImages`, `FrameSyncInv`, `FrameSyncProofs`, `FrameSyncRefines`: done.
2. `Lifecycle`, `LifecycleProofs`: done.
3. `HashMap`, `Hash`: done. `HashProofs`: done.
4. `PickDevice`, `PickDeviceProofs`: done.
5. `BuildPool`, `BuildPoolProofs`: done.
6. `Program`, `ProgramProofs`: done.

Left out for good: error strings and the debug callback (they print, and nothing depends on them), the cache-line tool (asks the processor for one number),
fixed-function pipeline state, shaders and vertex data, what `shader/conf` writes into the generated sources, a lost device (its submissions complete, by Vulkan's rules), and a
`vkDeviceWaitIdle` that runs out of memory (its result is ignored; `DestroySafe` is for a wait that succeeds).
