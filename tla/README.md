# Verification of `baseten.bdn`

TLA+ models of the BDN client library, their model-checking runs and their
proofs. The library has two clients: `volumes` pulls a version of a volume from
an object store into a local directory, `hotload` asks a daemon on the same
node to attach a volume. All source paths below are relative to
`src/baseten/bdn/`.

Contents: [1 the system](#1-the-system), [2 modules](#2-modules-and-the-code),
[3 runs](#3-runs), [4 fairness](#4-fairness), [5 proofs](#5-proofs),
[6 where the code disagrees with itself](#6-where-the-code-disagrees-with-itself),
[7 abstractions and what is not modelled](#7-abstractions-and-what-is-not-modelled),
[8 plan](#8-plan).

## 1. The system

| Part | Where | State | Operations | Interacts with |
|---|---|---|---|---|
| Pull | `volumes/_client.py` `VolumeClient.pull` | staging directory, destination | check, prepare, build, move into place, clean up | everything below, the user's file system |
| Transfer | `_Materializer._fetch_files`, `_plan_file`, `_fetch_chunk` | futures, thread pool queue, files being written | plan a file, fetch a chunk | byte budget, object store |
| Byte budget | `volumes/_materialize.py` `ByteBudget` | one counter under a condition variable | acquire, release | the pool's workers |
| Materialization | `_Materializer.run`, `volumes/_materialize.py` | the tree on disk | directories, links, files, modes, times | transfer |
| Origin reads | `volumes/_s3.py` `ObjectStore` | none beyond a call's locals | get with retries | bucket, credential source |
| Credentials | `_CredentialSource`, `_token`, `_resolve`, `_with_retry` | current credentials, token cache, two locks | current, refresh, mint, resolve | cannery, Baseten API |
| Manifest | `volumes/_manifest.py` | the loops' locals | parse lines, check names and links, render targets, check that chunks tile | pull |
| References and listings | `volumes/_ref.py`, `VolumeClient.fetch_manifest`, `volumes/_models.py` | none: a ref is a value | parse, print, shorten, pin, narrow, list | everything |
| Hot Load client | `hotload/_client.py` | none beyond a call's locals | attach, list, get, detach, healthy | daemon on a Unix socket |

How they interact: `pull` checks the destination, resolves the ref (credentials),
reads the manifest (origin reads), checks and selects its paths (manifest), and
hands it to a materializer, which makes directories and symlinks on the calling
thread and files on a thread pool. Each worker takes its share of the byte
budget, reads an object with the pull's shared credential source, and writes
into the tree. The pull then moves the tree into place, or removes it. Hot Load
is separate: one request loop per call.

### What is hard about it

* **Threads.** Up to sixteen workers share the budget, the credential source and
  the tree on disk; the main thread submits work while they run. The budget can
  block a worker on another one.
* **Failure.** Any read, write, mint or resolve may fail, be retried or time
  out, while the other workers go on; the pull then has to stop them before it
  removes what they write into.
* **Time.** Credentials and tokens expire during a pull.
* **The destination.** It is checked long before it is used, and users and other
  pulls may touch it in between. A process can die at any moment. What earlier
  pulls left (modes, links, half a tree) is in the way of later ones.
* **Retries of requests with an effect.** An attach or detach whose answer is
  lost may have been carried out, or may still be under way.
* **Names.** A symlink's target is resolved by the library, rewritten, and resolved
  again by the file system; a path is read from a manifest, shown to the caller,
  and comes back in a ref.

### What makes each part correct

* *Byte budget*: the bound holds but for one oversize call that is alone; every
  waiter is woken and every call, the oversize one too, is admitted.
* *Transfer*: no byte that landed is truncated away; it returns only when all is
  written and raises only when its workers have stopped; the budget is given back
  on every path; it ends.
* *Origin reads and credentials*: a refresh never installs older credentials or
  another version, a rejected credential is not used again, tokens are not minted
  twice, no failure keeps a lock, the retry loop is bounded.
* *Pull*: the destination never shows half a tree, nobody's file is replaced
  without overwrite, a failed pull cleans up.
* *Materialization*: whatever the destination held, a pull that returns leaves
  the manifest's tree; modes of earlier pulls never stop it; it writes through no
  link, symbolic or hard.
* *Manifest*: an accepted chunkmap tiles its file; the entries of an accepted
  manifest can all be made, in any order of its lines; a symlink leads, as written,
  to the place inside the root that was looked at.
* *References and listings*: parsing undoes printing, whichever way a ref was
  made; a listed path, put into a ref, names its entry.
* *Hot Load*: what a call reports is true of the daemon; nothing that may have
  been carried out is sent again; a call ends.

## 2. Modules and the code

Each specification is parameterised by CONSTANTS with named assumptions. A
module `MC<X>` instantiates `<X>` for TLC. Definitions named `<Def>_<Variant>`
with a comment "Mutant:" stand before a definition they alter the way a
plausible bug would; the models do not use them. PROJECT.json's `map` gives the
source lines of every definition.

| Module | Models | Its state in the code |
|---|---|---|
| `ByteBudget` | `acquire` and `release` | `inFlight` is `_in_flight`; `call` is where each caller is, `"waiting"` being parked in `Condition.wait` and `"trying"` about to test again |
| `Transfer` | nothing by itself: what `_fetch_files` promises its caller | files created, chunks landed, outcome |
| `FetchPool` | `_fetch_files`, `_plan_file`, `_fetch_chunk` on a `ThreadPoolExecutor` | `main`, `toSubmit`, `fetches`, `collected` are the main thread's; `queue`, `task`, `job`, `at` the pool's; `inFlight`, `call` are an instance of `ByteBudget` |
| `OriginRead` | `ObjectStore.get`, `_CredentialSource`, `_resolve`, `_with_retry`, `_token` | `token`, `tokLock`: the client's cache and its lock; `current`, `lock`: each pull's source; `resolve`, `place`, `attempt`, `credential`, `sent`: each call's locals |
| `AtomicPublish` | nothing by itself: what `pull` promises of the destination | the destination |
| `VolumePull` | `pull`, `_check_destination`, `_staging_dir` and cleanup | `dest`, `staging`: the file system; `pc`: where each call is |
| `Materialize` | `_Materializer.run`, `_materialize.py`, `select_paths`, `hardlink_groups`, `implicit_directories` | `tree`: names, inodes, modes; `stage`, `todo`: the loops of `run` |
| `Manifest` | `parse_manifest` with `ContainedPaths`, and `parse_chunkmap`, as one machine that reads an object line by line | `header`, `records`: what was parsed; `at`, `offset`, `rendered`: the loops' locals |
| `VolumeRef` | `VolumeRef.parse`, `__str__`, `shorthand`, `with_path`, `without_path` as operators on texts | a ref is a record of texts |
| `Listing` | a caller that parses refs, reads `fetch_manifest`, and narrows, widens or pins its ref | `ref` is the caller's, `listing` what it was shown |
| `HotLoad` | `_request` of both clients and the public calls; the daemon as an external | `phase`, `tries`, `outcome`: each call's loop; `requests`, `records`, `up`: socket and daemon |

Composition: `FetchPool` contains an instance of `ByteBudget` and its actions
call `Budget!Admit`, `Budget!Park`, `Budget!Release`. `FetchPool` implements
`Transfer` and `ByteBudget`; `VolumePull` implements `AtomicPublish`. `VolumePull`
and `Materialize` both see the transfer only through what `Transfer` promises:
writes in any order that have stopped when it returns or raises, unless an
interrupt cut the pool's closing short. `Materialize` makes trees out of versions
such as `Manifest` lets through. `Listing` drives `VolumeRef`.

Theorems are in modules of their own: `ByteBudgetProofs`, `FetchPoolProofs`,
`OriginReadProofs`, `VolumePullProofs`, `MaterializeProofs`, `HotLoadProofs`, `ManifestProofs`,
`ListingProofs`.

## 3. Runs

`tlc -config <cfg> <module>`; deadlock checking is off wherever the system's
calls may all be over.

| Run | Instance | What it shows |
|---|---|---|
| `budget` | five calls: charges 1, 2, 2, 6 and 0 against a limit of 4 | accounting, bound, wakeups, and that every call is admitted |
| `fetch_pool` | three workers; a listed file of two chunks, an empty file, one file with an oversize chunk; two interrupts | the transfer's properties and both refinements, with liveness |
| `origin` | two pulls of one client, two reads of one of them, two attempts, clock to 1, tag moved or deleted | both locks contended: the source's properties across staleness, rejection and refresh; tokens are not minted twice; every read ends |
| `origin_loop` | one read, the code's five attempts, units of 35 s | violation, section 6 |
| `pull` | two pulls, each with or without overwrite, two entries, one user path, one interrupt, crashes; the destination absent, a directory, a file or a symlink to a directory | atomic publication, cleanup, that a returned tree stays |
| `pull_read_only` | one pull of a volume with a read-only directory | violation, section 6 |
| `materialize` | three pulls of two versions, whole or narrowed two ways, 76 initial trees on five paths | the tree is the manifest's; no leftover mode stops a pull; nothing else is touched |
| `manifest` | manifests of up to three of 42 entries; chunkmaps of up to three chunks, each of 0 to 2 bytes at 0 to 3, for files of 0 and 3 bytes; two hops | what is accepted tiles, nests, and resolves as checked |
| `listing` | every text of up to five characters over the separators, longer ones behind a volume or a digest; two volumes of entries | parsing undoes printing; a plain entry's path names it |
| `listing_percent` | the same | violation, section 6 |
| `hotload` | two attaches of one target beside a probe, an attach beside two detaches of it, an attach beside a lookup; one retry; a daemon that refuses, abandons, stops once and loses answers | reports are true, nothing is sent twice, calls end |
| `hotload_connection` | the same | violation, section 6 |

Type invariants are proved where a module has proofs (section 5); `materialize`
and `listing` check theirs as well.

Why these bounds suffice for the question asked:

* *budget*: the budget tells callers apart only by charge. The charges cover
  zero, one that fits beside others, two that fill the limit together, and one
  above the limit. Five calls let a release wake several of which one must park
  again.
* *fetch_pool*: truncation needs one file of two chunks and another worker;
  parking needs an oversize chunk against a smaller one; a third worker lets a
  plan run while two fetches contend. Two interrupts: one to leave the loop, one
  to leave the pool's exit.
* *origin*: a lock matters where two threads want it, so two reads share a source
  and its pull shares the token cache with another one. Credentials and tokens live 2 units
  against a margin of 1: at time 0 they are fresh, at time 1 stale. No later time is needed, as
  the bucket may reject a request at any time, whether or not its credentials have
  lapsed. A second attempt lets a read go on after a rejection.
* *materialize*: five paths hold a directory, a directory in it, a file below
  each and a path beside them, enough for every relation the helpers look at
  (parent, ancestor, link partner, unrelated). Three pulls let a failed one and a
  finished one precede the last.
* *manifest*: three chunks show an overlap, a gap, a swap and an empty chunk in
  between. Three entries show a conflict of names with a third between them, and
  a symlink through a symlink through a directory; the targets are relative and
  absolute, climb before and after a link, leave the root, lead to themselves, to
  nothing and to the root. Two hops are enough to be exceeded.
* *listing*: names of 2 to 3 characters, tags and digests of up to 2 and a digest
  shorthand of 1 keep every limit of the grammar in reach of a text of a few
  characters. The alphabet, a parameter of `VolumeRef`, has one or two members of every class
  the code tells apart, and the characters that `%25`, `%2E` and `%2F` are made of.
* *pull*, *hotload*: hazards are between two calls, or a call and one other
  actor; each has two. `hotload` takes the calls in three mixes: what a lookup
  does it does alone, and probes and detaches of different targets do not meet.

Every property of a passing run has a mutant of a mapped definition that TLC
finds violating it, listed in PROJECT.json.

## 4. Fairness

* `ByteBudget`: weak fairness of each call's steps but the call itself; the caller
  in `_fetch_chunk` releases in a `finally` whose body ends.
* `FetchPool`: weak fairness of the main thread and of each worker: threads are
  scheduled and each read ends, `OriginRead` being the reason. Nothing forces an
  interrupt or a failure. `ImplementsBudget` checks that this gives the budget
  the fairness its own specification assumes.
* `OriginRead`: weak fairness per thread. A request is answered or times out
  (`httpx` timeouts bound the silence, and an origin that drips for ever is left out). No fairness of the locks is assumed: a lock is taken
  finitely often, so weak fairness of the waiting thread is enough.
* `HotLoad`: weak fairness of the client's steps only. Connecting, waiting and
  pausing have timeouts; the daemon owes nothing and may stay silent.
* `VolumePull`, `Materialize`, `Manifest`, `Listing`: safety only, no fairness.

## 5. Proofs

`tlapm <module>.tla` checks a module's proofs. All theorems hold for all values
of the constants under the modules' named assumptions; each is what the code or
its callers guarantee (charges are natural numbers and the limit positive, each
chunk is in the plan of one file, once, the lengths of chunks are natural numbers, what a manifest records has passed its checks,
each character that `quote` does not keep has an escape of two hex digits, which names no other),
or tells model values apart.

**`ByteBudgetProofs`**: `BudgetType`, `BudgetAccounting`, `BudgetIsBounded`,
`WakeupNeverLost`. The inductive invariant `IInv` adds to the properties that the
set of held bytes is finite. `HeldBytes` writes the held charges as a set of
pairs (call, byte), so that the sum is a cardinality and admissions and releases
are a disjoint union and a difference (`FS_Union`, `FS_Subset`). The bound needs
the accounting: an oversize call is admitted only on a zero counter, and a zero
counter means that nobody holds a byte (`ZeroMeansNothingHeld`). The wakeup
needs it too: a call parks only on a positive counter, and then some holder has
bytes whose release will wake it (`PositiveMeansSomeoneHolds`).

**`FetchPoolProofs`**: `PoolType`, `PoolBudget`, `PoolNeverStuck`,
`PoolLosesNothing`, `PoolUsesBudget`, `PoolSumIsExact`, `PoolTransfers`. The
inductive invariant joins types, the budget's own invariant and two groups:

* `TaskInv`, the life of a task: what is to be submitted is new, what is queued
  is queued once, a running task has one worker, taken plans are done, a chunk is
  submitted only after its file's plan was taken, and only submitted chunks have
  landed. `NothingLost` follows: a worker that creates a file has its plan
  running, so it is not done, so not taken, so none of its chunks has been
  submitted, let alone landed.
* `CallInv`, worker by worker and chunk by chunk: the place of a worker in
  `_fetch_chunk` is the state of its chunk's call of the budget. `BudgetFollowsWorkers`
  is this read as sets.

`PoolNeverStuck` combines them: if every busy worker waited, the budget's
`NoLostWakeup` would give a holder, `CallInv` a worker at a holding place,
and `JobInv` that this worker does not wait. `PoolUsesBudget` shows each step of the
pool to be a step or a stutter of `ByteBudget`, which is how the budget's
invariant is reused (`BudgetStep`).

For `PoolSumIsExact` and `PoolTransfers`, `TransferInv` adds to the pool's
invariant what the main thread knows: `FetchesInv`, `PlannedInv` and `CollectedInv` say that its list of futures holds each submitted chunk once,
that a taken plan's chunks are in it or about to be, and that what it has
collected is done; `LeavingInv`, that it leaves without an error only when all
plans are taken and all futures collected; `DiskInv`, that what is done is on
disk. A return then meets an idle pool and a complete disk, and a raise an idle
pool unless an interrupt cut the exit short: these are `Transfer`'s outcomes. Each other
step is one of `Transfer`'s writes or a stutter.

**`OriginReadProofs`**: `OriginType`, `OriginOneVersion`, `OriginFreshTokenKept`,
`OriginNeverOlder`, `OriginRejectedNotReused`. `OriginInv` has a part per thread, source and read.
`ThreadInv`: who resolves for an open source holds its lock; who mints holds the
cache's lock and the cached token is not fresh; an answer is no older than what
the source holds, nor than the rejected request it replaces.
`SourceInv` and `ReadInv`: what a source holds is of its version, and nothing was issued or
sent later than now. The two locks do the work:
`Spares` says that a step of one thread leaves every other thread's part true
if it leaves alone the locks the other holds, and one lemma (`StepOfThread`)
then reduces each action to its own thread's part. Nothing is assumed of lifetimes, the margin or the
length of a request.

**`VolumePullProofs`**: `PullType`, `PullCleansUp`, `PullPublishes`,
`PullKeepsUserFiles`, `PullReturnedIsThere`. `LocalInv` ties where a call is to
its own staging directory (`CallInv`, `StagingInv`: a call that renames has
its whole tree in it); `NodeInv` says that nothing is below what is no directory.
They give the refinement step: a rename is `AtomicPublish`'s publication over
nothing, an overwrite's move its replacement of one entry, the rest a user's
step or a stutter. `ThereInv` follows a published tree while no pull overwrites, since `rmdir` and a rename both need an empty place. `PullCleansUp` assumes `~ ReadOnlyDirs`,
as its run does; with read-only directories it is false (section 6).
`PullKeepsUserFiles` is proved and needs no run of its own.

**`HotLoadProofs`**: `HotLoadType`, `HotLoadOneRequest`, `HotLoadReturned`,
`HotLoadNotFound`, `HotLoadNoConnection`, `HotLoadLoop`, `HotLoadReplay`. The
observation everything rests on is that an attach or a detach has at most one
request with the daemon, and none while it is about to send or pauses
(`SentInv`): only errors that prove that nothing is outstanding are retried. With it
`RecordsInv` says that a READY record belongs to an attach whose answer is on its way or
given, so a retry meets a FAILED record or none; `RemoversInv`, that a detach that
removed something is told so or hears nothing; `LoopInv`, that the three places that
decide whether an attempt is the last agree.

**`MaterializeProofs`**: `MaterializeType`, `MaterializeNothingOutside`,
`MaterializeNoPermissionNeeded`, `MaterializeTree`, `MaterializeUserFilesKept`, for any
paths, versions, modes and initial trees. Three layers of lemmas. The first
is about paths: prefixes, parents, depth. The second is about each file-system operation and each helper of
`_materialize.py`: what it leaves at its path, that it leaves every other name and inode
alone (`Same`), and that the tree stays well formed (what has a name is in a directory, the
inodes in use are the named ones). `ensure_dir`'s walk, a recursive function over
a path's prefixes, is shown to exist by induction. The third is the invariant of
`run`, a part per kind of entry: `DirsInv`, what has been made a directory is one, open while files are
written and as recorded once stamped; `SymlinksInv`; `FilesInv`, which file is written, linked
and stamped, and that two paths share an inode exactly if they are of one link group.
`NothingOutside` and `NoPermissionNeeded` need `DirsInv` above every path a step touches; `UserFilesKept`
needs that no inode is shared outside a group, or a write through one name would reach another.
The deepest-first order of stamping is what keeps a directory without search
permission out of the way of the rest.

**`ManifestProofs`**: `ManifestType`, `ChunkmapTiles`, `ManifestFits`, `ManifestLookup`,
`ManifestWritten`. `ChunksInv`
is the loop invariant of `parse_chunkmap`: the chunks so far lie end to end from
zero to `expected_offset`; each byte of an accepted file is then in the chunk
around it and in no other. `NamesInv` is that of the two loops of `ContainedPaths`:
names differ so far, and all that is above an entry are directories. The proof of
`ManifestFits` needs both for all records at once, since a conflict may come from a
later line. `LinksInv` says that every symlink passed was looked at and rendered.

The two theorems about lookups compare two recursive walks: the gate's, a walk per link, one hop
deeper for each link on the way, and the kernel's, one work list of components. First each recursive
function is shown to exist (`TargetWalkExists`, `RealExists`, `NormalizingExists`; `LookupExists`,
where a lookup in a loop ends nowhere and one that ends has one end). Then
`AgreeAll(text, next)` states what carries the induction: from every link whose target `next` has found, the lookup
of the recorded targets and that of `text`, whatever each has left after the link, come to that place
having followed equally many links, unless the first leads nowhere. `OneTurn` carries it over a component,
`AgreeRecorded` over a target written as recorded, `AgreeReal` from the last hop to the first.
`AgreeRendered` is the case of an absolute target made relative: the recorded one is walked from the root, alone,
until its path and the link's part, over directories none of which is a link, which is what
`_check_ancestors` is for; the written one climbs to that place (`Climb`), and from there
both take the same names.

**`ListingProofs`**: `ListingType`, `ListingRoundTrip`, `ListingPlainPaths`, for texts of any length over
any alphabet. The invariant `IInv` says that whatever ref a caller has is one that `parse` could have made
(`IsRef`: names, tag and digest of their grammar, a path that is the root or slashed `GoodNames`, a tag or
a digest but not both), and that a listing is of a ref with a volume. `ParseIs`, `PinnedIs`, `WithPathIs` and
`WithoutPathIs` give it for every call. The rest is what a text goes through: `UnquoteQuote` (an escape
is found again whatever follows it, since what comes before is `Complete`), `SplitSlashed` and `SlashedSplit`
(splitting and joining undo each other), `SplitConcat` (the first slash ends the namespace, the second the
volume), `SelectorOf` (no name, tag or digest holds the `@` or `:` that ends it), `PathPrinted`. `StrParses` and
`ShorthandParses` put the parts together. A listed path without a percent sign is
unquoted to itself (`UnquotePlain`), and its segments are usable because the manifest's check
says so (`VolumesAssumption`).

**Only model-checked**: liveness (`EveryCallAdmitted`, `Termination`, `EveryReadEnds`, `EveryCallEnds`,
and the fairness in `ImplementsBudget`), since neither fairness nor ENABLED is in the prover's reach.
The library's induction theorems take an operator as a parameter, which the provers cannot instantiate;
where a proof needs induction it is over a set: over finite sets by a minimal counterexample
(`MaterializeProofs`), over natural numbers by the smallest one (`NatSet`), over sequences by their length (`SeqSet`
in `ListingProofs`). So recursive functions are proved about once they are shown to exist, as `Split` is
(`SplitExists`).

## 6. Where the code disagrees with itself

* `origin_loop`: the branch of `ObjectStore.get` for expired or invalid
  credentials is the only one that does not look at the attempt counter
  (`volumes/_s3.py:215`). A rejection of the last attempt refreshes, sleeps and
  falls through to `raise AssertionError("unreachable: ...")`.
* `pull_read_only`: "a failed pull leaves nothing behind", but recorded modes are
  stamped before the move into place, and `rmtree(ignore_errors=True)`
  (`volumes/_client.py:293`) cannot empty a directory without write permission.
* `hotload_connection`: "The message says whether the daemon may have seen the request"
  (`hotload/_models.py:77`), but `_http_failure` (`hotload/_client.py:494`) goes by the last attempt: an
  attach answered as retryable after the daemon journaled it, whose retry cannot connect, raises a bare
  "could not connect" while its FAILED record holds the target. `NoConnectionNothingMounted`
  says what is true of such a call: it is not mounted and never will be.
* `listing_percent`: "`ref.with_path(entry.path)` names this entry"
  (`volumes/_models.py:27`), but `with_path` takes its argument for a text of a ref and
  unquotes it (`volumes/_ref.py:143`), while an entry's path is as recorded: an
  entry named `%25` becomes `%`. `PlainPathNamesEntry` checks the names without `%`.

Noticed, without a run:

* Pull: `root.mkdir(parents=True)` makes missing parents of the destination, which
  no failure path removes. "dest_dir must not exist or must be empty", but `_check_destination` also accepts what cannot be
  removed: a symlink to an empty directory, an empty mount point, `Path(".")` (whose staging directory
  lies inside it). The `rmdir` fails after the whole transfer, which `ClearDest` allows for
  every destination that is there; the pull then leaves it as it was. An interrupt just
  after the rename makes `pull` raise though the tree is published. `rmdir` may
  remove the user's own empty destination before a rename that fails. A second
  interrupt while the pool closes leaves its threads writing below a directory
  that is being removed (`late` in `VolumePull`, `"abandoned"` in `FetchPool`).
* Credentials: "an in-flight request never presents a credential that lapses mid-request"
  (`volumes/_client.py:71`) holds of no request for certain. `get` takes the credentials once for up to five
  attempts, each of which may take longer than the margin: the timeouts bound the connect and the silence, and
  `request_timeout_sec` may be any positive number. What saves the read is the rejection and the
  refresh after it (`RejectedNotReused`).
* Manifest: an absolute target is normalized as text where a relative one is
  walked through links; with `..` after a link the two can name different places
  in the root (excepted in `PlainWrittenIsReal`). The header's `entry_count` and
  `total_size` are compared with nothing. An `mtime` is checked for its shape only.
* Listing: the docstring of `fetch_manifest` (`volumes/_client.py:199`) narrows "to that path and what
  is under it"; recorded directories above are listed too.

## 7. Abstractions and what is not modelled

* **Data.** Bytes, digests and codecs are not modelled: a read ends with the object
  or an error. Times of files are a flag "stamped since last touched".
* `FetchPool`: `as_completed` may yield any finished plan, of which the code's order
  is a special case. The pool's exit drains the queue; queued tasks still run
  after a failure, as `shutdown(wait=True)` has it.
* `OriginRead`: time is discrete and passes at any point; a backoff is shorter than a unit.
  Bucket, cannery and the Baseten API answer anything, with any lifetime, but the
  bucket does not serve expired credentials and cannery answers for the ref it
  was asked about.
* `VolumePull`: the transfer is one step per entry. `CleanedUp` is checked where no
  directory is read-only and exempts a pull whose cleanup or pool exit an
  interrupt cut short. `rmdir` and the rename may fail at any destination; the staging directory
  is nobody else's and outside the destination, which for `Path(".")` it is not. Stamping
  is one step that closes all read-only directories, after which it may still fail. The destination starts as a file, a directory with or
  without user files, a symlink to one, or nothing.
* `Materialize`: the root is open and belongs to the user, nobody else writes below
  it meanwhile, every entry has a recorded time, versions are such as
  `ContainedPaths` accepts. Modes are open, sealed (no write) and shut (no
  search). The entries of a link group are of one file, with the same bytes and mode, as the group
  stands for one inode of the tree that was pushed.
* `Manifest`: a path or target is the sequence of its components as split at the
  slashes (so that no component holds one), and a component that holds a NUL byte stands for all of them. The
  kernel follows at most `MaxFollowed` links in a lookup; one over more, or through what
  is no directory, is `Nowhere`, and so is one that leaves the root and goes on from there:
  what is outside is unknown, so `RealIsLookup` shows an escape where it ends a walk.
  `PlainWrittenIsReal` leaves out manifests with an absolute target that climbs, where the normalized text and the walk can differ. Of a
  record's fields only type, path and target are kept, of a chunk its offset and
  length; a line that fails validation is refused (`ReadUnusable`).
* `VolumeRef`: a text is a sequence of characters after the scheme; the alphabet is a parameter.
  A character has one lower-case form and, if it must be quoted, one escape of two hex digits
  (`EscapesAssumption`): characters of several bytes in UTF-8, whose escapes are as many, and
  lower-casing outside ASCII are left out. Refs are made by `parse`, `with_path`, `without_path` and
  pinning; one built field by field with the constructor is outside the model.
* `Listing`: the order of entries is left out, `listing` being a set; resolving and
  reading are `OriginRead`'s and `Manifest`'s.
* `HotLoad`: the daemon is not in the repository; it is modelled from the wire
  contract in `hotload/_client.py` and the states of `hotload/_models.py`: it
  journals an attach as FAILED before it binds, keeps the record when
  interrupted or restarted, replays a known key, lets one record hold a target,
  gives retryable errors before acting or between journal and bind, and refuses a
  DELETE only before acting. A daemon that sends its answer byte by byte for ever, which no
  timeout ends, is left out.
* **Not modelled**: `sigv4_headers` and `object_url` (a fixed computation on bytes),
  the pydantic wire models, result records and exceptions beyond the fields above,
  the user agent and package surface. They keep no state and take no decision that depends on one.

## 8. Plan

Done, in this order: `ByteBudget`; `FetchPool` over `Transfer`; `OriginRead`;
`VolumePull` over `AtomicPublish`; `Materialize`; `HotLoad`; `Manifest`; `VolumeRef`
with `Listing`; the proofs of section 5.

What could follow:

1. `Materialize` over exactly the manifests that `Manifest` accepts, in place of the
   listed versions.
2. The parents that `mkdir(parents=True)` makes, as part of `VolumePull`'s
   destination.

Hazards without a property (PROJECT.json): workers abandoned by a second interrupt, a revoked token
kept in the cache, concurrent pulls with overwrite, parents left behind, the range of an `mtime`.
