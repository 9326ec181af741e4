# Yet Another Storage in TLA+

This directory models the storage engine of the repository: how a physical volume (PV) keeps values
in a file, how their bytes are recycled, how keys find their values, what closing and opening a
volume does, what is left after a crash, how volumes are mounted over one another and called by
several threads, and how a file gets its one manager. Everything is translated from the headers
under `include/storage`; `PROJECT.json` names the lines of every definition.

## The system

| Part | State | Operations | Talks to |
|---|---|---|---|
| `Storage` | mount points, an index of their paths, a reader-writer lock | `IStorage` calls, `Mount` | managers, by adjusted key, in order of priority |
| `PVManagerFactory` | one manager per canonical path, a mutex | `Create`, `GetPVManager` | `PVManager`, `FileDevice` |
| `PVManager` | index, offset of the index entry, a mutex | `IStorage` calls, `Create`, `Load`, `close` | the index in memory, entries on the device |
| `InvertedIndexHelper`, `AhoCorasickEngine` | a trie from keys to offsets, a changed flag | `Insert`, `Get`, `Delete`, `HasKey`, `FindMaxSubKey` | - |
| `AhoCorasickSerializationHelper` | none | `Serialize`, `Deserialize` | the trie |
| `PVEntriesManager` | cluster size, priority | create, read, delete, expire an entry; load and save the start entries | the three below |
| `FreelistHelper` | the first free entry of every bin | pop, push, look | - |
| `PVEntriesAllocator` | end of the device, growth | `ExpandPV` | the reader/writer |
| `PVDeviceDataReaderWriter` | the device, the cluster size | headers and chains of chunks | `FileDevice` |
| `EntriesTypeConverter` | none | twelve types of values to fields of headers and back | - |
| `FileDevice` | a stream that may have failed | `Read`, `Write`, `Exists`, `CreateEmpty`, `Canonical` | the file system |
| `Time` | 48 bits in two fields | construct, compare, return | - |

A volume is a file: `PVHeader`, `FreelistHeader`, then entries. An entry begins with a header of one
of three formats (4-byte values, 8-byte values, chunks of strings and blobs); a free entry has its
format's header with a link to the next free entry of the bin. The serialized index is an entry like
any other. Its offset and the heads of the free lists reach the device only when the manager is
destroyed.

What is hard in it:

- The bins hold sizes, headers hold formats, and one bin holds entries of different formats. A long
  legal sequence of calls can make a request meet an entry of another format.
- `overall_size_` of a free complex entry leaves out the bytes in front of `data_`; its bin does
  not.
- Popping an entry empties its bin, and its successor is recovered by a second read.
- Free lists and the index are persistent only between sessions: every crash brings back old ones.
- `close()` is three operations in a row inside a `catch (...)`.
- Reads modify: an expired value is deleted by the `Get` or `HasKey` that finds it.
- Above one volume nothing is atomic: `Storage` visits volumes one after the other under a shared
  lock, and takes every error of one as a reason to ask the next.
- The way to a mount point is an index over characters: a mount at a longer path changes where keys
  that are only on its way lead to.
- The factory looks at the file system, the map of managers and the file system again.

What makes each part correct: entries do not affect one another and read back as they were stored;
free bytes stay allocatable and are free once; the index remembers exactly the keys put and not
deleted, through serialization; every entry belongs to one key or is the index; a volume is a
key-value store to its callers; what was closed survives crashes; mounted volumes are layers, and a
call is served by the best of them; a file has one manager. `hazards` in `PROJECT.json` lists, line
by line, where each can go wrong and which property watches it.

## The modules

Extending modules come below what they extend.

| Module | What it is |
|---|---|
| `PVLayout` | layout of the device: header sizes, types, the record that stands for a header, what a write destroys |
| `FreelistHelper`, `PVEntriesAllocator` | the two classes as operators on bins and on the device |
| `PVEntriesManager` | the state machine of one volume's entries: calls, the chunk loop, save, load, crashes; the properties of the lower half |
| `EntryStore` | the abstract specification of it: offsets name independent entries |
| `PVEntriesInvariant` | the inductive invariants for values of fixed size, without crashes and with them |
| `PVEntriesManagerProofs` | proofs about the lower half |
| `InvertedIndex`, `IndexSerialization` | the trie as a function from paths to leaves, its descriptors and the loop that rebuilds it |
| `IndexSerializationProofs` | what `Insert`, `Delete`, `FindMaxSubKey` do to a trie; that a trie comes back from its descriptors |
| `IndexLifecycle`, `IndexLifecycleProofs` | keys come and go, sessions serialize and rebuild; properties of the index, all of them proved |
| `Time`, `TimeProofs` | dates in two fields; proofs about their order |
| `PVManager` | the state machine of one volume: calls, clock, the steps of `close()`, `Load`, crashes; the properties of the upper half |
| `PVManagerProofs` | proofs about it, among them the refinement to `KeyValueStore` |
| `EntriesTypeConverter`, `EntriesTypeConverterProofs` | values of the twelve types and what the device keeps of them; that numbers come back |
| `StoreCalls` | the calls of `IStorage` as functions: from what a volume stores, the time and a call, to answers and what is stored then |
| `KeyValueStore` | the abstract specification of a volume, made of `StoreCalls` |
| `Storage` | the state machine of mount points, threads, the reader-writer lock and scans of volumes, each of them a store of `StoreCalls` |
| `LayeredStore` | the abstract specification of it: layers of volumes, every call at once |
| `StorageProofs` | proofs about `Storage`, among them the refinement to `LayeredStore` |
| `PVManagerFactory`, `PVManagerFactoryProofs` | threads that ask for managers, the file system, processes; proofs |
| `MC...` | values for the constants |

### Lower half: how the model corresponds to the code

`vol.disk` maps the offset of every header to a record. One record stands for the three formats;
`type` says which fields mean something. `data` says which bytes of which value lie behind the
header. `room` is the only ghost in it: the distance to the next header, which the code stores
nowhere and no action reads to decide anything. `Extent` is the number of bytes a write covers;
`Write` turns every other header whose bytes or data it meets into `Overwritten`. `Junk` is what a
read finds in a size field where no such field was written.

An operation on an entry of fixed size is a single step, since `PVManager` serialises all calls. A
chunked value takes one step for the first entry and one for every turn of the loop in
`writeComplexType`, so the entry for the next chunk is taken while the last one is unfinished.
`CrashSpec` adds the end of the process between calls, after an expansion, after a split, and
between the header and the data of a chunk. The device keeps what was written; the caller returns
with the offsets the saved index names.

Loading constructs the objects with the default cluster size and restores the bins and the end of
the device, as the code does, so that volumes of another cluster size behave as they do there.

### Upper half

`PVManager` is modelled on top of `EntryStore`: the run `EntriesSimple` and the theorem `Implements`
justify that for values of fixed size. For chunked values the code departs from it in the ways
listed under the runs. The one a caller meets after a single call, that a chunked value with a date
cannot be read, is in this model too (`IsReadable`). The index is a chunked entry; damage to it by
the other departures is not in this model. Offsets are names here: bytes, splits and overlaps belong
to the lower half. After a crash, `FreeOffsets` lets a new entry take the place of any entry that is
not known to be saved, which is what `SurvivesCrash` leaves open.

Each call is one step, because it holds `manager_guard_mutex_` throughout. `close()` is up to three:
the old index entry is deleted, the new one is created, the header is written. `Load` needs a header
that leads to an index; a load that throws leaves no manager and changes nothing. Dates keep their
structure at a smaller width: `HighSize` is 2^16 in the code.

A device that fails (a full disk, a failed read) leaves the stream of `FileDevice` failed, since
nothing clears it: the call throws before it changes the index, with the work on its entry done or
not (`DeviceFails`), every later call that needs the device fails, and so does `close()`, which says
nothing of it. `Storage` takes this over as `DeviceOutcomes`; the refinement to `KeyValueStore` is
checked for devices that work. `HasCatalog`, and a `Put` of a key that is there, need the index only
and go on.

Values are those of `EntriesTypeConverter`: a number is its type and its bits, written with whatever
lies behind it in memory, as the code reads a whole field at its address. `ByteSize`, the number of
values of a byte, is 2 in the runs and arbitrary in the proof.

### Storage

A volume is what `ImplementsKeyValueStore` shows it to be: a store of which every call is a step
(`StoreCalls`). A thread is idle, waiting for `mutex_`, scanning a group, or mounting. `Enter` is
the shared lock with `getVolumeGroupRange`; `Visit` is one turn of the loop and, at its end, the
return. The loop is the same in the seven calls, so the call is data. `Mount` is two steps, the lock
with the factory's answer and the rest. Mounters are threads of their own only to keep the bounds
apart. `virtual_storage_index_` is the `InvertedIndex` of the volumes with positions for leaves.
`able` is a history variable, read by `ServedByBest` alone: the positions in the group that could
have served the call at every moment since it began.

`LayeredStore` says the same without threads, index, unsigned comparison or scans: at a path lie
layers, a new one goes under those of its rank, and the first that does not fail serves. It also
says what may surprise: `OnTheWay` is about characters, a failure of a layer is no failure of the
call, and a layer may be looked at after it has dropped an expired value (`Expire`). The refinement
is for one caller. With two, an answer need not be that of any moment: a `Get` that has passed the
upper volume misses a key that is put there, and may miss the same key below, deleted meanwhile.
What holds then is `ServedByBest`.

Every path that is mounted is not empty (`PathsAssumption`): the index ignores the empty one, and
`Mount` there succeeds and is never found.

### PVManagerFactory

Every look at the file system and at `managers_` is a step, and an exception may end each. Of a file
only matters whether it is absent, `"empty"`, `"fresh"` (a header without an index), or a `"volume"`
that `Load` accepts; `Canonical` maps paths to files. At the end of a process its managers are
closed, or some are and some are not (`Crash`), and the next one finds the files. Nothing but the
program touches the files, and no second process runs at the same time.

## The runs

All runs disable the deadlock check: the bounds on the size of the device, the clock, the number of
calls and of crashes, and a volume that refuses to load, really end a behaviour.

| Run | Question | Instance and why it is enough | States |
|---|---|---|---|
| `EntriesSimple` | Do fixed-size entries keep apart, do freed bytes stay usable, is the device an `EntryStore`? | 32-bit, clusters of 60 bytes, two expansions, two entries held: splits into every kind of rest, popping from every bin, a second session that expands | 23,007 |
| `EntriesMixed` | The same safety when a bin has two formats and values are chains | 64-bit, clusters of 256 bytes, three expansions, strings of 247 bytes (one cluster and a short second chunk) and 8-byte values, three entries held | 31,947 |
| `EntriesCrash` | What does a crash leave of saved entries? | two crashes, between any two writes, with sessions before, between and after; strings of 24 bytes and 8-byte values | 297,322 |
| `Index` | Does the index remember, also through serialization? | four keys with nested and shared catalogs, two leaves, every order of children | 392 |
| `Manager` | Does every entry have one owner, and is a volume a key-value store? | a key and a key behind it, a number of two bytes and one of eight, dates that pass and beyond what fits, four ticks | 91,680 |
| `ManagerCrash` | Which keys survive? | two crashes or failures of the device, four offsets so that a freed one need not be reused | 390,710 |
| `Storage` | Do calls that run at the same time find what they should, do they all return? | two callers, a mounter, two volumes of priorities 1 and -1 that share a path, a value that expires | 64,734 |
| `StorageAtomic` | Is it a layered store to one caller? | the same volumes at three paths behind one another, of which the key is on the way to the last only, and a device that fails | 195,288 |
| `Factory` | One manager per file, no volume emptied, all calls return | two threads, four calls, a file with two paths and one with one, an exception, a crash or exit and a second process | 331,386 |

`MaxDeviceEnd`, `MaxHeld`, `MaxClock`, `MaxCrashes`, `MaxCalls`, `MaxMounts`, `MaxFailures` and
`MaxProcesses` are the bounds; they are guards of the model only. Two calls are enough for a call to
meet another one in every step; two mounts for a group of two, or groups at two paths. Four bins
instead of eleven keep both simple bins, one middle bin and the last; `LastSmallBin` is the 5 of
`PopFreeEntryOffset`. `SYMMETRY` permutes the offsets of `PVManager`, which are model values that
the specification only compares for equality.

Properties that cost the most thought:

- `NoDoubleReference`, `FreeListsSeparate`: free lists across bins, links and closed volumes. With
  strings they depend on sizes: `EntriesMixed` has chunks for which the two computations of
  `deleteEntry` give one bin, `SharedEntry` chunks for which they give two.
- `ReadsStayOnDevice`: the last entry of a device is never too small for the largest header, which
  `recoverAndPushNextEntry` reads at entries of any format. It holds because every rest has the
  bytes in front of `data_` on top of its recorded size.
- `FreeStaysReachable`: recovering a successor never replaces a non-empty bin. It holds for
  fixed-size values only: every chunked value leaks the entry popped for a chunk that does not
  exist.
- `SurvivesCrash`, `KeysSurvive`: old free lists are harmless to what was saved and not deleted.
  `KeysSurvive` speaks of crashes outside `close()`: between the deletion of the old index entry and
  the last write of the header, the code gives up everything.
- `EntriesAreOwned`: keys, index entry and device agree through reads that delete.
- `ServedByBest`: what a call promises when nothing is atomic. A volume that could have served it
  all the time is not passed over for a worse one, or for an error; of volumes that change meanwhile
  nothing is said.
- `RangesStay`: the group that a call goes through by iterators, and the group the key leads to,
  stay.
- `GroupsOrdered`: unsigned priorities, and of equal ones the first mounted is asked first.
- `NothingIsTruncated`: `CreateEmpty` truncates what is there; two looks at the file and one lock
  keep it from a volume.

### Fairness

`EveryCallReturns`, of `Storage` and of `Factory`, is under weak fairness of every thread's next
step, once it is in a call: a thread that can run does run some time. Nobody has to begin a call, to
use a manager, to end a process, and devices need not work. `std::shared_mutex` and `std::mutex`
promise no order, so nothing stronger is assumed for locks: a thread gets one because the others,
whose calls are bounded, do not take it for ever. With callers that never stop, a `Mount` may
starve, in the model as in the code. The modules of one volume state no fairness: every step there
is a caller's.

### Runs that end in a violation

Each shows that the program contradicts its own documentation or tests; `findings` has the quotes.

| Run | What happens |
|---|---|
| `SharedEntry` | a freed chunk is linked to the head of one bin and pushed to another: the free lists still lead to an entry after it was given to a small value, and a chunk of the next string is written over that value |
| `ClosedLoads` | a volume closed without a change cannot be loaded |
| `ErrorsReported` | `Storage::Get` and `GetExpiredDate` return an exception as a value: the call reports success and the number that `false` is |

Departures without a run; `hazards` lists each at its line:

- Setting a date assigns `kIsExpired` to the state of a header, so a chunked value loses
  `kComplexBegin` and cannot be read any more (`ExpiredHeader`, `IsReadable`).
- A rest too short for a complex header is handed out for a string, which is written over the entry
  behind (`FreeEntry`). `EntriesMixed` with clusters of 61 bytes, `MaxExtend` 122, `kFreelistLimits`
  12, 16, 60, 61, a 4-byte value and strings of 20 bytes violates `HeldReadBack`.
- `Time::GetTime` shifts the upper field of a date by 48 bits instead of 32; the abstract store has
  this as `ReturnedDate`.
- A chunk's header is written before its data while the comment says after. `deleteEntry` frees two
  chunks of a longer chain. A volume of larger clusters than the default cannot be read after
  loading. `Put` of the empty key succeeds and stores nothing that can be found.
- `Put` of a key that the upper volume has succeeds, below it. `GetExpiredDate` returns the date of
  a value that another one hides. A mount at a longer path hides a shorter one from keys on the way.
  Negative priorities are the highest. All of these are steps of `LayeredStore`.
- A file that was created and whose process ended before the first save stays and cannot be loaded.

## The proofs

### Entries

`PVEntriesManagerProofs` proves, for values of fixed size and the default cluster size
(`FixedSize`), and for all bin limits, cluster sizes, values, dates and numbers of entries that
satisfy the named assumptions:

- `FixedSizeSafe`, `FiledSafe`: `FixedSizeInv` and `FiledInv` are invariants;
- `TypesOK`, `NeverOverwritten`, `AlwaysReadBack`, `ReadsAreOnDevice`: the type invariant,
  `NothingOverwritten`, `HeldReadBack` and `ReadsStayOnDevice` follow;
- `ListsAreSeparate`, `NothingIsFreeTwice`, `DeletedComesBack`: so do the properties that follow the
  free lists, `FreeListsSeparate`, `NoDoubleReference` and `DeletedIsReachable`;
- `FreeStays` (`FreeStaysReachable`): no call loses a free entry, but for the one it hands out;
- `Implements`: the device implements `EntryStore`;
- `CrashSafe`, `SavedSurvives`: with crashes (`CrashSpec`), `CrashInv` is an invariant, and what was
  saved and not deleted since reads back (`SurvivesCrash`).

The argument. The first properties say nothing of free lists, and none is inductive: a free list
that leads to an entry in use violates nothing until it is popped. `Sound(volume, popped)` has what
is missing: rooms do not meet and lie on the device; every header fits into its room; bins and links
lead to free entries; no two of them lead to the same one; and what a request for more than twelve
bytes can meet has sixteen. A call passes through states in which an entry was popped and not yet
written, hence the parameter `popped`. One lemma per operation shows that it takes a sound volume to
a sound one: expansion and popping, recovering the successor, splitting, writing the entry,
deleting. A closed volume is sound if the volume that `LoadStartEntries` would make of it is
(`Current`). `CreateSimple` composes the lemmas; the other actions are immediate. The refinement
uses the invariant for one more fact, that reading an entry depends on its header alone.

`Reachable` follows lists of any length. `ReachableBounds` says what is known of it without
recursion: it has the heads, and every set that has the heads and the links of its members has all
of it. Free entries are such a set. `ReachableIsClosed` adds that what is reached links to what is
reached, because the stages of `Reachable` cannot grow more often than there are headers.

`recoverAndPushNextEntry` makes the successor of a popped entry the head of the bin that the type of
the popped entry suggests, and forgets what was there. That nothing is lost needs what `Sound` does
not say, and `Filed(volume, popped)` does: which entries each bin may hold, and by what a header may
be followed. A list of several entries is of one format, so its next entry comes back to the bin it
was popped from; the second bin may begin with a rest of less than sixteen bytes, which is followed
by nothing; the bins behind it hold single entries within their limits. A rest that is split off
goes to the first bin, to the last one in front of clusters, or to a bin between, which is empty: a
request of sixteen bytes or less that was served behind a bin found that bin empty
(`PopBinIsFirst`). The lemma per operation is `...KeepsLists`. Two assumptions on the limits are
used that the code's table satisfies: the first two are the sizes of the simple headers, and the
last but one holds a complex header.

After a crash nothing of this is left. The free lists are those of the last save and lead to entries
that were used, split or written over since; `Sound` fails, and an entry of the old lists may lie in
the middle of another one. What was saved (`kept`) is out of reach nevertheless. `Keeps(volume,
kept)` says so locally: the bytes that may be written on behalf of a header (`Span`), of a bin
(`BinSize`) or of a link (`LinkSize`) lie clear of every kept entry, and so does what an expansion
appends. `CrashInv` demands it of two volumes, the one the session works on and the one the next
session would load, which differ in bins and end but share the device. An operation that writes a
header writes within what it was allowed to, and a header it destroys is gone; a split lowers the
size of the header it cuts, so that the spans of both parts stay within the old one. The lemma per
operation is `...Keeps`. The kept set only shrinks, except at a save before any crash, where it
becomes what is in use: there `SoundKeeps` derives `Keeps` from `FixedSizeInv`, which is why
`CrashInv` contains it for behaviours without a crash yet. A behaviour ends at the first header that
is written over (`Damaged`). What a session stores after a crash may be handed out again by the old
lists, so a save in it adds nothing to what is kept, and takes nothing from it either.

### The index

`IndexSerializationProofs` proves `TriesComeBack`: for every trie and every order in which the
children of its nodes lie in memory, the loop of `Deserialize` makes of the descriptors of
`Serialize` the trie itself. `PVManager` and `IndexLifecycle` stand on it. The proof numbers the
nodes by the order in which they are written, says what the turns of the loop have built after `n`
descriptors, and that every parent comes before its children. An induction over the turns is done
without an induction theorem: if a turn went wrong there would be a least one (`LeastNumber`), and
the one before it makes it right.

`IndexLifecycleProofs` proves the four properties of `IndexLifecycle` for all keys and leaves:
`KeysAreRemembered` (`RemembersKeys`), `IndexComesBack` (`RoundTrip`), `EveryChangeIsFlagged`
(`ChangesAreFlagged`) and `CatalogsAreKept` (`CatalogsStay`). `KeysAssumption` has keys that are
not empty, as `Insert` ignores the empty one, and leaves that differ from `kNonExistLeaf`.

### A volume

`PVManagerProofs` proves for all keys, values, offsets, dates, crashes and failures:

- `VolumeTypes` (`TypeOK`): in particular, every index on the device can be read;
- `NoEntryIsLost` (`EntriesAreOwned`), without crashes;
- `KeysOutliveCrashes` (`KeysSurvive`), with them;
- `VolumesAreStores` (`ImplementsKeyValueStore`): every step of a volume is one of the abstract
  store, or none; saving, loading and the steps of `close()` are none.

The inductive invariants: `TypeInv`; `OwnedInv`, which says of the index that the session works on
(the one in memory, or the one of the entry that the header names) that its keys have entries of
their own and that an index not marked as changed is the one on the device, without which a `close()`
that writes nothing would lose keys; and `KeptInv`, which says of a kept key that the saved index
leads it to an entry that is saved and was not freed since. That entry is what the free lists of a
crash do not reach (`SurvivesCrash` of the lower half, proved there for values of fixed size). The
refinement needs `ClosedInv` besides: of a closed volume, what `Load` makes of it stores what was
stored.

What the theorems assume is where the code ends to keep its promises, and was found by proofs that
failed:

- `NoBlobIsAnIndex`: no value is byte for byte an index of this volume. The device does not tell
  blobs and indexes apart; a property that counts entries of keys cannot either.
- `<<>> \notin Keys`, for `NoEntryIsLost` and the refinement: `Put` of the empty key leaves an entry
  that nobody owns.
- `Values \subseteq Numbers`, for the refinement: a chunked value cannot be read once it has a date.
- `MaxClock < DateSize`, for the refinement: the present fits in the 48 bits of a date. A date that
  does not fit is one that never passes (`ForeverNeverExpires`).

`EntriesTypeConverterProofs` proves that a number of every type comes back from its field, for every
size of a byte and whatever was behind it (`NumbersComeBack`). `TimeProofs` proves for every width
of the fields that comparing dates is comparing times (`DatesOrderedLikeTimes`) and that a time that
does not fit never expires (`ForeverNeverExpires`). The refinement of a volume uses all three.

### Storage

`StorageProofs` proves, for any number of threads, volumes, paths, calls and mounts:
`CallsKeepTheirRange` (`RangesStay`), `IndexAgreesWithGroups` (`IndexNamesGroups`),
`GroupsStayOrdered` (`GroupsOrdered`), `CallsAreServedByTheBest` (`ServedByBest`) and `StorageTypes`
(`TypeOK`). The inductive invariant has five parts: `LockInv`, who has `mutex_` in which mode
excludes whom; `RequestInv`, what a thread is in a call for; `GroupInv`, index and vector agree and
every group is sorted; `WatchInv`, every volume above `place` has failed the call at some time, so
none of them is in `able`; and `TypeInv`, whose point is that groups are no longer than the mounts
that are done, and these with those under way no more than `MaxMounts`. `WatchInv` needs that the
group does not change during a scan, which is `RangesStay`, which needs `LockInv`. `LowerBoundPlace`
is the lemma about `std::lower_bound`, `InsertedIsOrdered` the one about `insert`.
`ThreadsAssumption` only keeps apart what the model writes as values: callers and mounters, calls
and the absence of one.

`CallsAreServedAtOnce` proves the refinement to `LayeredStore` (`ImplementsLayeredStore`) for one
caller beside any number of mounters, with a clock that goes on and devices that fail during its
calls. `SingleCaller` has the hypotheses: one caller; keys and paths are sequences over the same
characters; what volumes store before, and the dates that are kept, have the types of
`StoreCalls`. A step of a thread is the whole call when it finds no group, serves the call or fails
it at last; an `Expire` when it drops a value whose date has passed; a mount; or a stutter.

What has to be known of a scan is that every layer above the one that serves may fail the call *at
that moment*, although each was looked at earlier. `LayerInv` says so (`Scans`): a volume that the
call has passed may still fail it. That is preserved because the clock only advances, devices only
fail, a passed volume changes only by losing an expired value to a `Get` or a `HasKey`, which then
misses it all the more (`FailureStays`), and there is no other caller. It does not say that the
volume *must* fail: the answer about a catalog above no key is left open (`HasCatalogOutcomes`), in
`LayeredStore` as well. The other parts of `LayerInv`: the nodes of the index are the root and what
is on the way to mounted paths, so that `FindMaxSubKey`, which asks about nodes, agrees with
`OnTheWay`, which asks about paths (`TheWay`); mount points have the priority of their volume;
stores stay stores. For a mount,
`InsertedLayers` shows that `std::lower_bound` in the group, which is searched from its end, inserts
under all layers of the same rank and of higher ones (`LayersAbove` counts them).

### The factory

`PVManagerFactoryProofs` proves for any threads, files, paths, exceptions and processes:
`OneManager` (`OneManagerPerFile`), `AnswersAreValid` (`AnswersStayValid`), `NoVolumeIsTruncated`
(`NothingIsTruncated`) and `FactoryTypes` (`TypeOK`). `FactoryInv` says that who is inside `Create`
has the lock; that every open manager is registered for its file or about to be; that a file with an
open manager is there, without which `Create` could make a second one; and that only an absent file
is emptied. `TypeInv` adds that only registered managers are used, so that one that `Create` destroys
was not.

### Only model-checked

Everything about chunked values in the lower half: the properties of `EntriesMixed`, and
`SurvivesCrash` in the run `EntriesCrash`. Liveness, here `EveryCallReturns`, is outside of the
prover's reach, as is everything that depends on `ENABLED`.

## Not modelled, and the plan

Done: the layout, free lists, allocator, entries, crashes; index, serialization, time, types;
`PVManager` with crashes and failing devices, and its refinement; `Storage` with its refinement; the
factory.

Next:

1. Proofs: the invariants of the lower half for chunks that fill their entries.
2. A volume of another cluster size in the passing runs.
3. An exception in `Mount` between the index and the vector; what a stream still buffers when the
   program stops.

Left out for good: `TestDevice` (tests), `Version` and the byte helpers (no state), the vendored
`expected` but for the constructor that `Storage` runs into. Damaged files are not explored: every
state of a device here was written by the program. Two storages that share a volume are not
composed: the factory gives them one manager, whose calls are steps, so they are callers of one
volume.
