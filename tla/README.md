# TLA+ models of micro-config-drive (ucd)

`ucd` configures a cloud instance at boot: it finds a config drive (or files named on
its command line), takes metadata and user data from it, and applies them. Its companion
`ucd-data-fetch` takes the same data from an HTTP metadata service and hands them to
`ucd`. Both are small C programs whose difficult parts are not their algorithms but their
order: handlers on pool threads beside the main thread, files that decide over later
boots and are written in several steps, retries, and clean-up paths.

This directory holds TLA+ modules that model those parts, TLC configurations that check
them on small instances, and TLAPS proofs about the thread pool, the main program, the
identity of boots and instances, the authorized keys and the metadata they come from, the
fetch, and the tree, the handlers and the document of a cloud-config. Paths below are relative to the root of the
repository's sources (`src/`).

## 1. The system

| component | source | state | operations |
|---|---|---|---|
| async tasks | `src/async_task.c` | the GLib thread pool, the main loop, the counter `tasks`, two locks | `async_task_init`, `_run`, `_exec`, `_finish`, the callback of a child's end |
| boot and instance identity | `src/lib.c` 533-631, `src/datasources/openstack.c`, `src/main.c` | `instance-id`, `first-boot-id`, `openstack_metadata_id`, `openstack_user_data_id`; the caches of a process | `save_instance_id`, `is_first_boot`, `get_boot_id`, the two records of what was processed |
| main program and OpenStack datasource | `src/main.c`, `src/datasources/openstack.c` | the mount, its directory, the copy of the user data, the trees of metadata, `data_source` | the options of `ucd`, `openstack_init/start/process_*/finish`, the metadata handlers |
| authorized keys and metadata handlers | `src/lib.c` `write_ssh_keys`, `src/datasources/openstack.c` 470-588, `src/json.c` | one user's `authorized_keys`, the tree of the metadata | called by the handlers of `public_keys` and `keys` (pool threads) and two cloud-config modules (main thread); the `files` handler |
| fetching over HTTP | `src/ucd-data-fetch.c`, `data/ucd@.service.in` | the output file, the connection, the lengths still to read | resolve, connect, three requests, copying of lines, `execl` of `ucd -u` |
| cloud-config interpreter | `src/interpreters/cloud_config.c` | a tree of GLib nodes, `cloud_config_global_data` | parse, simplify, process, find, bool, int |
| cloud-config modules | `src/ccmodules/*.c` | `users_current_username`, `do_network_wait` | one handler for each top-level block |
| disk repair | `src/disk.c` | the partition table, a flag | grow the root partition (or the last one) and its file system |
| loop device and mount | `src/lib.c` 385-531 | loop devices and their files, mount directory | `mount_filesystem`, `umount_filesystem` |
| dispatch, helpers | `src/userdata.c`, `src/lib.c`, `src/debug.c` | none | |
| `src/ucd-aws.c` | not built | | |

How they interact. `main()` calls the datasource, which pushes one job for each metadata
key to the thread pool (`async_task_run`) and goes on; user data is interpreted on the main
thread at the same time, so two threads share `lib.c`: `is_first_boot` (locked) and
`write_ssh_keys` (not locked), the latter called by up to three threads for the same
file. The disk is repaired by one more job in the pool. A job may start child processes (`async_task_exec`), whose
end GLib reports from the main loop inside `async_task_finish`, the join at the end of
`main()`. Only after the join may the datasource be finished: the jobs hold pointers into
its tree and read its mount. The id files connect one run of `ucd` with the next: whoever
asks `is_first_boot` does so against what earlier runs, complete or killed, have left.
`ucd-data-fetch` and `ucd` share one file, whose existence keeps the systemd unit from
starting the fetch again.

What is hard about it, and what makes each part correct:

* *async tasks*: a counter loaded and stored by several threads and decremented without
  its lock; a join that holds the lock while the main loop runs. Correct when no update is
  lost, the join waits for everything accepted and started, and it returns.
* *identity*: files emptied by `open(O_TRUNC)` before they are filled, kills between any
  two steps, cloned disks, a boot id cut to 31 characters from its second use on. Correct
  when an instance has exactly one first boot and nothing recorded is done again.
* *main and datasource*: six early exits of `openstack_start`, options that use the drive
  twice. Correct when no handler outlives its data and nothing stays behind.
* *mount and disk*: exits that leave a loop device attached or half made, a device cleared
  while it is mounted, a partition grown by one of two branches that a warning of libparted
  chooses. Correct when nobody else's loop device is touched, every partition stays where it
  was and the file system that is grown is the one whose partition has grown.
* *authorized keys*: check, read and write of one file by three threads without a lock,
  fed by handlers that read objects out of a flat row of nodes. Correct when every key given
  ends up on a line of its own and nothing else is authorized or copied.
* *fetch*: eighteen failure exits behind the `open()` of the output file, four of which
  remove it, each by itself; an unsigned length that can wrap; lines longer than the buffer.
  Correct when `ucd` is executed on exactly what the server sent, once, no part of a text is
  left behind, and a failure is made good in the next boot.
* *cloud-config*: a parser with a state word of three bits and a pass that moves nodes
  while the tree is walked. Correct when each handler sees every item that was written.

`PROJECT.json` lists these hazards one by one, each at its line with the properties that
cover it or the reason why none does.

## 2. Modules

| module | models | composed with |
|---|---|---|
| `AsyncJoin` | what the pool promises: work is accepted before the join, the join returns when none is left | abstract specification |
| `AsyncTask` | `src/async_task.c`, every function | implements `AsyncJoin` (`ImplementsJoin`) |
| `DriveMount` | `mount_filesystem`, `umount_filesystem` | part of `Ucd` |
| `DiskRepair` | `src/disk.c` `disk_fix` | part of `Ucd`, as a job in its pool |
| `Ucd` | `main()` and the resources of the datasource | extends `DriveMount` and `DiskRepair`, uses `AsyncJoin` for the pool |
| `BootIdentity` | the id files and everybody who reads and writes them | |
| `MetadataTree` | `src/json.c` and what the metadata handlers read out of its trees | |
| `SshKeys` | `write_ssh_keys` on the threads that call it | |
| `AuthorizedKeys` | what the metadata handlers give to `write_ssh_keys` and to `copy_file` | extends `MetadataTree` and `SshKeys` |
| `DataFetch` | `ucd-data-fetch.c` and the condition of its unit | |
| `CloudConfigTree` | parsing and simplification of `cloud_config.c` | |
| `YamlDocument` | documents and the events libyaml makes of them | gives `CloudConfigTree` its `EventsOf` in the runs |
| `CloudConfig` | `cloud_config_process` and the twelve modules of `src/ccmodules` | extends `CloudConfigTree` |
| `CloudConfigDocument` | properties that compare what is done with the document as its writer reads it | extends `CloudConfig` and `YamlDocument` |
| `AsyncTaskProofs`, `BootIdentityProofs`, `DataFetchProofs`, `CloudConfigTreeProofs` | theorems about the modules they are named after | |
| `UcdProofs` | theorems about `Ucd`, `DriveMount` and `DiskRepair` | |
| `AuthorizedKeysProofs` | theorems about `SshKeys`, `MetadataTree` and `AuthorizedKeys` | |
| `CloudConfigProofs` | theorems about `CloudConfig` and `CloudConfigDocument` | extends `CloudConfigTreeProofs` |
| `SequenceLemmas` | what several of these need: least numbers, induction over a set, sequences made flat, functions defined by recursion | |

`MC*.tla` and `MC*.cfg` give the constants values. Actions carry the names of the C
functions they model; where a function is cut into several atomic steps, the comment of an
action names the lines. An operator marked "Fault" is not part of the specification: it is
the same action with a plausible bug, and exists to show that a property would notice.

**AsyncTask.** `taskPC[t]` is where a pool thread is in its function or in
`async_task_exec`, `mainPC` where the main thread is, `child[c]` the life of a child. The
increment and the decrement are a load and a store each. `G_LOCK(tasks)` is `tasksLock`;
`G_LOCK(thread_pool)` is taken by the main thread only and has no variable. GLib's part (a
pool of `get_nprocs()` threads, a child watch that is called once from the main loop and
not before it is installed, `g_main_loop_quit`) is modelled from how the code uses it.

**BootIdentity.** The files are `file`; a value is absent, empty, or an id. Boot ids are
records of the boot and of whether they have been cut, since `get_boot_id` returns the
whole line the first time and `BOOT_ID_SIZE - 1` characters from then on. `call[a]` is the
position of thread `a` inside `save_instance_id` or `is_first_boot`. `Crash` loses the
process and keeps the files; `Reboot` may turn the machine into a new instance. Every
`write_file` may fail at `open`, at `write` or after it, and the datasource may fail to
start (`start_datasource_fails`), in which case `main()` goes on without asking for the first
boot and `process_metadata` may yet read the metadata, the uuid among them (stage `retry`).
`faults` is the sequence of kills and failures so far; it bounds itself and the properties
count in it. The other history variables are read by no guard.

**Ucd.** `stage` is where `main()` is. Each resource is a Boolean or a set, each exit of
`openstack_start` a disjunct that leaves behind what the code leaves behind. `failures`
records whether starting or unmounting failed, `found` the loop devices there were before;
no guard reads either. The pool is `AsyncJoin`, which `AsyncTask` is proved to implement, so
its interleavings need not be repeated here.

**DriveMount.** `devFile` and `attached` are the two views that the code and the kernel have
of loop devices: the code takes the first number without a device file, the kernel refuses
one that is attached. `umount_filesystem` clears the loop device while it is mounted, which
the kernel puts off until the unmount (`cleared`), and gives up when clearing fails.

**DiskRepair.** `table` maps partition numbers to extents of sectors. `disk_fix` is one step,
since nobody else writes the table; its disjuncts are its two branches and the exits before
any change. What libparted finds as free space and what it refuses are `FreeBehind` and
`MayBecome`. The commands run through `async_task_exec`, so in `Ucd` the job of `disk_fix`
starts a second one, for which the join waits as well.

**SshKeys.** `calls[t]` are the texts that thread `t` hands to `write_ssh_keys`, one after the
other. The function is cut at its system calls (stat, open, write; stat and read, append) and,
between the read and the append, at each line it compares. A text is a sequence of keys and
newlines, a key being one element. What the threads may be given and what the file may be
before are constants (`Demands`, `Starts`), so that the theorems hold for any.

**MetadataTree, AuthorizedKeys.** `json_parse` is a recursive function that gives the nodes
appended for a value: members of objects, also of all the objects of a list, become siblings, and an empty
node precedes those of each object. Its domain is a set of values (`Json`) that are nested in
finitely many steps (`Depth`), so that lemmas can be proved about it; a run takes all the
values its documents are built of. The handlers are functions of these nodes: what
`write_ssh_keys` and `copy_file` are called with. `Init` of `AuthorizedKeys` is the moment at
which they have been given to the pool.

**DataFetch.** `stage` and `request` are where `main()` is; the three connection loops and
the three requests are the same actions with another `request`. What a server will ever
send is chosen when the request is sent and read by `fgets` in lines of at most `LineMax`.
`cl` starts with any value, since the C variable is not initialized. The four places where
`main()` closes and unlinks the output file are four definitions (`write_header_fails`,
`keys_fail`, `hostname_fails`, `userdata_fails`), since the code repeats the clean-up in each;
the other failures are `FAIL`, which leaves the file as it is.

**CloudConfigTree.** `EventsOf` gives the events libyaml returns for a document. `frames` is
the stack of calls of `cloud_config_parse`, each with its `node`, `last_leaf` and `state`; each
event type is an action, and `parse_error` may come before any event. `tree` numbers the nodes
in the order of their creation; a node that is moved is a copy in the code and keeps its number
here. `walk` is the stack of calls of `g_node_traverse`, each with the node it is at and the
child it will go to next, which GLib looks up before it visits the one before. One action is one
step down (`g_node_traverse`), one child that `cloud_config_simplify` moves (`simplify_child`),
or the end of its call for a node, which removes the node when nothing is left below it
(`simplify_node`). What the file is named (`FileName`) is a constant.

**YamlDocument, CloudConfigDocument.** `Yaml` is the set of values there are; `Level` says how
deep they are nested. `ValueEvents` gives the events of a value, `Texts` the scalars in it; both
are recursive functions on `Yaml`, so that lemmas can be proved about them, and a run takes all
the values its documents are built of. `StreamAssumption` says that a document is one value or
none, and that its events are those of the value.

**CloudConfig.** Each handler is an operator from the node it is given and the state that
modules share (`users_current_username`, whether the global `first_user` points to it,
`do_network_wait`) to the new state and the effects: the commands run and the files
written, in order. Loops over children are `ForEach`, traversals to the leaves the recursive
function `Leaves`. The data of a node made for a list are NULL, and what the code does when
it reads them is modelled by what the C library does: a word that `cloud_config_bool` compares
with `g_ascii_strncasecmp` counts as true, a name is printed as `(null)`, and `write_files`
does not return from a path, a content or permissions given as a list (`crashed`). `cloud_config_process` handles one block in a step. The uninitialized
variable of `users.c` is chosen freely for each user (`true_at` are the users whose variable
reads as true), the answer of `is_first_boot` for each block.

## 3. Runs

| run | shows | bounds |
|---|---|---|
| `async_task` | exact counter, no thread beside the callback, complete join, the join returns, refinement of `AsyncJoin` | 3 functions, 3 commands, 2 threads: a function has to wait for a thread, and one thread may start several commands |
| `boot_identity` | one first boot per instance, one answer per boot, identity saved before it is asked for, set-up and records truthful unless killed, user data once, no reprocessing | 3 boots, 2 instances, 2 runs in a boot, 2 faults: a fault during the recovery from a fault, in the same boot or a later one, before or after the disk becomes another instance's |
| `ucd` | data of handlers outlive them and come from the right source, nothing left behind, others' loop devices kept, the account exists before its handlers, partitions kept and the right file system grown | every combination of the options that may be combined; two metadata keys, one that only reads the tree and one that reads the drive; two loop devices, each with or without a file, attached or not; 27 disks (root in front of free space, in front of a partition, last, on none; table as long as the disk, a little shorter, much shorter) |
| `authorized_keys` | no key lost from a file that existed, none removed, none doubled by one thread, metadata carried out as the document says | three threads, five documents (one after `test-metadata-openstack.json`, members in another order and a key without newline, empty blocks, none, a file of three members), a key named three times, five starting files (none, empty, one or two keys, a last line without its end) |
| `data_fetch` | complete hand-over, once, no part of a text left by a run that fails, termination | two boots, one kill, nine kinds of answer (cut, reset, without length, error, long line), three shapes of provider; `LineMax` 3 and `SizeMax` 7 make both the split line and the wrap-around happen |
| `cloud_config` | no scalar lost, the shape handlers rely on, blocks that are the keys of the document, every item handled by itself, keys for the first user that is defined before them (else for the default user), network waited for as the document and as the tree tell | every document of one block out of 27, some of which nobody should write (lists where a word or a path is expected, a list of strings for commands or users, a word that is neither true nor false), and of any of these followed by one that depends on earlier ones, whole or broken off before any event |
| `boot_lost_setup`, `boot_metadata_file`, `ucd_config_drive`, `keys_lost`, `data_fetch_stuck`, `cloud_config_service` | the six findings of section 6 | the smallest that show it |

Bounds on counters appear in guards and are constants of the module: `MaxBoot`,
`MaxInstance`, `MaxRuns`, `MaxFaults`, `MaxCrashes`, and the retry limits `ResolveTries`,
`FirstTries`, `LaterTries` (300 s and 30 tries and the like in the code, where only "one more"
and "the last one" differ). The theorems of section 4 hold for any values.

**Fairness.** Only two runs check liveness. `AsyncTask` assumes that every thread is
scheduled (weak fairness of the main thread and of each pool thread) and that every command
ends by itself (weak fairness of `child_exit`); the code sets no time limit on a command,
so without the latter the join may rightly wait for ever. `DataFetch` assumes that the
process is scheduled and that a server closes a connection in the end (`server_close`): `fgets`
on a keep-alive connection has no time limit and the unit has `TimeoutSec=0`. No other
specification has fairness; their properties are safety properties.

**Conditions in properties.** Some properties hold under a condition that the code needs,
and the name or the comment says so:

* `...InService`: the command line of the systemd unit, or one without
  `--openstack-config-drive` (finding 3).
* `...UnlessKilled`: ucd was never killed. A kill between the record of the metadata and the
  join leaves a record of work that was never done.
* `FirstBootOncePerInstance` and `UserDataOnce` count: each id or record that could not be
  written, and for user data each kill, allows one more.
* `SameBootSameAnswer`, `InstanceIdFirstInService`: the datasource has started and the ids
  could be written. When `openstack_start` fails, `main()` goes on without having saved the
  instance id or asked for the first boot.
* `NoReprocessing` leaves out metadata on machines where `openstack_start` has failed: that
  run does not call `is_first_boot`, so that it compares and records the whole boot id, while
  other runs use its first 31 characters and find a difference.
* `ReleasedUnlessFailed`: neither starting nor unmounting failed. `NothingLeftBehind` has no
  such condition, but is about command lines without `--openstack-config-drive` and leaves
  out loop devices, which only that option uses.
* `FilesFromTheirSource`: the command line names one source of metadata. With two,
  `openstack_init` resets `data_source` while handlers of the first are running.
* `PartitionsKept` speaks of lengths only for disks grown by a megabyte or not at all: on a
  disk that is longer than its table by less, the last partition is shortened to a megabyte
  before the end.
* `MetadataCarriedOut`: metadata as OpenStack writes them (`AsOpenStackWrites`). A file with a
  member between `content_path` and `path` is not copied; the run has one.
* `KeysDeliveredToFile`, `KeysKept`, `MetadataCarriedOut`: an `authorized_keys` that existed,
  its last line ended (`Existed`); for the first one also a new file that the main thread alone
  writes (finding 4). The code appends without looking at how the file ends. OpenStack names the same keys in
  `public_keys` and `keys`, so two pool threads suffice for the race.
* `UcdGetsEverything`, `OnlyWholeSectionsStay`: the server announces the length of each body,
  its lines fit the buffer, and it arrives as a whole or is cut by a reset
  (`NoneCutUnnoticed`); a connection that is closed within a body is taken for its end.
  `OnlyWholeSectionsStay` is about runs that nobody kills: a kill leaves the file as it is.
  What it allows, whole sections without the others, is the subject of finding 5.
* `KeysGoToFirstUser` states what the source means to do (`ssh_authorized_keys.c:60` asks for
  the global `first_user`, which `users.c:85` sets), and not what the manual says:
  `docs/cloud-config.5.md:156` has each key "added to the default user account's SSH
  configuration", the account that `--first-boot-setup` creates (`docs/ucd.1.md:116`). The two
  agree when no block of users comes before the keys (theorem `KeysGoToDefault`); see the end
  of section 6.
* `EveryItemHandled`, `KeysGoToFirstUser`, `NetworkAsTold`: documents written like those in
  `examples/` (`AsInExamples`): users have a name that is a text, packages and units are texts or
  lists of them, a file has its path and content. Two forms nobody would expect to matter are left
  out because the code does not carry them out: an option of a user with an empty list (`groups: []`)
  leaves a key without a child, which `users.c` takes for a name of the user; and of a mapping
  inside the list of packages or units the values are taken for items. `BlocksAsWritten`: a mapping of scalars and lists (`Listed`); a mapping that is
  the value of a key goes beside it (finding 6). `ScalarsKept`, `SimplifiedTree` and `WaitsAsTold` are about any document; the
  last one reads off the tree what the blocks say of the wait.

Four things the runs show that are worth knowing. Lists of mappings and lists of lists of a
cloud-config are handled in the reverse of their order, because `cloud_config_simplify` starts
from the last child; and `first_user`, an alias of the buffer every user overwrites, names the
first user of the list only for that reason: correcting one without the other breaks
`KeysGoToFirstUser`. And `openstack_metadata_keys` does find every key of a list, although its
comment doubts it, since `json_parse` flattens lists (`MetadataCarriedOut`). And a word that `cloud_config_bool`
does not know is announced as "interpreted as false" (`cloud_config.c:117`) but changes nothing:
after `wait_for_network: maybe` the wait is as it was before, so that packages still wait
(`NetworkAsTold` and `WaitsAsTold` count only words that are true or false).

## 4. Proofs

All theorems assume only the named `ASSUME`s of their modules: distinct model values, finite
sets where a counter must hold their size, disks whose partitions lie apart and inside, limits
that are numbers, values that are nested in finitely many steps.

**The thread pool** (`AsyncTaskProofs`, for any finite set of functions and commands, any
number of threads and any `GuintMax` above the number of commands): `InductiveInvariant`,
`TypeCorrect`, `CounterIsExact` (so the `guint` counter never wraps, which its type would admit), `CallbackIsAlone`,
`JoinIsComplete`, and `AsyncTaskImplementsJoin`, the refinement that `Ucd` relies on.
`async_task_callback` loads and stores the counter without `G_LOCK(tasks)`, and must, since the
main thread holds that lock while it runs the main loop. What makes this safe is not the lock
but the order in `async_task_finish`: `g_thread_pool_free(..., false, true)` has waited for
every function before the loop is entered (`Drained`), so nobody is left who could increment.
`JoinComplete` alone is not inductive; `IInv` adds that a command has one starter at most and
is not reported before it has been counted (`OneStarter`), that the lock is held between a
load and its store and the loaded value is current (`LockGuardsCounter`), `Drained`, that the
counter is exact, and that the loop quits only when nothing is pending (`QuitWhenReported`).

**The main program** (`UcdProofs`, for any set of command lines, any loop devices and any
disks): all nine invariants of the run `ucd`. They follow from six invariants:

* `RepairedOnce`: the table is the one that was found until the job of `disk_fix` has run,
  which it does once; then `PartitionsKept` and `FileSystemFollows` hold by the lemmas about
  `disk_fix`, which leaves a table of which one extent has changed.
* `OwnLoop`: the loop device that ucd remembers, or that goes with its mount, is none of those
  it found. Hence `OthersLoopsKept`.
* `SetUpFirst`: metadata handlers of the datasource have been pushed only in stages after the
  setup. Hence `UserBeforeHandlers`.
* `Phases`: what each stage of `main()` implies about the source, the handler and the join.
* `HandlersHold`: the tree of a handler is allocated and the drive mounted as long as the
  handler is active and main() has not passed the join. Hence `HandlersHaveTheirDataInService`.
* `Releasable`: whatever of the drive is in use is what `openstack_finish` will release.
  Hence `NothingLeftBehind` and `ReleasedUnlessFailed`. `Provenance`, which ties the tree of a
  handler to `data_source`, gives `FilesFromTheirSource`.

**Boot and instance identity** (`BootIdentityProofs`, for any number of boots, instances, runs
and faults): `TypeCorrect`, `InstanceIdIsFirst`, `RecordIsTruthful`, `OneFirstBoot`. The last
is the most important one, and its invariant `Paid` an argument about debts: whatever could
lead to another first boot of the present instance (its id not saved, no first-boot-id, one of
this boot that has not been acted on, a record about to be removed, an answer "yes" in the
cache: `Recur`) is possible only if there has been no first boot beyond the ids lost so far;
and where main() is about to answer and will find itself in the same situation again, one more
id has been lost than that. It rests on `OneSaver` (one thread at most is inside
`save_instance_id`, and nobody is meanwhile beside main() when it asks), `HasReason` (an id is
only written over another one, a record only removed for a saved id, a record only written by
the holder of the lock), `IdsOfTheirBoot` (ids in memory are of this boot, in files not of a
later one) and `Off` (nothing of a process outlives it). `SavedFirst` and `RecordedIsInHand`
serve the other two theorems.

Four more theorems are about what a run finds of the runs before it.

* `NothingReprocessed` and the others rest on `CutForm`: whoever has asked `is_first_boot` has
  the shortened boot id in its cache, and main() asks before it records anything, unless the
  datasource did not start. Hence the two records are always compared in the form in which they
  were written.
* `UserDataProcessedOnce` is the argument about debts once more: each processing is owed to a
  first boot, a kill or a record that could not be written, and one that is due has not been
  counted yet (`Owed`, `Due`).
* `OneAnswer`: once an answer is given, the cache gives it too or the file does, and nobody is
  about to change the file (`Decided`: `Agreed`, `Cached`).
* `InstancesAreSetUp`: as long as nobody is killed, a run for an instance without a first boot
  is on its way to one (`SetUpAhead`), from before it saves the instance id to its answer.

**Authorized keys** (`AuthorizedKeysProofs`, for any keys, any texts in any number of calls, any
file before): `TypeCorrect`, `EveryKeyDelivered`, `AuthorizedStays`, `NoKeyTwice`, `ExactAlways`. The interleaving
that matters is that the file grows between a thread's read and its append. `Compared` says
what a thread knows meanwhile: what it will append are whole lines, and every key that it has
compared is either among these or was in the file when it read it, and still is. `Intact` says
that the file consists of whole lines and holds, each on a line, all keys of completed calls;
appending whole lines keeps it so whatever the others have appended before. `Once` adds for a
single thread that the keys it is about to append are neither in the file nor twice among them.
Assumed of the texts (`DemandsAssumption`): no line holds more than one key, which is what a
line is here, and texts of the main thread end with a newline, as both modules that call
`write_ssh_keys` append `"%s\n"` for each key (`src/ccmodules/users.c`,
`src/ccmodules/ssh_authorized_keys.c`). Texts of metadata may lack theirs.
`ExactAlways` is the other half: nothing is authorized but what was and what was given. Its
invariant `Meant` says so of the file, and that the keys it began with are still in it.

**Metadata** (`AuthorizedKeysProofs`, for any documents, of any depth): `MetadataAsWritten`, that
the keys authorized in the end are those that were, those of the metadata and those of the user
data, and the files copied those that the metadata name. `CompositionKeepsKeys` carries the
theorems about `SshKeys` over, since every step of the composition is one of `SshKeys` or leaves
its variables alone. What remains is what the handlers read out of a document. `ParsedIs` says
that `json_parse` satisfies its recursive definition for every value, which needs an induction
over the depth of values (`ParsesExists`, `ParsesAgree`). From it follow the nodes of an object
(`ObjectParsed`: an empty one, then one for each member) and of a list of objects
(`ObjectsParsed`); that a handler is given the nodes of the member of its name on the first
level (`GivenIs`); that the texts it picks out of them are those of the member
(`PublicKeysTexts`, `KeysTexts`); and, again by induction, that `openstack_metadata_files` has
after the nodes of n files made n copies and waits for the next one (`FilesCopied`). Assumed are
`JsonAssumption` (members of an object differ in name, no text is NULL, nesting is finite) and
`DocumentsAssumption` (the root is an object).

**The fetch** (`DataFetchProofs`, for any answers, any buffer length and any `SIZE_MAX`):
`TypeCorrect`, with an invariant about what is left to read (`Progress`), since the type of a
file of lines is not inductive without it; `OnceOnly`, from `HandedOver` (once ucd was executed,
the program does not run and the file is the one it was executed on); `EverythingHandedOver`,
that the file is exactly what the server sent; and `WholeSectionsStay`, that a run that fails
leaves no part of a text. The last two follow from `FetchInvariant`. Its part `Whole` says that
before each request the file holds the sections of the requests that are done (`Before`), and
that inside `write_lines` a body consists of whole lines that have been copied and a rest in the
stream; `left` counts that rest and what will never arrive (`Lacking`), so that `write_lines`
does not return before a body is complete, and a body that lacks something ends in a reset
(`ResetSeen`), which is not taken for an end. `InOrder` says which requests have been answered
when. When a run ends, it has either not opened the file, and then there is none since the
unit's condition held (`NotOpenedYet`), or handed it to ucd, or stopped between two sections, or
inside one, where each of the three bodies and the header has its own clean-up (`RunEnds`).
That a text taken line by line is the text (`Rendered`) is an induction over its length, for
which the lemmas about `FlattenSeq` are proved first.

**The tree of a cloud-config** (`CloudConfigTreeProofs`, for any documents, of any depth, broken
off anywhere): `TreeInvariantHolds`, `TypeCorrect` (of `TreeTypeOK`, the part of `TypeOK` that is
about parsing and simplification), `EveryScalarKept`, `TreeSimplified`. `TreeInvariant` has three
parts.

* `Built`: nodes form a forest in which children are younger than their parents (`Forest`), all
  that have data or children hang in it (`Attached`), and their numbers are those of the events
  they were made for (`Numbered`). `EveryScalarKept` follows: whoever hangs below an older node,
  and that one too, is below the root.
* `Calls`: there are as many calls of `cloud_config_parse` as starts without an end, and one, so
  that an end always finds a caller; the caller's `last_leaf` is the node of the call it has
  made, so that the step back to its parent is defined.
* `Walks`: there is a set of settled nodes (`Good`: their children are settled, and one without
  data has children, all with data) such that each call of `g_node_traverse` has taken a first
  part of its node's children, all of them settled but the one it is in, and goes on with the
  one behind (`Passed`). A child that is moved has been passed before, so it is settled already;
  it comes to stand behind the siblings of the node it leaves, where the walk will come again or
  never. When the walk ends the root is settled, and with it all that hangs (`Settled`, by the
  least counterexample). Hence `TreeSimplified`: one walk is enough, although nodes are moved
  under it.

`EventsAssumption` is what libyaml promises of any document: the end of the stream comes last
and each other end has its start before it. `NULL` is no text (`DataAssumption`).

**The handlers of a cloud-config** (`CloudConfigProofs`, for any documents, of any depth, broken
off anywhere): `TreeLeftAlone`, `InvariantHolds`, `EffectsTyped`, `WaitsFollowBlocks`,
`KeysGoToNamed`.

* `TreeLeftAlone`: a step of the whole interpreter is one of `CloudConfigTree` or leaves the tree
  alone. So the four theorems about the tree hold while blocks are handled, and the handlers
  work on a tree that is tidy (`TidyAt`): whatever hangs below a node without data has data.
* `EffectsTyped`: type correctness, which says that commands, paths and contents are texts.
  Handlers take the data of a node, of its first child, of its leaves or of its grandchildren,
  each without looking; that the nodes they reach exist and have data follows from the tidy tree
  (`ReadNode`, `FoundNode`, `ItemsAre`, `LeavesHaveData`), with three exceptions that a document
  can bring about and the type admits: a name of a user given as a list is printed as `(null)`,
  a field of a file given as a list stops `write_files` (`crashed`), and a list where a word is
  expected counts as true.
* `WaitsFollowBlocks` (property `WaitsAsTold`): before packages are installed or upgraded there is
  a wait for the network, unless that is off; there is none while it is off; and no second one
  unless a later block asks for it. Its invariant `WaitOf` says what `do_network_wait`
  means in terms of the blocks handled so far: 0 if the last of them that told anything has
  switched it off, and only then; 2 only after a wait; and at -1 there was none. One lemma for
  each handler says that it leaves the wait alone (`...Quiet`), or waits as it should
  (`UpgradeLoud`, `PackagesLoud`).
* `KeysGoToNamed`: `ssh_authorized_keys` go to the default user or to one whom a block of users
  before them names, although `first_user` points to a buffer that every user and every option of
  a user may overwrite. The invariant `KeysOf` says what can be in the buffer between blocks:
  nothing, or a name of such a block (`Buffered`). That it is the first of them, is
  `KeysGoToFirstUser`.
* `Invariant` is the invariant of the tree, `WaitOf` and `KeysOf` together. TLC has checked it as
  well.

Assumed is `TextsAssumption`: no word is true and false.

**From the document to its blocks** (`CloudConfigTreeProofs`, `CloudConfigProofs`, for any
document that is a mapping of scalars and lists, of any length and depth): `MappedAlways`,
`BlocksWritten`, `NetworkFollows`, `KeysGoToDefault`. They join the two ends above, the events a document consists of
and the blocks the handlers are called with.

* `Layout` says of a sequence of events that it is such a mapping, by the places of its keys:
  between the place of a key and that of the next one there is one scalar, or a sequence that
  is open until then. `LaidOut` proves it of the events of every such document, by induction over
  the nesting of values: the events of a value open and close as many sequences and mappings
  (`Balanced`), and never more are closed than have been opened.
* `Mapped` follows the parser from key to key. While the key's value is read, the lowest two calls
  of `cloud_config_parse` stay as they are, whatever is parsed above them; when it has been read
  the second is back where it expects a key (the bit `VAL` is off). So the children of the mapping's
  node are the nodes of the keys. During simplification these nodes have data, so nothing moves
  them, and nothing comes to stand beside them: what moves up stops below the first node that has
  data.
* `BlocksWritten` (property `BlocksAsWritten`): the blocks are the keys, the data of each is its
  text, and the value that is a scalar is its only child.
* `NetworkFollows` (property `NetworkAsTold`): what the blocks say of the wait (`Off`) is therefore
  what the document says (`Disabled`), and `WaitsFollowBlocks` can be read in its words.
* `KeysGoToDefault`: keys are for the default user, and nobody else, if no block of users is written
  before them. It is `KeysGoToNamed` in the words of the document, and part of what
  `KeysGoToFirstUser` says, for blocks in any form.

Assumed are `YamlAssumption` (values are nested in finitely many steps, keys are texts) and
`StreamAssumption`. A document that breaks off is left out by the properties.

Three invariants are proved and left out of the runs, which check what they imply: `IInv` of the
thread pool, `TypeOK` of `SshKeys`, and `Mapped`.

Induction over data is done by the least number of a set (`LeastNumber` of `SequenceLemmas`, from
`NatLessThanWellFounded` and `WFMin` of the library), since theorems that take an operator as a
parameter cannot be used. That a function defined by recursion exists is proved for numbers
(`Iterated`), for nodes whose children are younger (`Downwards`) and for values that are nested in
finitely many steps (`Upwards`); what has to be known of the
definition is there a property of a function (`StepsIn`, `MakesDown`, `MakesUp`), not an operator.

Model-checked only:

* liveness (`JoinReturns`, `FetchEnds`), which the prover does not handle;
* `EveryItemHandled`, `KeysGoToFirstUser`: they need to know what stands below a key that has a
  list of lists or of mappings, after nodes have been moved there. `BlocksWritten` stops at the
  key, `ScalarsKept` and `SimplifiedTree` say that nothing is lost below it and that a list is
  where handlers expect one, but not in which order its items are.

## 5. Not modelled

* Power loss that reorders writes (a crash keeps the steps done so far, in order), short
  writes, and a `remove` of `first-boot-id` that fails, which is not looked at by the code.
* `g_thread_pool_push` that fails to start a thread: GLib queues the job all the same.
* The exit status of `ucd`, the options `-u`, `-h` and `-v`, two `ucd` processes at a time.
* In `DiskRepair`, partition numbers with gaps, extended partitions, and constraints of
  alignment.
* In `MetadataTree`, numbers, Booleans and nulls, other members of a file than `content_path`
  and `path` (one between the two makes the handler forget the first), and texts longer than
  `LINE_MAX`; `hostname` is in `BootIdentity`, `uuid` too.
* In `AuthorizedKeys`, short writes, a user that does not exist, failing system calls.
* In `SshKeys`, that `write_ssh_keys` looks for a key as a part of the file's text
  (`g_strstr_len`): a key inside a longer line, or one that is commented out, counts as present
  in the code. Keys are atomic in the model and lines hold keys only.
* In `Ucd`, the result of `useradd` and of the other commands of the setup, which `main()`
  ignores too: `UserBeforeHandlers` is about their order, and an account counts as set up once
  the commands have been run.
* In `DataFetch`, the provider `test`, a request the server never answers at all, and
  `execl` that fails.
* In `CloudConfig`, commands and system calls that fail, the permissions of files but for a
  list in their place, buffer limits, more
  than one document in a process, options of users that only make the command longer, the
  outcome of the wait for the network, and what a file held before `write_files`, which
  opens it without `O_TRUNC`. `lock-passwd` and `inactive` of `users.c` are read into a variable
  that `cloud_config_bool` leaves alone for an unknown word: the model lets it hold any value,
  for each user anew, and no property is stated about it.
* `userdata.c` chooses an interpreter by the first line of a file; only its effect on the id
  files is modelled. `shell_script.c` runs a file. `lib.c`'s helpers and `debug.c` are single
  calls of the system. `ucd-aws.c` is not built.

## 6. Findings

1. `boot_lost_setup`: a kill between the two system calls that write `first-boot-id` (or
   between those that replace `instance-id`) leaves a file that makes every later run
   answer "not the first boot"; the instance is never set up.
2. `boot_metadata_file`: with `--openstack-metadata-file` the uuid is one pool job among
   others, although "instance-id must be the first metadata key to process".
3. `ucd_config_drive`: `--openstack-config-drive` frees the tree and unmounts the drive that
   the handlers it has just pushed are using.
4. `keys_lost`: two threads that both find no `authorized_keys` overwrite each other.
5. `data_fetch_stuck`: a failure of the second or third connection leaves an unfinished
   file, whose existence keeps the unit from ever starting the fetch again.
6. `cloud_config_service`: a mapping that is the value of a key becomes the key's sibling, so
   the `service:` block of `docs/network-config.md` does nothing.

One more disagreement between a manual and the code has no run of its own, since
`KeysGoToFirstUser` already says what happens: `docs/cloud-config.5.md:156` promises
`ssh_authorized_keys` to "the default user account", but with a block of users before them
`ssh_authorized_keys.c:60` gives them to the first user of that block, and the default user gets
none. In the run `cloud_config` this is every document of a block of users with names, followed
by `ssh_authorized_keys`.

## 7. Plan

1. What stands below a key with a list: after parsing its items in order, after simplification
   those without data turned round. From it follow `KeysGoToFirstUser` and `EveryItemHandled`.
2. `write_files` with the contents of files; `userdata.c` in front of `CloudConfig`.
3. The exit status of `ucd`, and `ucd -u` as the continuation of `DataFetch`.
