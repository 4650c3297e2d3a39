# Verification of caty-gateway in TLA+

caty-gateway is the resident process that stands between a phone (CatyPhone, on
the same tailnet) and an agent program. One member of a household is one
process on one port: a `ThreadingHTTPServer`, so every request has a thread of
its own, and long work (speaking a reply, generating filler clips) runs on
further threads. Its state is partly in memory, under locks and condition
variables, and partly in small files that a restart, or a second process such as
the QR command, reads again.

This directory holds TLA+ modules translated from `src/src/caty_gateway/`, the
TLC configurations that check small instances, and TLAPS proofs. `PROJECT.json`
maps each definition to the lines it models; file and line numbers below are of
`src/src/caty_gateway/` unless said otherwise.

## Inventory

| Part | State | Operations | Talks to |
|---|---|---|---|
| one-time pairing (`pairing_store.py`; routes `caty_gateway.py` 5129-5291) | a directory: `<pid>.json`, `<pid>.json.part`, `<pid>.tombstone`, a flock file | issue, claim (and wrong guess), revoke, sweep, start | shared by the server's threads and the QR command's process |
| push events (`push_events.py`, `_do_events`/`_do_push`, `caty_push.py`) | ring of envelopes, sequence number, boot id, condition variable | publish, read (long poll) | producers retry under a key; readers hold cursors; attaches to the last voice session |
| reply jobs (`caty_gateway.py` `Job`, `JOBS`, `stream_pipeline`, `_do_talk2`, `_do_see`, `_do_reply`, `_do_stream`) | audio chunks, staged and visible text, done/error, cleanup callbacks, job table | accept, worker start, push, stage, finish, stream, poll, purge | backend and TTS (calls that may fail), history, claimed share files |
| share spool (`share_store.py`) | data files, sidecars, temporaries, claimed files; index, idempotency keys, expired ids | put, take, release, sweep, start | phone uploads; jobs own what they took |
| settings (`caty_config.py`) | one JSON overlay, `config_version`, asset and filler counters | update (compare and swap), voice pointer commit, bump | voice activation, asset and filler routes |
| voice activation (`voice_activation.py`), filler packs (`filler_pack.py`) | active and last-known-good pointers, packs on disk, pins, a journal | activate, regenerate, rollback, collect | settings, TTS |
| voice catalog and preview (`voice_catalog.py`, `voice_preview.py`) | bounded caches, flights in progress | list, preview | the voice service |
| avatar (`avatar_engine.py`, `face_core.py` 320-430, routes 4117-4423) | the engine's job: stage, bound credentials, output directories | stylize, regenerate, approve base and set, cancel | a picture service that bills; the asset store |
| assets and filler clips (`caty_gateway.py` 4024-4115, 4493-4805) | two directories and their locks, texts, the list in memory, two version counters | put, add, generate, delete, texts, fetch | settings (`bump`), TTS, phones that cache by version |
| setup (`setup_orchestrator.py`, `setup_supervisor.py`) | a status file under a flock, resume state, backup generations, the backend's configuration | claim, follow, enable, install, hand over, resume, roll back | service manager, the backend, the operator |
| history and links (`history_store.py`, `session_links.py`) | per session a log, a readable copy and an index entry; one links map | append, archive, title, read; put, get | jobs append; the phone lists |
| backends, TTS, vision, face drawing, presence, doctor, CLI | little or none | adapters and pure functions | external programs and services |

What is hard in it: threads of one process interleave around locks that are
released for every slow call; two processes share one pairing directory and one
setup status file; the process can be killed between any two file operations;
responses get lost and are retried; readers sleep on conditions while the state
they saw moves on. `PROJECT.json` lists these places under `hazards`, each at
its line, with the property that watches it.

Correct means, part by part:

* **pairing** - a secret buys the credential at most once, whatever crashes;
  guesses are counted; a new pair replaces the old without ever leaving none.
* **push** - a reader that follows its cursor loses nothing without being told,
  gets nothing twice, and is woken for what is published; retries collapse.
* **jobs** - a turn is spoken once, remembered as it was heard, its text never
  runs ahead of its audio, and it always ends, having removed its files.
* **shares** - a file is handed out once, to its session, unexpired; a restart
  changes nothing it could read; the spool stays within its quota and leaves no debris
  it could see and remove.
* **settings and voice** - no lost update; what is played belongs to the voice
  that is selected; a pack a pointer refers to is not collected; all this while the
  settings can be read.
* **catalog and preview** - one fetch, and one paid sample, for all who wait; all are
  let go; nobody is shown an older list than before.
* **avatar** - one generation at a time, paid by whoever asked, and only while its
  job lives; what is published is one whole set.
* **assets and clips** - no change is undone by another request, and the version
  tells a phone of every change.
* **setup** - one setup at a time; wherever it is killed, the original declared
  configuration can be taken back or the new one adopted; every process ends.

## Modules

| Module | Models | Checked by |
|---|---|---|
| `OneTimeCredential` | what a pairing credential promises, without files | refined in `pairing_crash` |
| `PairingStore` | `pairing_store.py`, the pair routes, the QR command | `MCPairingStore` |
| `PairingStoreProofs` | proofs about `PairingStore` | TLAPS |
| `PushEvents` | `push_events.py` and a client that follows `next_cursor` | `MCPushEvents` |
| `PushEventsProofs` | proofs about `PushEvents` | TLAPS |
| `JobStream` | the life of one spoken reply, its handler, worker and readers | `MCJobStream` |
| `JobStreamProofs` | proofs about `JobStream` | TLAPS |
| `ShareSpool` | `share_store.py` and the jobs that own claimed files | `MCShareSpool` |
| `ShareSpoolProofs` | proofs about `ShareSpool` | TLAPS |
| `OverlayConfig` | `caty_config.py`: the raw update and the voice pointer commit | `MCVoiceSettings` |
| `PackRegistry` | `filler_pack.py`: stages, packs, pin, collection, recovery | `MCVoiceSettings` |
| `VoiceSettings` | `voice_activation.py` over both, with the routes beside it | `MCVoiceSettings` |
| `SetupFiles` | what one member's setup keeps in files, and its backup | `MCSetup` |
| `SetupSupervisor` | `setup_supervisor.py`: the process that restarts and rolls back | `MCSetup` |
| `SetupOrchestrator` | `setup_orchestrator.py`: the command and the resumed child | `MCSetup` |
| `Setup` | several terminals, the supervisor and its child together | `MCSetup` |
| `SetupProofs` | proofs about `Setup` and its three parts | TLAPS |
| `AvatarProvider` | one call to the picture service, with its tries and candidates | `MCAvatar` |
| `Avatar` | `avatar_engine.py` and its routes, over it | `MCAvatar` |
| `AvatarProofs` | proofs about `Avatar` | TLAPS |
| `MediaStore` | the directories of pictures and clips, their routes, a phone | `MCMediaStore` |
| `MediaStoreProofs` | proofs about `MediaStore` | TLAPS |
| `VoiceCatalog` | `voice_catalog.py`: lists, leaders and followers | `MCVoicePreview` |
| `VoicePreview` | `voice_preview.py`, over it | `MCVoicePreview` |
| `VoiceProofs` | proofs about `VoiceSettings` with its two stores and about `VoicePreview` with `VoiceCatalog` | TLAPS |

### PairingStore

`rec`, `part` and `tomb` are the three files a pid can have (absent, torn or
full: records and tombstones are created with `O_EXCL` under their final name
and then written). `lock` is the flock. Each thread has a `pc`, its locals in
`loc` and the `answer` of its last call. A step is one file operation another
process can observe. A claim reads tombstone and record without the lock
(`CheckTombstone`, `CheckRecord`), then waits for one of three critical sections
(`ExpireUnderLock`, `FailUnderLock`, `ConsumeUnderLock`); issue, revoke, sweep
and start have one each. `LockTimeout` is the one-second poll giving up,
`Crash` kills a process: its lock goes, its files stay. The `...Fault` actions
are file operations that fail: reads, which the code takes for an absent file
(`ReadFault`, `ScanFault`), writes, unlinks, and the fsync or chmod of a file that is
already complete (`TombstoneFault`, `FillFault`, `ReplacedFault`); `ReturnFault` is a
credential withdrawn during the claim. Secrets are the ordinals of their issues; a wrong
guess is 0. `grants` and `misses` are history variables.

Pids are few and reused, which makes name reuse after a tombstone's grace common
instead of one in four thousand million.

A claim is judged by the moment it arrived: it reads the clock once, before it waits
for the lock (249, 317). `ConsumeIsTimely` says what that leaves: the record it unlinks
is its own secret's and had not expired or been locked out at that moment, although the
pid may have been reissued or locked out by others in the meantime. An expiry that
passes during the wait is not held against it (see the disagreements).

What the books of `Accounted` except is counted, one by one: a kill or a fault leaves at
most one consumed tombstone that bought nothing (a kill between tombstone and answer, a
credential withdrawn there, an fsync or chmod of the tombstone that fails), a kill loses
at most one guess, and a fault two: the guess itself and the one that trips over the
temporary it left. A startup keeps one record of those it could read (`skip` are the
others).

`OneTime` is the refinement: the status of a secret, computed from its files, its
claimant and its issuer, moves as `OneTimeCredential` allows.

### PushEvents

`log` is everything this process published; the ring is its last `MaxLen`
entries. `publish` and every pass of `read` hold the condition's lock, so each is
one step; a reader is waiting, then woken, and other publishers may run before
its next pass. `Restart` starts an empty log under a new boot id. Responses may
be lost, on both sides: a publisher then repeats its call under the same key, a
reader its cursor.

### JobStream

`job[j]` is the `Job` object, `pc[j]` where its handler or worker is; every block
under the job's condition is a step, and so are backend and TTS calls, each of
which may give what it should, nothing, or an exception. Sentences of a streamed
reply are numbers; `Whole` is a reply or fixed line spoken in one piece and
`Silence` the filler clip. A text is the last sentence it contains. `files[j]`
are the claimed upload and the private copy the backend reads. Readers stream
(`_do_stream`) or poll (`_do_reply`). `history` is what `append_turn` was given.
Every removal of a file may fail: it is logged and dropped (984-988, 1815-1819). A
claimed file that stays at composition is tried again by the clean-up; what no later
removal reaches is in `stuck`, and `AttachmentLifetime` excepts exactly that.

Left out: presence updates, metrics, the legacy non-streaming routes, `/talk`'s
speech recognition, takeover of external sessions.

### ShareSpool

All calls run under the store's one lock, so one call `op` is in progress, but
each of its file operations is a step: a kill may come between any two and an
operation may fail. `disk` is the set of files of each share; `known`, `idem`
and `gone` are the in-memory index, keys and expired ids. A put sweeps, answers a
repeated key, checks the quota, publishes (temporary files, data, sidecar, then
memory); a take hands the file to a job by a rename into the claimed directory.
`Open` is the constructor, which loads the sidecars; `Restart` the gateway's cleanup of
claimed files.

Where the code swallows an error the model has it, and the properties except by name
what it leaves, and nothing else:

* `unread` - shares whose sidecar a start could not read, or all if it could not list
  the directory (470-471, 484-485; `Open`). Such a share stays on disk and unknown, so
  a put of its key makes another, and it is not in the quota; a take that names it finds
  it again, or removes its files if it still cannot read them (`TakeUnread`).
* `op.missed` - what a sweep passes over because its stat fails, or all if scandir fails
  (549-550, 558-559; `SweepPast`).
* `stuck` - files an unlink failed on (279, 316-317, 414-419, 580; `Left`, `Unlink`).

`Astray` is a share that is unread or whose two files are stuck: only such a share may
be on disk while memory does not know it, and come back.

Left out: digests and type checks of the payload (a take may find any staged
file unreadable), clocks that run backwards, files put there by somebody else, a failing
stat of a data file, which the code takes for a missing file and removes the share.

### OverlayConfig, PackRegistry, VoiceSettings

`cfg` is the settings overlay, of which the active voice and pack, the last known
good pair and the two versions are kept; it is read and replaced as a whole under
one lock, so an update or commit is one step. `place[p]` is the directory a pack
is in and `made[p]` what it was generated for; packs are numbered as they are
made. `op` is the activation, regeneration or rollback that holds the operation
lock, with the settings and texts it read at its start (`was`, `want`, `snapshot`): it
matches or stages a pack (four file steps, minutes apart in the program), commits by
compare and swap, then pins and collects outside the settings' lock, and its `finally`
clears the journal. Meanwhile the raw settings route replaces the voice and the filler
texts change. `Crash` leaves the files; the first request after it builds the service,
whose constructor recovers the registry one file at a time and can be killed again. An
operation, a collection or the recovery may fail at any of its steps.

For a while every read of the overlay may fail (`unreadable`): a read then gives the
defaults (`Settings`), and a write starts from them and replaces what it could not
read (`caty_config.py` 283-295). The read for the retention, after the commit, may
fail on its own (`CommitBlind`). The properties name what this costs:

* `PointersHold` excepts a pack that is `lost`: a retention that could not read the
  settings protects nothing and may collect the pack just committed;
* `WayBack` excepts a write that cannot read what it replaces, and an operation that
  began before such a write (`forgotten`): versions start again with the defaults, so
  its version may be current for settings it has never seen;
* `NothingLeftBehind` excepts what the service knows to have `left` on disk since its
  start: a stage that an operation abandoned, a removal or rename that failed, and a
  stage that a kill left without its lock file and that was young at the recovery
  (`_lockless_stage_is_young`; `test_filler_pack.py` 640 and 582). Journals that could
  not be removed are `spoiled`. The next start takes all of these again.

The catalogue is an environment: it may resolve a saved catalogue id to another
voice at a rollback, or be out of reach (the saved voice is then trusted). The
speech engine supports voices throughout. Left out: the legacy pool of clips
(`MediaStore` has it, and `bump`), damaged packs, presets, display data, reads.

### SetupFiles, SetupSupervisor, SetupOrchestrator, Setup

`status` is the status file: its state and the registered pairs of the orchestrator
and the supervisor. A pair is a pid with a start time, so that of a process that has
ended is `"dead"`, whoever gets its pid. `resume` is the resume state, `config` the
backend's configuration (`"old"`, `"new"`, between, or removed), the backup a copy of
it, `artifact` the installed service file. `declared` says whether the backend declares
configuration paths: the gateways do by default, the other backends only by
`CATY_BACKEND_CONFIG_PATHS` (`_brain_config_paths`). Without any the manifest names no
file, and a restore touches nothing, clears the rollback point and ends `"failed"`;
what the enable command wrote then stays, which `Recoverable` excepts by its
`declared`. Every combination with `kind` is taken (the supervisor accepts any
manifest). Declared paths that did not exist are a value of `"old"` like any other. `run[m]` is where orchestrator `m` (one
per terminal, and the child the supervisor resumes) is and the resume state it holds
in memory; `sup` is the supervisor. Every write of a file is a step, and a process
can be killed, interrupted or fail between any two.

A command follows the owner of a live flight, or claims the status file by compare
and swap, reads the resume state, and takes the phases in order: backend (undo what
was cut short, back up, enable, restart, verify), install (digest first, then the
file), show the QR. Without an enable command, or when the backup cannot be written, it fails
before anything changes; a restore may fail, and is tried a second time where the
enable was recorded as done. A backend that runs the gateway's own unit is restarted by the
supervisor, which then resumes the command in a child and, if that fails, restores.

Two history variables record what the program cannot know. `gap` becomes `"hidden"`
when the pair of a process that still works drops out of the status file, because a
terminal record clears all pairs (`setup_supervisor.py` 439, `setup_orchestrator.py`
2045) or a parent is killed before its supervisor registers, and `"used"` when a
command claims the file meanwhile. `lost` says that the resume state and what it describes came apart: the supervisor undoes an enable
that was recorded as complete (a child that outlives the resume time-out, 613), or a
run goes on with a resume state it read before it had the claim (1926-1944). The
properties except these cases and no others.

Assumed: a supervisor registers before a further command could have enabled and
spawned another one (`_handoff_grace` is five seconds). `reachable` may stay true
although the configuration was restored. Left out: `--reset`, the expiry of the
resume state, hosts that tell no start times, prompts, discovery.

### AvatarProvider, Avatar

`engine` holds the job the engine knows and the one it claims; `job[j]` its stage and
the credentials of its pass, `worker[j]` its thread, `disk[d]` which pass drew each
picture of an output directory, `assets` what is published. A handler reads the
stage, looks the job up, and commits under the job's lock, in steps of their own;
approve-set reads the pictures, then approves, then publishes under `ASSET_LOCK`. The
worker takes the bound credentials when it runs, calls the service for each picture,
and writes only while its job is the current one. A call is a submit, which may be
refused, retried or lost (and is then not sent again by the call itself), and
polls; a picture is the best of several candidates. Cancelling is possible in the
stages the code allows. The pictures themselves, masks and prompts are data.

### MediaStore

`live[s]` says for each file of a directory which write it is from. A change is
prepared, the lock taken, the directory staged from the live one, moved aside,
replaced (two renames), the texts saved, the list loaded and the version bumped, each
a step at which the request may fail or the process be killed. `held` is `ASSET_LOCK`
and `FILLER_LOCK`. A bump is two steps under the settings' own lock (`config`): all
settings are read, both versions among them, and written back (`ReadSettings`, `Bump`).
`phone` reads the versions, fetches what is listed name by name and keeps it under the
version it read first.

Reads fail too, and the code goes on. Texts that cannot be read are none, and their
file is made empty if that works (`BeginUnread`, `LoadedUnread`); a clip that cannot be
read is not listed and its text dropped (`Loaded(skipped)`); a listing that fails leaves
the memory cleared, a saving that fails leaves it filled (`LoadFails`); settings that
cannot be read are the defaults, which a bump or another route (`ResetSettings`) writes
back. The rename that puts the old directory back may fail (`RestoreFails`).

Ghosts: `applied` is the finished changes, one after the other; `unversioned` marks a
store whose last change ended without a bump (a failure or kill in between, a restart
that could not read all); `lost` a kill or two failed renames after which the old
directory stays under a backup name that nothing restores; `unread` a load that left
something out; `era` counts the settings written back as defaults. So these are the
exceptions, and the only ones:

* `ClipsKept`: a `lost` directory, and the texts of a file that could not be read
  (`caty_gateway.py` 1893-1909; `test_config_api.py` 1112) or of a clip that was skipped
  (2062-2079). A reader that empties the texts counts as a change of them: the clips
  themselves and all other changes stay.
* `VersionTells`: a store that is `unversioned`, until its next bump; what a phone kept
  before the settings were last reset (`era`), since versions start over then and may
  repeat (`caty_config.py` 284-292). A phone holds what is *served*: a clip that was
  skipped is not, and all that is there is listed unless the last load is `unread`.

Left out: a listed clip that cannot be read when it is fetched is answered 404, as one
that is gone, and the phone gives up for this time.

### VoiceCatalog, VoicePreview

A list is known by the moment it was read. `fetching` and `flights` are the leaders of
`_flights`; a follower has its leader's name and is let go by `Land` or `Over`, the
`finally` blocks. `samples` and `refused` are the caches of audio and of voices whose
sample is too long or large, least recently used first; time passes by `Expire`. The
voice has one version after another and may be withdrawn and come back (`Change`).

Left out: the contents of lists, the rate limiter, the bound in bytes, one voice's
private samples next to its public ones.

## Runs

| Run | Instance | Shows |
|---|---|---|
| `pairing_claims` | two server threads, one pid, two issues, two failures then lockout, a clock of 2 readings | types, lock, at-most-once; a claim unlinks only what it might have when it arrived; every call answers |
| `pairing_crash` | a server thread and the QR command, two pids, two issues, three clock readings, one kill, one failing file operation | refinement of `OneTimeCredential`; what completed calls leave; replacement never leaves none; guesses and tombstones add up |
| `push_events` | one reader, one key, a ring of two, three events per process, two processes, one lost response, expiry | each push once or a gap; events arrive |
| `job_stream` | one turn of every kind, two sentences of up to two chunks, a reader with two requests | spoken once and remembered as heard, read as spoken, files live as long as needed, every turn ends |
| `share_spool` | two sessions, one key, quota 1, two shares, three clock readings, one kill, one failing operation (or the reads or unlinks of one call together) | delivered once, quota, restart changes nothing and leaves no debris, but for what could not be read or unlinked |
| `voice_settings` | two voices (one chosen by catalogue id) and none, two packs, three changes of the settings, two versions of the texts, one kill, one failing step or spell of failing reads | pointers name packs that exist and fit, no other packs stay; every commit and raw change has its way back; but for the named exceptions |
| `setup` | two terminals, two commands, with and without declared paths, two kills, interrupts or time-outs | one setup at a time; a declared configuration always recoverable; success is complete; every run ends |
| `avatar` | two handlers, two jobs, two passes, two pictures of two candidates, two credentials, two tries of a call | one generation, paid by whoever asked, whole sets published, nothing after the end, every generation ends |
| `media_store` | two handlers, a picture, two clips and the silence, two writes, two faults (failures, unreadable files, kills), a phone | changes are kept, versions tell of them; one picture is enough because the clips show what a mixed set is |
| `voice_preview` | two handlers, one scope, two versions of a voice, caches of one, three clock readings | no list older than before, one paid sample at a time, all are let go |
| `push_overtaken`, `setup_rerun` | as above, `setup_rerun` with one terminal and no fault | two of the disagreements below |

Many properties are conjunctions of named parts; each part can be broken on its own
by a plausible mistake in the code.

The bounds are the least at which the interesting things happen. Two threads and
one kill suffice for pairing because a critical section involves one holder and
one thread that read without the lock; two issues make one replacement and one
reuse of a pid. A ring of two with three events overflows by one; two processes
make one restart. Two sentences separate "some audio was heard" from "all". Quota
1 with two shares fills the spool, and one key is enough for a repeated upload.
Two packs are the active and the last known good one, or one in use and one to stage
or to collect; three changes of the settings make two commits with a raw change
between them. Two setup commands are one
that is cut short and its rerun, or two at once; larger ones were tried once (three
commands with one fault; for the clips three names and three writes with one fault; three packs, 34 million states;
two scopes of voices with one version), with the same result. Every bound is a named
CONSTANT in a guard; the clock stops at `MaxTime`, where
time-outs that need more are no longer reached, and calls still complete.

Deadlock is checked where something is always enabled; `JobStream` really ends
(its jobs and requests are finite), and `push_overtaken` reuses a specification
without its fairness, so those say `CHECK_DEADLOCK FALSE`.

### Fairness

* `PairingStore`: weak fairness of each thread's own step. The lock is polled with
  a deadline, so a thread is never without one; kills are never forced.
* `PushEvents`: weak fairness of a client's next poll and of a notified thread,
  strong fairness of a response's delivery (not every answer is lost). No fairness
  of time: `EventsArrive` does not rely on a poll timing out.
* `JobStream`: weak fairness of handlers, workers and readers. Every external call
  has a timeout, and a socket accepts what is written or breaks.
* `ShareSpool`: none; its properties are safety and what a completed sweep leaves
  (`SweptClean`).
* `Setup`: weak fairness of the supervisor's and each orchestrator's next step; each
  waits with a deadline or for a process that is fair itself. Kills are never forced.
* `Avatar`: weak fairness of each worker and each handler; every call to the service
  has a time-out and a bounded number of polls.
* `VoicePreview`: weak fairness of each handler; a follower's wait is released by its
  leader, whose calls have time-outs.
* `MediaStore`: none, its properties are safety.
* `VoiceSettings`: none; what must happen after a kill is stated of the service
  once it is open.

## What is proved

Each `...Proofs` module proves, for every value of the constants, that its
inductive invariant holds (`Invariance: Spec => []IInv`), and from it the
properties that the runs check on small instances. Every invariant was first
checked by TLC on its run's instance, and on a larger one or with more faults (the
largest for setup: two terminals, three commands and three faults, 38 million states).
What is assumed of the constants is in the `ASSUME` of each module and no more:
the bounds are naturals, positive where the code needs one (a ring of at least one
entry, one start, a first version), and the names that stand for "nobody" or "no
session" are not among the real ones.

| Theorem | Property | Along which argument |
|---|---|---|
| `PairingStoreProofs!LockSafety` | `LockExclusive` | a thread is in a critical section exactly when it holds the flock: every action finishes (and releases), moves within the sections, or acquires |
| `PairingStoreProofs!GrantedAtMostOnce` | `AtMostOnce` | a second grant is prevented by where the secret is: in a record, in a temporary, or with the thread that unlinked the record, in one of these only, and none of them was granted (`OneHolder`). Only the holder of the lock changes a record, so a claim's unlocked reads are harmless |
| `PairingStoreProofs!BooksAreRight` | `Accounted` | the files of a pid fit each other and who works on it (`FilesFit`, `TakersKnowTheirPid`); a record's total misses at most one guess per temporary that was left over, and a kill or fault leaves at most one (`Counted`, `Stray`); a step adds a tombstone that bought nothing only if it is a kill or a fault (`WastedGrows`) |
| `PairingStoreProofs!ConsumesInTime` | `ConsumeIsTimely` (action; the safety half of `CallsAreTimely`) | the record of a secret keeps its creation, so what had not expired when the claim arrived is still to be judged so when it has the lock (`InTime`), and a reissue is another secret; the lockout is read again there |
| `PairingStoreProofs!StepsAreSound` | `SoundSteps` (action) | what an issue, a revoke or a start has still to remove, and what it must not, while it removes one file at a time (`Listed`) |
| `PairingStoreProofs!OneTimeHolds` | `OneTime` (refinement) | a secret is in one place (`OnePlace`), which is its status: `FillRecord` is `Mint`, `ConsumeUnderLock` is `Take`, `ReturnCredential` is `Deliver`, and every other step only takes places away (`Shrinks`), which is `Lose` or a stutter |
| `PushEventsProofs!EachOnce` | `ExactlyOnce` | a read under way is at or past its client's cursor; what it passed over had expired, or was pushed out while it slept (`PassedOver`), which is the exception the property names; a response lies between the two cursors, so nothing is got twice |
| `JobStreamProofs!SpokenOnceAndRemembered` | `SpokenAndRemembered` | where the worker is bounds what was pushed (`Pushes`), staged or shown (`Shows`) and asked (`Asks`): nothing before the first sentence, at most the current one after it, only the whole reply after a retry; and the text that is remembered is one that sounded (`Remembered`) |
| `JobStreamProofs!ReadAsItIsSpoken` | `ReadAsSpoken` | audio is only added to and a job that is done stays as it is (`Extended`), so what a reader found stays true between its lock and its answer (`Seen`) |
| `JobStreamProofs!FilesLiveAsLongAsNeeded` | `AttachmentLifetime` | the files of a working job are in its clean-up, or one that no removal reaches any more, and what the brain is promised is among them (`Attached`) |
| `ShareSpoolProofs!WithinQuota` | `QuotaHeld` | counts the shares that are live or would be if the process were killed now (`InQuota`): the put under way is among them, and a sidecar the open store does not know is one being removed, stuck, or never read (`Away`) |
| `ShareSpoolProofs!HandedOutOnce` | `DeliveredOnce` | a claimed file has taken the data's place and is owned, in flight or stuck (`Owners`); what was given is nowhere any more (`History`); a key has one live share that is not astray (`Indexed`, `Found`) |
| `ShareSpoolProofs!RestartSafe` | `SurvivesRestart` | `Away` again, and `SweptClean`, which is an invariant of the sweep's progress: what remains past its time is stuck, missed or unread (`Remains`) |
| `VoiceProofs!PointersFit` | `PacksKept` | a commit writes pointers that fit (`Prepared`); pin and collection keep what the settings name even when they moved on meanwhile (`Retained`); everything else on disk is the operation's or was left there (`Owned`) |
| `VoiceProofs!AlwaysAWayBack` | `WayBack` (action) | unless the settings were forgotten, an equal version means equal settings (`Remembered`), so what is saved as last known good is what was active |
| `SetupProofs!OneSetupAtATime` | `OneSetup` | who works is alone but for the parent that waits for its supervisor and the supervisor that waits for its child (`Alone`), because the status file names it as long as it lives (`Listed`); a claim gets through only on a status that names no live process, or in a `gap` the property names |
| `SetupProofs!AlwaysRecoverable` | `Recoverable` | since who works is alone, no step of another changes what it holds: it carries the resume state that is on disk (`Carried`), and resume state, configuration, service and the supervisor's copy describe each other at every place of the program and in every file state a kill can leave (`FilesKept`, `SupKept`) |
| `SetupProofs!SuccessAlwaysComplete` | `SuccessIsComplete` | success is recorded by who has written the artifact, seen the service and removed the resume state (`Complete`), and the supervisor that watches takes "ok" only from a child that recorded it |
| `AvatarProofs!OnePass` | `OneGeneration` | a pass is under way in the current job only, and one thread runs it or is about to (`Claimed`, `OneThread`) |
| `AvatarProofs!PaidByWhoAsked` | `PaysForItself` | a bound pass keeps the credentials it was asked with until it is cleared (`Paid`) |
| `AvatarProofs!WholeSets` | `PublishedWhole` | a directory holds the pictures of its own pass only, an offered set is complete, and so what a handler copied is of one pass (`Numbered`, `Copied`) |
| `AvatarProofs!NothingAfterTheEnd` | `OverIsOver` (action) | from `OneThread` |
| `MediaStoreProofs!NothingIsUndone` | `ClipsKept` | the lock's holder is the only one between its renames (`OneInside`); what it will put there is its change applied to what was, or to nothing where it could not read the texts (`Applied`, `Base`) |
| `MediaStoreProofs!VersionsTell` | `VersionTells` | what a phone has got of the present version is what is there (`Told`), since every change is bumped or marked `unversioned` before its lock is free; who holds the settings has read the versions as they are, or the defaults (`Reading`); no more versions than writes (`Counted`) |
| `VoiceProofs!ListsNeverGoBack` | `NoGoingBack` | a leader is alone and reads after it began, so the list it keeps is the newest that anybody was answered (`Newest`) |
| `VoiceProofs!PaidOnce` | `PaidOnceAtATime` | who speaks for a key is the leader of its flight; the caches hold a key once and stay within their bound |

Each module also proves its `TypeCorrect: Spec => []TypeOK`. `VoiceProofs` is about two
machines that share the catalog of voices; the definitions of `VoicePreview` carry
"Preview" in their names so that one module can extend both (`PreviewSpec`, and
`PreviewTypeCorrect: PreviewSpec => []PreviewTypeOK`). `SetupProofs` and `ShareSpoolProofs`
have their invariants in layers (`Typed`, `Flight`, `Kept`, `Complete`; `Base`, `Live`,
`Handed`), each proved from the ones before it. Where an argument needs a least or greatest element (`PushEventsProofs`,
`ShareSpoolProofs`), it comes from the well-foundedness of the naturals.

What the proofs showed about the models:

* With two failing unlinks the quota can be passed: if neither the sidecar nor the
  data of a share can be unlinked, the memory forgets the share (`share_store.py`
  `_remove_locked` ignores both errors, line 580), another put is admitted, and a later take of
  the old id loads it again. The run, with its one fault, meets it only where a whole call's removals fail; the proof
  did. `OneSharePerKey` and `QuotaHeld` now except such shares (`Astray`) by name,
  and hold for any number of faults.
* A conjunct in the guards of the phone's steps in `MediaStore` bound differently from
  what its layout said; the invariant of the phone was false until it was set right.
* The arms `"taken"` and `"unborn"` of `PairingStore!StatusOf` exclude each other only
  because a secret is in one place (`OnePlace`), so the refinement needs the invariant
  of at-most-once (`OneHolder`) already for its mapping.
* The bounds that must be positive (see above) were found as missing hypotheses.

Model-checked only, and why: liveness (`EveryCallAnswers`, the other half of
`CallsAreTimely`, `EventsArrive`, `TurnsEnd`, `EveryRunEnds`, `GenerationEnds`,
`EveryCallEnds`), because fairness and ENABLED are out of the prover's reach.

## Disagreements found

With a run:

* `push_overtaken` - a reader asleep in `read` while more events than the ring
  holds are published is not told of the gap (`push_events.py` 186): the test at
  `tests/test_push_events.py:76` only covers a cursor that is stale on arrival.
* `setup_rerun` - after a rollback the supervisor asks to rerun the command "to
  restart the flow from the backend phase" (`setup_supervisor.py` 794). The resume
  state still says that the enable was done, so the rerun restarts the backend on the
  restored old configuration and is rolled back again (`setup_orchestrator.py` 1093).

Met while modelling and not checked by a run:

* `docs/contracts/pairing-v1.md:9` promises 409 for a consumed credential. A claim that
  read "no tombstone" before another claim consumed the record finds no record
  afterwards and answers 401 (`pairing_store.py` 252).
* Line 9 also promises 410 for an expired credential. A claim that arrived in time is
  granted although the credential expired while it waited for the lock, up to
  `LOCK_WAIT_SECONDS` (`pairing_store.py` 249, 317).
* Line 15 of the same document promises temporary file and atomic replace for writes.
  New records and tombstones are written in place (580); a kill leaves half a file.
  Readers refuse it, so nothing else breaks.
* The comment at `caty_gateway.py:2263` promises one voice for every turn. TTS that
  answers 200 with an empty body on the non-streamed path ends the turn without error
  and without audio (2271, 2292).
* A commit reads the settings back for its retention (`caty_config.py` 233). When that
  read fails it gives the defaults, which name no pack, and the retention collects the
  packs that were just committed (`voice_activation.py` 626-642).
* `tests/test_voice_preview.py:279` blocks the replay of a withdrawn voice's sample. A
  sample under way at the withdrawal is stored after it (`voice_preview.py` 457) and can
  be replayed while the service is out of reach.
* A follower whose sample was evicted before it looks answers 502 although the
  generation succeeded (`voice_preview.py` 450).
* `submit` gives a lost request up because it may have been billed
  (`avatar_engine.py` 176-178); the candidate loop above it draws the next
  candidate all the same (`face_core.py` 356-374).
* approve-set reads the pictures before it approves (`caty_gateway.py` 4378-4423): a
  second set approved in between can be overwritten by the first.
* An exception of `thread.start` leaves an avatar job busy for ever, and the readiness
  refresh of the voice (329-516) likewise.

## Plan

Done: all modules above; the proofs of every safety invariant and action property
that a run checks. Next:

1. Abstract specifications for the components that have none, each with its
   refinement: a share is staged and handed out once; a published set of pictures;
   the settings with their way back.
2. Action properties worth stating beside the invariants: a reader's cursor only moves
   forward in one process, a turn that ended changes nothing more.

## Not modelled

* Conversation history, session links and presence: files and a value for display.
  `JobStream` has what is written to the history and when.
* Pairing records that are corrupted or belong to another member (`pairing_store.py`
  255-264, 273-282, 306-315, 402-405, 450-454, 533-536): only this code writes the
  member's directory; a torn file is modelled, and is what its readers refuse.
* The pairing routes' rate limiter, the preview's rate limiter, the QR command's
  image server, the readiness state of the voice: single counters and one-shot
  servers with no partner in a protocol.
* Durability under power loss (`fsync` ordering of the disk itself), HTTP parsing,
  audio and image data, the external services, the adapters in `backends/`, drawing,
  prompts, diagnostics and packaging.

## Running

    tlc -workers 2 -config PairingClaims.cfg MCPairingStore
    tlapm PairingStoreProofs.tla

and likewise for the other runs of the table (the `.cfg` has the run's name, the
module is the one its component's row names) and the other `...Proofs` modules; each
takes a minute or a few.
