# A verification project for portable-resume

TLA+ models, TLC runs and TLAPS proofs for the program under `src/`: an offline
tool that recovers sessions of coding agents into bounded handoffs, and an
installer that writes its skill payloads into the skill roots of agent hosts.
Paths below are relative to `src/src/portable_resume/` unless they start with
`src/`.

## 1. Inventory

| Component | State | Operations | What is hard | What makes it correct |
|---|---|---|---|---|
| Install transaction `install/transaction.py` | payload files under a root; control tree `.portable-resume/` with the ownership manifest, the journal, a stage directory, backups, a lock file | plan, install, uninstall, recover, verify, migrate a v1 control tree, install to several targets | several installers and users at work on one root; a crash or an error between any two of about fifteen file operations; rollback that is interrupted and repeated; a plan made before the lock is held | manifest and payload move together; nobody's claim or bytes are lost; a pending journal can always be undone; it is cleared in the end |
| Ownership manifest `install/manifest.py` | claims, per-file digest and owners, generation, release | `build_manifest`, load, dump | shared files, mixed releases | a file belongs to whoever still claims it |
| Control schema `install/control_schema.py` | none | parse and validate the manifest and the journal | hostile or torn documents | refuses what it did not write |
| Installer CLI, rendering, catalog, discovery `install/{cli,render,package_contracts,catalog,discovery}.py` | none | arguments, templates, tables, probes | breadth | deterministic output |
| Platform file system `platform_fs/` | open descriptors, lock handles | atomic replace, locks, identity checks for POSIX, APFS, Windows | races with renames | no operation leaves its root |
| Output write `output_write.py` | a staged temporary file | resolve, stage, commit | the target changes between check and publish | never replaces what it was not told to |
| Source snapshots `snapshot.py` | private copies of files under read | stable read, line scans, snapshot of a file and of an SQLite family | the source is appended to, rotated or replaced while it is read | what is returned was in the file at one moment |
| SQLite copies `sqlite_cow.py`, `sqlite_wal.py` | a pinned family of files, a clone | pin, clone, accept, validate WAL frames | a writer commits and checkpoints meanwhile | the clone is one committed state |
| Read budgets `bounds.py` | counters with limits | charge, provisional charge, commit | limits across files and attempts | no run reads more than its limits |
| Selection, reader, request `select.py`, `reader.py`, `request.py`, `workspace.py` ... | one run | gate, select, read, render | precedence and ambiguity | never a session the user did not mean |
| Adapters `adapters/` | none; the stores of 17 agents | probe, list, show | forks, rewinds, compactions, lines half written, indexes that lag, several stores of one session | what is listed and shown is what the agent's store holds |
| Sweeps `discover_doctor.py`, `search_sessions.py` | one run | list every source, search every session | one source of many fails | the others are reported, and the failure |
| Handoff, sanitiser `handoff.py`, `sanitize.py` ... | none | redact, truncate, render | two ceilings, one after the other | the newest turns, bounded, with every cut marked |
| Versions `version_state.py`, `registry.py`, `build_identity.py` | none | admit a release | decision table | unknown releases are refused |
| Program state `src/scripts/validate_program_state.py` | a state root of receipts, events, evidence, pointer, manifest | validate a root | a transition written in several files | nothing half written or unearned is valid |
| Native evidence `src/scripts/native_evidence.py` | one run of a host | judge discovery and activation from a host's output | output that quotes what is looked for | evidence is of the one session asked for |

The components meet as follows.  `install/cli.py` calls the transaction's
functions, each of which takes the root's lock (`RootLock`), reads the manifest
and the journal through the control schema, and works on the root through
`platform_fs`.  Processes share nothing but the file system: the payload, the
control tree and the kernel's `flock`.  `reader.py` asks the adapters for
sessions; they read through `snapshot.py` and `sqlite_cow.py` under a budget of
`bounds.py`; `select.py` chooses, `handoff.py` renders and `output_write.py`
publishes.  `discover` and `search` do the same for every source in turn, under one
budget.  The agents write their stores meanwhile and know nothing of the program.

## 2. Plan

Done, in this order: `InstallTxn` (the heart of the installer) and its proofs,
`MultiTarget` composed of whole installs, `LeafOps` for the system calls the
other two take as single steps, `StableRead` for the reader's side, `RootLock`
for the lock the installer takes for granted, `DatabaseCopy`, one module for each
way agents keep sessions with `Sessions` over them, and the commands and scripts
with `Commands` over them.  Then the proofs, component by component: the installer
from its lock up to several roots (`RootLock`, `InstallTxn`, `LeafOps`, `MultiTarget`),
the reads (`StableRead`, `DatabaseCopy`), and the commands and scripts (`Commands`).  Of
the properties of these seven modules that the runs check, a theorem states all but two
(section 5).

What is left: `QuietRoot` and `Calm`, under which four theorems about `InstallTxn` and
one about `MultiTarget` are proved, could be narrowed, file by file, to roots in which
somebody did edit other files.  `WindowsInstall` is proved about for its four files and
two releases; any number of them would need inductions over the files.  `Sessions` and the modules below it stay with TLC:
those that walk a graph use RECURSIVE operators, which the prover cannot read, and the
five properties of `Sessions` speak of all agents at once.

## 3. The modules

**`Ownership`** holds what the installer computes: manifests, bundles, the
classification of a destination (`create`, `retain`, `replace`, `backup`,
conflict), the manifest after an install (`WithClaim`) or an uninstall
(`WithoutClaim`), and which files an uninstall may remove (`SoleOwned`).  A path
holds the digest of something shipped, something a user wrote, or nothing.

**`InstallTxn`** is one root.  `live`, `manifest`, `journal`, `stage`, `backup`
and `kept` are the files on disk; `lock` is the kernel's `flock`; `plan` is the
plan a process makes without the lock; `mem[p]` is the working memory of the
command that holds it, with its own copy of the journal.  Program points:

    install    staging -> snapshot -> backup -> commit -> orphan -> publish -> complete -> cleanup
    uninstall  saving -> ready -> remove -> publish -> complete -> cleanup
    rollback   undo -> cleanup -> unlink
    recover    recover (journal seen, no lock) -> undo or cleanup

Each payload change and each flush of the journal is an action, so a process may
die between any two.  `Fail` is an error and enters the rollback of the same
process; `Crash` kills the process and frees its lock; `EnterRecover` is a later
`recover` command that decides with `Published`
(`_install_generation_is_published`) whether to roll back or only to clean up.

**`InstallProps`** states the properties, **`AtomicRoot`** the abstract
specification: a pair of manifest and payload that changes only by one whole
install or uninstall.  `Standing` is the refinement mapping: a file an
unpublished transaction touched counts as what undoing it restores.

**`MultiTarget`** is `install_multi_targets` over several roots.  `Ask` is the
preflight without locks; `LockRoot` takes the roots in canonical order;
`LocksHeld` is where planning under the locks begins; `Checkpoint` and
`InstallRoot` do one root; `StartUndo`, `RestoreFile`, `RestoreManifest`,
`WriteBack`, `CheckpointRestored`, `CheckpointFails` and `ManifestLost` are the
compensation, in which a file is unlinked first and written anew after.  The install of
one root is the single step that `RootIsAtomic` says it is, or it fails with its
payload rolled back (`InstallFails`), or with a journal left (`InstallBreaks`,
`Crash`), which `Recover` undoes later.

**`LeafOps`** goes below those steps: the guarded unlink that quarantines a leaf
under a random name, the exclusive restore by link, the rewrite of a checkpoint's
file, the commit of a staged file, and the `--output` file of `output_write.py`,
one system call at a time, with other programs writing the path between any two
calls.  **`AtomicLeaf`** is what each promises.

**`StableRead`** is one reader and the agent that owns the file.  `disk` holds the
files (`st_mtime_ns`, content) by inode, `name` says which one the path names.
The reader's `pc` is its next system call:

    idle -> entry -> open -> read (1) -> read (2) -> stat -> middle -> read (3) -> stat -> after
                       any of them -> entry (next attempt) or idle (refused)

`mode` is the entry point: `stable_read_bytes`, `stable_scan_lines`,
`stable_scan_tail_lines`, `stable_read_windows` (with and without its size test)
and `snapshot_regular_file` share this course and differ in what they read
(`Fixed`, `Start`, `TailStart`), in what they refuse (`Open`, `ReadTooMuch`,
`ReadTorn`), in whether a helper's E_SOURCE_BUSY is retried (`Busy`) and in what
they charge (`Charge`).  The conjunction at the end of an attempt is `same`, kept
up comparison by comparison.  `seen` and `dirty` are history.

**`RootLock`** is what stands before all that: `RootLock.__enter__`, from the choice
of a lock file to the move of what an older version left.  `lock` and `inodes`
are the lock files by place and inode, `held` is the kernel's `flock` by inode,
`doing` is where each process is,
`at` says where each other control file is (`old` beside the payload, `new` in
`.state`), `names` where the journal says its trees are.

    idle -> legacy exists -> open old or open new -> flock -> both -> manifest -> journal
         -> lock -> link -> backups -> stage -> rewrite -> critical -> done

`OldStart` and `OldInstall` are an installer of the older version, which knows the
old place only.  `split` is history: it created a lock file of its own there.

**`DatabaseCopy`** is a read of an agent's SQLite database and the agent that writes
it.  The agent is SQLite as the code relies on it: `Begin`s, commits and torn
frames in a WAL of a generation, checkpoints page by page, restarts, rollback
journals, removal and replacement of files.  The reader takes one of three ways:
the family snapshot of `snapshot.py`, the clone with a validated WAL prefix of
`sqlite_cow.py` and `sqlite_wal.py`, and the live read transaction.  A page is the
number of the write that made it, and a frame says which frame it follows, so a
chain of checksums is a chain of frames.  `db` and `seen` are history.

**One module per agent** says what an adapter makes of what the agent left:

| Module | Adapter | What it is about |
|---|---|---|
| `CodexRollout`, `CodexStore` | `codex.py`, `codex_sqlite.py` | turns, rollbacks and compactions of a rollout, cut at its tail; state databases that lag beside rollout files |
| `ClaudeTranscript`, `ClaudeStore` | `claude.py` | the graph of nodes, boundaries, replays and side chains; project directories whose names are lossy |
| `GeminiChat` | `gemini.py` | messages written again, rewinds, full dumps |
| `QwenChat` | `qwen.py` | a tree of records written in fragments |
| `KimiStore` | `kimi.py` | the append-only index with tombstones; answers streamed in parts |
| `PiSession` | `pi.py` | a tree of entries and compactions that jump in it |
| `CopilotEvents` | `github_copilot.py` | the ancestry of the last public event through sub-agents' events |
| `OpenClawBranch` | `openclaw.py` | rows numbered by seq, parents by id or number |
| `GrokUpdates` | `grok.py` | updates, checkpoints with sidecars, ceilings |
| `OpenCodeStore` | `opencode.py` | two databases and a store of files; one session's parts in either |
| `AntigravityBrain` | `antigravity.py` | an optional index over a brain; two lanes of a conversation |
| `SqlSessions` | `crush.py`, `goose.py`, `hermes.py` | which rows a list scans, skips and cuts; latest and an exact id |
| `ClineStore` | `cline.py` | an index, manifests and message files |
| `CursorStores` | `cursor.py`, `cursor_live.py` | four kinds of store that may hold one session |
| `OpenHandsEvents` | `openhands.py` | directories of event files, read while they change |

Each defines its records (what the agent, or the system, may write), the operators
that the adapter's functions are, and properties as operators of a **log**, the
sequence of the records written.  The adapters keep nothing between two calls: what
they list and show is a function of what is on disk, so a state is a log, and a
step is one more line.  **`Sessions`** has that state (`store`, whose log it is, and
`log`) and steps (`WriteNext`; `FinishLine` completes a last line that was read half
written) and instantiates all of them.  Its properties are about every agent: each
is a conjunction of the modules' own properties, which say what it means there.

**The commands and scripts** are built the same way, with **`Commands`** over them:

| Module | Code | The log |
|---|---|---|
| `Reader` | `reader.py`, `select.py`, `time_range.py`, `workspace.py` | sessions written, and pages asked for |
| `Sweep` | `discover_doctor.py`, `search_sessions.py` | what happened to each source |
| `Budget` | `bounds.py` | charges, provisional copies, commits |
| `Handoff` | `sanitize.py`, `handoff.py` | the turns recovered, by size |
| `ProgramState` | `src/scripts/validate_program_state.py` | receipts, events, evidence, pointers and manifests written |
| `NativeEvidence` | `src/scripts/native_evidence.py` | a host's output line by line, or what went wrong |
| `WindowsInstall` | `install/transaction.py`, the path-based variant | commands with the number of effects that took place, edits, recoveries |

`WindowsInstall` is the same installer as `InstallTxn` and a different program: on
Windows it works by path name, uninstall has no journal, and a file is undone
whatever it holds.  A command there is a sequence of effects that is cut at any
place, by a kill or by an error that starts the rollback.

The modules `MCInstall` and `MCMulti` hold the instances for TLC that take more than a
cfg.  `InstallTxnProofs` (over `InstallTxn` and `InstallProps`), `MultiTargetProofs`,
`LockAndLeafProofs` (over `LeafOps` and `RootLock`), `ReadProofs` (over `StableRead`),
`DatabaseCopyProofs`, `WindowsProofs` (over `WindowsInstall`) and `CommandProofs` (over
`Commands` and all it is made of) hold the proofs.
`FoldLemmas` says what `FoldLeft` computes, for any operator, and where a sequence of
operations leads that is cut or has one left out; `CommandProofs` and `WindowsProofs` take
an instance of it for each operator a log, or a part of one, is folded with.

### Abstractions

- Paths, claims and contents are model values; digests do not collide.
  `package_identity` and the route metadata of a manifest are represented by the
  bundle's files.  Directories, modes, links and special files are left out.
- The classification of all files and the tests at the start of a command are one
  step under the lock; so is one file's re-classification and replacement in
  `CommitFile`.  `LeafOps` takes the latter apart.  The order of files is free;
  the code's is sorted.
- A crash is the death of the process.  Loss of power, which `fsync` is for, is
  not modelled: what was written stays.
- Control files (`journal`, `manifest`) are replaced atomically.  The stage and
  backup trees of a process that dies before its first journal write are never
  met again and are forgotten.
- `MultiTarget`: no forced installs, no journal left by an install that
  succeeded, no orphan that cannot be removed.  That an error or a death leaves a part
  of a file it was writing anew is `LeafOps`'; here it leaves none.
- `StableRead`: a chunk is what one `os.read` returns.  Splitting chunks into lines
  and the record counters, which are charged beside the bytes by the same rule, are
  left out, but for the decoding error that a mix of versions may cause.  A hash of
  what was read is what was read.  A path that is or becomes a link, and a budget
  shared between threads, are left out.
- Not modelled of the POSIX installer: rollback through a descriptor after the root
  was renamed, and `verify` (read-only).
- `RootLock`: an installer of the older version runs once.  The rewrite of a journal
  may fail, and the command goes on, as in the code (`RewriteFails`).
- `DatabaseCopy`: checksums do not collide, a page is written whole, sizes are pages
  and frames.  The `-shm` file, of which only the fingerprint is compared, has no state:
  once the agent has acted a reading of the family may find it changed or gone
  (`FamilyLost`), and an agent that only reads is not told from one that writes.  The
  Windows path and links at the names are left out.
- The agents' modules: a record is what the reducer looks at.  A text is a mark or
  a size, time is the place in the log unless the code orders by a field that may
  differ from it, identifiers do not collide, and every line parses unless it is
  `torn` or damaged.  File and byte ceilings are small constants.  A transcript is
  read in one piece: that a read is of one moment is `StableRead`'s and
  `DatabaseCopy`'s.  Only `OpenHandsEvents` interleaves the agent with one show,
  as that reads many files.
- `ProgramState`: hashes and sequence numbers are the positions they stand for; one
  writer, which may be cut short between two files.  Receipts may name any statuses,
  issues and owners, as nothing but the replay looks at these; one operation stands for
  all that the validator does not know.
- `NativeEvidence`: a line is its kind and quoting depth; what was asked of the host
  is one session.
- `WindowsInstall`: no `--force-with-backup`, edits fall between commands, one fault
  and one edit per history; directories are left out.

## 4. The runs

Users, errors and crashes strike where `UserPhase`, `FaultPhase` and
`CrashPhase` say: a run's cfg lists them.  A phase is left out only where a
finding of section 6, or a window named below, would hide everything else.

| Run | Instance | Shows |
|---|---|---|
| `install_atomic` | 2 processes, 2 claims, 2 files of which both claims own both, 2 releases, generations to 2, 1 crash, 1 error | the root moves atomically through all interleavings; journals, locks, snapshots and claims are right at every step |
| `install_upgrade` | 1 process, a bundle that drops a file, generations to 3, forced or not, 1 crash, 1 error, fair | orphans go only with their last owner, copies of users' bytes survive every clean-up, a journal is always cleared |
| `install_edits` | 1 process, a user who edits twice, 1 crash, 1 error | uninstall, its rollback and its recovery never destroy a user's bytes |
| `multi_atomic` | 2 processes, 2 roots, overlapping requests, one of which moves a shared root to a new release and a second root with it, 1 crash, 1 error | no deadlock; every root or none; no root in disagreement with its manifest |
| `multi_edits` | 1 process, 2 roots, requests in both orders, a user's edit, 2 errors (the second may hit the compensation), 1 crash, in the compensation too | compensation touches users' bytes only to write the checkpoint's own anew, and never reports a clean rollback that was not |
| `leaf_ops` | 3 calls, 2 shipped and 2 user contents, 2 edits, 1 error, 1 crash | each primitive is one step on its path |
| `read_stable` | 5 reads, 2 attempts, files of 1 to 3 chunks with a limit of 2, 3 agent actions, 2 inodes, a clock that does not tick | no read mixes versions, fails or is refused without cause, or charges twice |
| `database_copy` | 3 ways to read, 2 attempts, 2 pages, 3 frames, 4 steps of the agent | what is read is the content of one commit; a refusal, be it busy or unsafe, has a cause |
| `root_lock` | 2 commands, 1 installer of the older version, hard links, 1 crash or error (a journal that cannot be rewritten among them), fair | one process inside, across the move of the lock file itself; nothing lost; the move ends |
| `sessions` | 3 sessions (one of another directory), 4 ids, ceilings of 1 to 3, logs of 3 to 6 lines by store | what is listed and shown is what was written, in 26 kinds of log (`ShownBranchIsLive`, `ShownIsFaithful`, `NothingIsHidden`, `ExactIdIsFound`, `ListIsTrue`) |
| `commands` | 3 sessions, 2 sources, issues and owners, logs of 3 to 7 steps by command | answers are complete, claims are earned, a Windows root can be repaired (`AnswersAreComplete`, `ClaimsAreEarned`, `WindowsRootIsSafe`) |
| `staging_fault` | as small as shows it | the disagreement of section 6 |

Why the bounds are enough.  A lost update needs two processes and two
generations; a shared file needs two claims; a journal applied at the wrong time
needs one crash and another command.  Two generations let a claim be installed,
shared, upgraded or removed; three let an upgrade that drops a file be followed by
one that restores it.  One error and one crash together include a rollback that
dies and one that fails half way, and then a recovery over what it left.  Two
edits let a user change a file both before and after it was looked at.  A third
process, file or claim would only repeat what two do, as none of the conditions
in the code counts them.  `CHECK_DEADLOCK FALSE` is set because all commands may
be refused (a conflict stays until a user removes it) and because counters reach
their bounds.

For `read_stable`: a clock that stands still is the worst case for `OneMoment`, as a
stamp that moves only makes comparisons fail; the clock that moves is the
theorem's.  A mix of two versions needs two chunks; that the middle and the
last reading are both needed shows with three writes that do not move the clock.
The sizes include a file that head and tail both cover, one that has to be cut to
a window and one over the limit; the second call starts with a budget that is
partly used.  Three is also the most the code can bear on such a clock: with four
writes within one tick TLC finds a head window that was never a whole file (the
file grows before each reading and shrinks back after it).  A file system whose
`st_mtime_ns` moves with every write excludes that, and then the number of writes
does not matter (`ReadsOneMoment`).

For `database_copy`: a mixed copy needs two pages of different commits; a stale WAL
needs a restart (two generations); four steps of the agent are a commit, a
checkpoint, a restart and a commit within one attempt.  The clock ticks with every
write, as a copy that is taken in parts is told from a whole one by nothing else.

For `root_lock`: the second command waits for the lock while the first one moves it,
the third process opens the old name at any moment, and the crash leaves any prefix
of the move.  `Mutex` and `MovedBefore` end where `split` begins: an installer of the
older version that finds no lock file makes one of its own, and no code of this
version can keep it out (section 6).

For `sessions` and `commands` the length of a log is the bound, and it is chosen per
store: it is the shortest at which the case a property is about occurs with one
record to spare for the record that disturbs it.  A fork is three lines and its
continuation one; a tail that starts behind a rollback's target is four; a stale
index is a row, a file, a change of the file and a state of the index.  Three
sessions are two that compete and one that should not be there.  The ceilings are 1
to 3 so that they are reached.  A history of the Windows installer is two installs
and a fault, an edit or a recovery between them; a program of one issue needs seven
records until it is validly complete, and two owners or issues meet within four
receipts.  A write between two pages, a last page that ends the paging and a session on
either side of the cursor are seven steps of `Reader`, which is why it is given the most.

`RollbackMaterial`, `ManifestMatchesDisk` and `RootIsAtomic` are about roots
nobody edits while a command runs (`MaxEdits = 0`), as a file the user changes
under an installed claim makes them false without any fault of the code; what
users are owed then is `UninstallKeepsUserData` and `UndoKeepsUserData`.

**Fairness** (`install_upgrade` and `root_lock`).  In `install_upgrade`: a command that runs goes on (weak
fairness of `Advance(p) \/ Fail(p)`): it is straight-line code.  A planned command
gets the lock or gives up at its deadline (weak fairness of
`BeginInstall \/ RefuseInstall` and of `RefuseRecover`): `RootLock` polls until a
deadline.  Whoever sees a pending journal runs `recover` again and again (strong
fairness of `ProbeRecover` and `EnterRecover`): it is what the error
E_RECOVERY_REQUIRED tells the user to do.  The program itself never schedules a
recovery.  `Crash`, `Fail` by itself and commands that make journals have no
fairness.  In `root_lock` every process has weak fairness of its own
steps, of leaving and of being run again (`Enters(p) \/ Exit(p) \/ Again(p)`): straight-line
code under a lock that is polled, and users who run a command again that was refused
or died.  Errors, crashes and the start of the older installer have none.  The other runs check
safety only: an adapter or a reader is a function of the disk and waits for nothing.

**Windows** (`WindowsShut` in `LeafOps`).  Between the last look at a path and the
rename over it (phases `back`, `replace`, `publish`) another program's write is
lost; POSIX has no portable call that closes this window, and the comments say as
much.  While a leaf is quarantined (`hash` to `back`) the death of the process
leaves the only copy under a name nothing looks for; between the unlink and the
new file of a rewrite (`create`, `fill`) an error or a death leaves no file, or a
part of one.  The checkpoint or the quarantined file still has the bytes.
`LeafIsAtomic` is checked with nobody striking in these phases, and proved from
that assumption.

## 5. The proofs

All proofs hold for every number of processes, roots, paths, claims, contents,
bundles, pages, frames, writes, errors, crashes and edits, and those of `Commands` for
logs of any length, any sessions, sources, issues and owners, and any ceilings.  The assumptions on the
constants are those of the modules: `ContentAssumption` and `BundleAssumption` (shipped
and user contents are apart from each other and from "nothing"; there is a bundle, and
its files are shipped contents), `BoundAssumption`, `RequestAssumption` (requests are
non-empty, roots are numbered by the canonical order), `LeafAssumption`,
`LockAssumption` (processes of the two versions are apart), `ReadAssumption`,
`CopyAssumption` (room for the two pages and two frames of the databases of `Init`),
`IdAssumption` (session ids are numbered from 1 for their order, there are finitely many
of them and of sources, and 0 names no issue) and `CeilingAssumption` (ceilings are
numbers, and a page has room for a row, as `--limit` demands).

Where a theorem needs more, it says so:

- `QuietRoot` (`InstallTxnProofs`): nobody edits the root; no error before the snapshots
  are complete, which is the finding of `staging_fault`; and where a bundle can drop a
  file of another, neither error nor death between the removal of orphans and the
  publication, which is the next finding of section 6.  Both are moments at which the
  code does lose files, so the theorems would be false with them.  Where all bundles
  have the same files, the last part asks for nothing.
- `Calm` (`MultiTargetProofs`): nobody edits the roots and compensation itself is not cut
  short; and at most one error, or no request in which two hosts share a root.  With a second error `RootConsistent` is false: the first host's install of
  a shared root succeeds, the second one's breaks off and leaves a journal,
  compensation restores the first one's checkpoint without looking at journals
  (4651-4660), and `recover` later puts the bytes of the first install back (section 6).
- `WindowsShut` (`LeafRefines`), "fill" in `NoTornName`: section 4, Windows.
- `Ticks \subseteq Nat \ {0}` (`ReadsOneMoment`): each write moves `st_mtime`.

| Theorem | Argument |
|---|---|
| `TypeCorrect` (`InstallTxn`) | by induction; one lemma per action |
| `MutualExclusion`: `LockDiscipline` | inductive by itself: every action keeps the holder's phase in `Locked`, takes a free lock, or leaves both |
| `UninstallIsHarmless`: `UninstallKeepsUserData` | needs `UninstallInv`: an uninstall's journal, on disk and in memory, never names a user's bytes as an original, because only digests the manifest recorded are snapshotted; then no step of an uninstall, its rollback or its recovery writes over or removes a user's bytes |
| `JournalBelongsToCommand`: `JournalIsCurrent` | needs `CallInv`: from the plan's check under the lock on, the manifest, and the journal once it is written, are those of the command (`CallOf`, `JournalOf`) |
| `NoClaimIsLost`: `NoLostClaim` | from `CallInv`: what is published is computed from the manifest on disk, and `WithClaim` and `WithoutClaim` spare the other claims (lemmas of `Ownership`) |
| `ManifestIsTrue`: `ManifestMatchesDisk` | needs `TxnInv`: `Recorded` (what the root stands for is what the manifest records), `JournalUsable` (a pending journal can be undone) and `MemInv`, which says for each phase how the command's copy of the journal agrees with the one on disk, entry by entry, and what is snapshotted or placed |
| `RollbackIsPossible`: `RollbackMaterial` | from `TxnInv` |
| `RootMovesAtOnce`: `RootIsAtomic` | from `TxnInv`: `Stands(f)`, what undoing restores, moves only in the step that publishes, and there by one `Install` or `Uninstall` of `AtomicRoot`; all other steps stutter |
| `ForcedBytesAreKept`: `ForcedBackupKept` | needs its own `CopyInv`: what a copy was made of is what the path still stands for; only a rollback that put the originals back deletes its tree |
| `MultiTypeCorrect` (`MultiTarget`) | by induction; a process that restores has a checkpoint |
| `NoDeadlyEmbrace`: `NoWaitCycle` | needs `LockInv`: a locking process waits only for roots above those it holds, idle processes hold none, working ones all of theirs; in a set of processes consider the one that holds the greatest root |
| `CompensationIsHarmless`: `UndoKeepsUserData` | from `LockInv`: the roots of a command's checkpoints are locked by it, so no other command writes there, and a restore unlinks only allowed digests; needs `FileMemory`: what it has unlinked and not yet written is a file of the checkpoint it is at, and no checkpoint is done before that is written |
| `AllOrNothingHolds`: `AllOrNothing` | needs `WorkInv`: the checkpoints of a command unwind to what it found at its start (`Stack`), edits apart, even where several are of one root |
| `RootsKeepToManifest`: `RootConsistent` | needs `CalmInv`: each root, each checkpoint, and what each journal left would restore, keep to a manifest |
| `LeafTypeCorrect` (`LeafOps`) | with `CallInv`: which primitive is in which phase, with which arguments |
| `NoTornName`: `NoTornLeaf` | needs `TornInv`: only the rewrite of a checkpoint's file has a part of it under the name, between `create` and `fill` |
| `LeafRefines`: `LeafIsAtomic` | needs `IInv`: what the sibling and the path hold in each phase (`FileInv`); each step is one of `AtomicLeaf` or none |
| `LockTypeCorrect`, `OneInside`: `Mutex` (`RootLock`) | `LockInv`: who is inside has a lock file open and holds its `flock`; until `split` there is at most one lock file, whichever names lead to it |
| `MovedBeforeIn`: `MovedBefore` | `MoveInv`: each step of the move has the entries before it behind it, and a crash leaves a prefix; the journal's names are right unless their rewrite failed |
| `NothingIsLost`: `NothingLost` | action by action: an entry that leaves the old place is at the new one |
| `ReadTypeCorrect` (`StableRead`) | by induction; the places an attempt reads lie within the pinned size, what it charges is a number within the budget |
| `ReadsOneMoment`: `OneMoment` | needs `MomentInv`: some version seen under the name is pinned, the file holds it as long as the stamp is the pinned one, and then all that was read so far is of it |
| `EachChunkChargedOnce`: `ChargedOnce` | needs `PlacesInv`: the first reading has gone through the first places in order, and when all comparisons agreed, through exactly those of the pinned size; head, tail and body of that size, counted once, are the charge |
| `EveryFailureHasCause`: `FailureHasCause` | needs `QuietInv`: while the agent has not acted, the pinned file is under the name, what was read is of it and every comparison agreed, so that no retry or refusal is enabled but the one for size |
| `CopyTypeCorrect` (`DatabaseCopy`) | part of the invariant (`DiskTypes`, `ReaderTypes`) |
| `ReadsOneCommit`: `OneCommit` | see below |
| `ClaimsEarned`: `ClaimsAreEarned` (`Commands`) | needs `ClaimsInv`, see below |
| `AnswersComplete`: `AnswersAreComplete` (`Commands`) | needs `AnswersInv`, see below |
| `WindowsIsSafe`: `WindowsRootIsSafe` (`Commands`) | needs `WindowsInv`, see below |
| `FailuresHaveCause`: `FailureHasCause` (`DatabaseCopy`) | `CleanInv`: while the agent has not written, what the reader pinned is what is there, so the checks at each step succeed |

`ReadsOneCommit` is the longest.  Its invariant `CopyInv` has a part for the agent and
one for each way to read.  `DiskInv` says what SQLite keeps true: the main file with
the committed frames of the WAL over it is the database (`Covers`, of which the lemmas
say that frames already written back, or frames that do not commit, change nothing),
frames of a generation are one unbroken chain, and every stamp was given by a step
taken so far, so that a fingerprint met again means that nothing happened to the file.
`FamilyInv`: once main file and WAL were found unchanged after the copies, the copy with
its frames is a state that was committed in between.  `CowInv`: as long as main file, WAL
and generation are still those pinned (`Linked`), the clone, which may have
missed a checkpoint, becomes a commit by the frames of any commit since it was taken
(`Replayed`); the second reading of the prefix, with the final checks, leaves only
prefixes that reach such a commit.  `LiveInv`: a read transaction on a main file that is
not in WAL mode holds the lock that keeps writers out.

A state of `Commands` is a log, and what a command makes of it is mostly a fold, so these
proofs are inductions over the log: `FoldAppend` of `FoldLemmas` says what one more record
does to a fold, and the invariant says what the fold has become so far.  The induction
behind `FoldAppend` itself is one over the length of a sequence, made with the least
counterexample of a well-founded order, as the library's induction theorems take an
operator for their argument.

- `ClaimsInv` is `ReplayInv` for receipts and for a program, of a log the replay accepts
  so far, and has two parts.  `ViewInv` is about the view: it names what each receipt of
  the work so far names, or nothing, unless the program went idle and acquired anew since,
  or an unguarded receipt named another owner or issue; an acceptance in it comes from a
  receipt that said so; and its issue was entered (`Enters`): acquired, named by an
  unguarded receipt, or by the first one that says where the program stands, whose word the
  validator takes.  `PastInv` is the same of the receipts among themselves: of any two of
  the work, and of each release, which was accepted and of an issue entered before it.  A
  host's output and facts need no invariant: what `NativeEvidence` accepts is shown to come
  from one block of the output.
- `AnswersInv` has four parts.  `PagesInv`: a row that stood still since the first page was
  shown already or is still behind the cursor, and those shown came in order (the order of
  rows is shown to be total, so that a next page begins where the last one ended), unless a
  page said W_TRUNCATED; all rows shown rise, but for one that comes again at once
  (`Rises`), and the last two of a page differ where a page has room for two
  (`EndsIn`), so that the next cursor has fewer rows behind it.  For the sweeps the rows of
  a source are shown to be its last writes, whatever happened to others.  `BudgetInv`: a
  copy differs from the counters it was made from by what it was charged (`Balanced`), so
  that a commit, which adds that difference, admits those charges once; what was used is
  what was admitted so, and within each limit.  For the handoff the log is of turns, and the rest is about
  operators: `SaneInv` (the turns kept are the first ones and whole, unless the warning was
  given), `HalveInv` (the search by halving: all above `hi` do not fit, and the distance to
  `lo` shrinks with every step, so that it ends at the greatest number that fits), and that
  the document rendered from them fits its ceiling.
- `WindowsInv` is about a log of commands, each of which is a fold of effects in turn.
  For an install `Settled` names where it may have left the disk: as it was (`Back`), with
  a journal from which it can be undone (`Halfway`), with the manifest published and the
  journal still there (`Over`), or finished (`Through`).  Every prefix of its effects ends
  in one of these, a failure at the next effect ends in `Back` once the journal is
  written, and a failed unlink only leaves its file; these are shown part by part, one
  path after the other, and joined by the lemmas about `Leads` and `LeadsWithout` of
  `FoldLemmas`.  Recovery that is cut short or cannot reach a file keeps `Settled`, and
  one that can ends in `Back` or `Through`.  `WindowsInv` says so of the last install
  (`InstallAt`), and that in a log without failures, or undoings along with edits, the root
  is `Right`: what its files hold is the manifest's or the user's, or will be once the
  journal is undone.  The last needs copies and originals to be right too, which is why it
  is not an invariant by the files alone.  The theorem is about the
  histories of `NextRecords`, with one fault and one edit at most; the proof takes the
  records for what they are and makes no use of that bound.

Only model-checked: `JournalIsCleared` of `InstallTxn` and `MoveEnds` of `RootLock`
(liveness, with ENABLED in its fairness, is beyond the prover); and everything of
`Sessions` and the modules it is made of, for the reasons of section 2.
What the theorems state only under `QuietRoot`, `Calm` and `WindowsShut` is checked by
the runs under the same restrictions.

## 6. Findings

With a run:

- `staging_fault`: an I/O error while a re-install is being staged makes its
  rollback delete installed files, because the journal entries do not say yet that
  the files existed (`install/transaction.py:3302-3306, 5066-5075`).  The Windows
  variant records the same (`3616-3626`).

The others were met while modelling.  No run reproduces them: the phases, bounds or
preconditions that exclude them are named where they are used.

The installer (`install/transaction.py`):

- Orphans are unlinked before the manifest is published, with no copy of them, and
  neither `_rollback_paths` (5013) nor `recover_root` reads `journal["orphans"]`: a
  process killed there leaves a root that `recover` calls clean while a listed file
  is gone.  The comment at 3449 says that the journal lists them for that purpose.
- With `--force-with-backup` a foreign file that is edited between its copy (3429)
  and its replacement loses the edit.
- Compensation unlinks every file of a checkpoint and writes it anew, the manifest and
  users' unchanged files included (4279-4311).  An error or a death in between loses that
  file: the snapshots are discarded as the command returns, also with E_RECOVERY_REQUIRED
  (4667-4671, 4680), and nothing reads them after a death.  `UndoKeepsUserData` says that
  this is the only loss and that it is reported.
- When the second claim on a shared root leaves a journal, the first one's checkpoint
  is restored over it, and a later `recover` puts files back that no manifest lists.
- The move back of a quarantined leaf overwrites one created after the probe
  (2584-2597).
- After a failed compensation `install_multi_targets` raises E_RECOVERY_REQUIRED even
  when no root has a journal; `recover` then does nothing and the next command
  succeeds (`src/docs/diagnostics.md:67` describes the code as a pending journal).
- An installer of the older version that finds no lock file makes one beside the one
  in `.state`, and both are then inside (503, 1207-1214).  One that waited for the
  lock may write a second manifest at the old place, which every later command
  refuses.  A lock file that is moved between the look and the open gives
  E_INSTALL_CONFLICT although nothing conflicts (1882-1884).
- On Windows uninstall has no journal: killed, it leaves a manifest that lists
  removed files until it is run again.  Rollback puts a copy back over an edit made
  after the commit (3857-3865).  Undoing a group's install restores the manifest
  first and stops at an edited file, so that files stay without an owner, and it
  unlinks a file that was not there before without looking at it (3966-3968).  Uninstall
  takes files out of the manifest and passes over an unlink that fails (3804-3813), so
  that the file stays and nobody owns it; so does the removal of an orphan by an install.
  `NothingLeftOwnerless` therefore exempts logs with a failed command.

Reading files and databases (`snapshot.py`, `sqlite_cow.py`):

- `stable_scan_lines` decodes while an attempt is still unverified, so a record read
  half before and half after a rewrite raises E_CORRUPT_RECORD (`snapshot.py:560`) at
  once, for a file no version of which is corrupt; and a file that is missing for an
  instant gives E_UNSAFE_PATH in every mode.  `FailureHasCause` shows that neither
  happens to a file nobody touches.
- A WAL that the last connection removes while the family is copied gives E_UNSAFE_PATH
  at once, where the same removal between two readings is E_SOURCE_BUSY and tried again
  (`snapshot.py:340, 1508, 1570`).
- A checkpoint that changes the main file's size between pin and clone raises
  E_INVARIANT, which is not retried (`sqlite_cow.py:672-682`).  Frames of an abandoned
  transaction make every clone E_SOURCE_BUSY until the WAL is restarted.

Listing and paging (`reader.py`, `time_range.py`, `select.py`):

- The cursor omits the provider, with which `summary_sort_key` ends, so the last row
  of a page comes back first on the next one although the comment says "strictly
  after"; with `--limit 1` paging never advances (`time_range.py:157-174`).  `PagesCover`
  says just this: no other row comes back, and longer pages advance.
- `--workspace` with a worktree or repository cannot add sessions, as the adapters
  filter by the exact directory already.  `--match` filters after paging.  `show` of an
  id that is not listed falls back to a search by text.
- `search_report` sorts with `reverse=True`, so hits without a date come first and push
  dated ones out at the cap; a session whose `show` fails is skipped without a word.
  `discover_report` cuts to its limit without W_TRUNCATED.
- `sanitize_session` keeps the oldest turns when the content exceeds its ceiling
  (flagged W_TRUNCATED), `handoff.py` the newest.

Single agents (`adapters/`):

- Codex: a user message recorded as both kinds counts as two turns for
  `thread_rolled_back`; an invalid count is ignored, where `src/docs/source-formats.md:8`
  says fail closed; a `source` that is an object raises TypeError in
  `_read_rollout_plain_stream`; with a busy newest index an older one is used (flagged);
  a stale index time may rank a recent session below the cut (flagged); the probe
  refuses a home without a usable database whose newest rollout is a sub-agent's
  (1467-1499).
- Claude: the windows a list reads may miss damage that `show` then refuses.
- Gemini: a full dump appends its ids without looking whether they are there
  (`gemini.py:568-571`), so a message is shown once more for each dump that holds it, and
  a rewind to it loses its target (532-534), which a later write brings back at its first
  place.  `ShownOnceInPlace` counts the copies and names this exception.  A torn last line
  makes the session vanish from the list and E_CORRUPT_RECORD on `show`; so does Copilot's.
- Qwen, Pi, Grok, Codex: one corrupt file fails the whole list.  Qwen: a line of
  metadata that straddles the windows is lost.
- Copilot: a session listed for a message on an abandoned branch is E_NO_MATCH on `show`
  (`ListedIsShown` says that this is the only such case);
  the scan stops at its cap before ranking.
- OpenClaw: `display: false` is honoured only when there is no text, and the branch for
  a visible custom message without a role cannot be reached.
- OpenCode: a session in both database and migrated files is listed twice, so that its
  id is ambiguous; orphan parts are warned of from the database and not from the files;
  a busy or unsupported database beside a readable one is skipped without a warning.
  `EmptyMeansNone` states both the copies and the silence.
- Antigravity: with a valid index, conversations it lacks are not listed; an indexed
  one with an empty transcript and nothing else fails the list; a transcript without
  header takes the query's directory for its own.
- Goose, Crush: rows are decoded before the directory is looked at, so one undecodable
  session of any project fails the list, and the scan's cap is applied before that too.
  Hermes, Cline: a reference that looks like an id is never searched for as a title.
- Cline: with a readable index, sessions it lacks are not listed; `show` does not
  compare the manifest's own id; an indexed session without messages is offered for its
  id and E_NO_MATCH on `show`.
- Cursor: of two stores the first format is taken, not the newest; a live CLI store of
  the directory hides the desktop database from an exact id; a busy desktop database
  is skipped without a warning, and its sessions may be crowded out by newer ones of
  other directories (`OwnIsListed` exempts these two); `_composer_data_turns` drops a text repeated by one
  role and stops at its ceiling without a word, so that the W_TRUNCATED of
  `_show_live_desktop` (`cursor_live.py:487`) is never given.

The scripts:

- `validate_program_state.py`: the first receipt that says where the program stands is
  believed: its status, issue, owner and acceptance seed the replay (1885-1899), so that a
  log may begin with a release of an issue nobody acquired.  Every issue a closing receipt
  lists counts as done, in `resolved_issues` of a release or a completion as in a
  completion's own fields (1183-1197), without a release of its own.  Operations the
  validator does not know are asked nothing, and go on even after completion.  Acceptance
  is not reset when an issue is acquired, so a release without the field inherits that of
  the issue before (958-967, 1966-1972), and other receipts (a checkpoint with `to_status`
  idle, blocked and resumed) may end an issue without any, or change its owner.
  `CompleteIsEarned` and `OneOwnerAtATime` name each of these ways and say that there are
  no others.
- `native_evidence.py`: a section further out that follows a quoted handoff counts as
  that handoff's recovered content.

## 7. What is not modelled

- The control schema, the command lines, the renderer, the catalog and the package
  contracts convert or look up data and keep no state; a document that fails a schema
  stops the command, which here is a conjunct that is false.
- `platform_fs` is system calls; what they promise are the steps of the models.
  Durability (`fsync`, loss of power) is not.
- `version_state.py`, `registry.py` and `build_identity.py` are tables of releases.
- Of the adapters: how fields are decoded, probing for versions, tool details and
  rationales, file and byte ceilings beyond a small constant.
- Of the handoff: redaction, escaping and the JSON form.
- Of the doctor: its report of the machine and the catalogue of errors.
- The other scripts under `src/scripts/` build, release and count; tests and the site
  were read as statements of intent.

The map covers what remains of the code when these are taken away; a model of the
rest would say again, line by line, what a table or a parser says.
