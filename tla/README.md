# TLA+ for lic: the runtime and the tools around the compiler

lic is the compiler of the Li language, written in C++, with a runtime in C that
compiled programs link, about seventy packages in Li, and some 160 Python scripts
that run its development: loops that hand a plan's todos to agents, a pipeline
that finds gaps in those plans, the configuration tools of the HTTP server, and
tools that rewrite the proof database, a ledger of claims and the studio's
library. This directory holds specifications of the parts whose correctness
depends on the order in which several actors act, on what a kill leaves in a
file, or on tools that rewrite one another's files; the TLC configurations that
check them; and proofs.

Sources are named relative to the repository's root.

## Inventory

| Part | State it keeps | Operations | Interacts with | What is hard, what makes it correct |
|---|---|---|---|---|
| Fork-join pool, POSIX (`runtime/li_par_pool.c`) | one global pool: team, one published job, two counters of the workers' progress, three condition variables, steal cursors | `li_par_pool_fork_join`, the worker loop, re-team, shutdown | compiled `parallel for`, reductions | Two consecutive jobs share one record: no worker may act on the wrong one; every index runs exactly once under four schedules; no lost wake-up; calls return |
| Fork-join pool, Windows (same file) | `jobs_remaining`, a job on the caller's stack | the same through Win32 pool callbacks | the same | The job must outlive its callbacks; the wake-up is sent without the lock |
| Scoped teams (`runtime/li_exec_plan.c`) | current team, stack of saved teams | push, pop, apply the program's plan | code that `compiler/mir/lower.cpp` and `compiler/codegen/emit.cpp` produce; the pool; the reductions | Loops in a block run on the block's team; blocks nest and restore |
| Reductions (`runtime/li_par_reduce.c`) | static parts and partial results, a thread-local accumulator | sums, `parallel for` with `reduce` | the pool | Shared static buffers; nesting |
| Distributed runtime (`runtime/li_dpar.c`) | rank, world, one socket for each peer | connect, barrier, block partition, finalize | processes over TCP | Order of connections; a rank that exits; deadlock of pairwise exchanges |
| Collectives (`runtime/li_dpar_collective.c`) | none | bcast, allreduce, scatter, gather, scan | the sockets above | No tags: operations must not read one another's messages; partial sums depend on order |
| Federated averaging (`runtime/li_fl.c`) | none | rounds with masks, time-outs, stragglers | the same sockets | A late answer arrives in the next round |
| Workspace check (`compiler/lic/workspace_check.cpp`) | running children, verdict | start a check for each package, reap | the check cache | Job limit; a child that dies by a signal |
| Check cache (`compiler/cache/check_cache.cpp`) | files named by a hash | load, store, evict | concurrent checks, edited sources | Stale keys; entries that are half written |
| Compiler front and back end (`compiler/lexer` to `compiler/codegen`, `compiler/verify`) | none between runs | one pass after another | - | Sequential functions |
| HTTP server and proxy (`runtime/li_rt_net.c`, `li_rt_httpd.c`) | connection slots, upstream pool, circuit breakers, queue, peer health, rate buckets | one event loop | packages/li-net-httpd | Counters and flags over many paths; half-open circuits; stale upstream sockets |
| TLS, HTTP/2 | library sessions | wrappers, frames | the server | - |
| Container runtime (`runtime/li_rt_container.c`, `packages/li-container-run`) | `state.json`, cgroup, pid | create, start, kill, delete, state | concurrent commands, the kernel | Crash between steps; unlocked state file |
| Access log (`runtime/li_rt_log.c`) | an open file | write, redact, rotate | the server | - |
| libernetes packages | none: stubs at this commit | - | - | - |
| Plan loops (`scripts/*-plan-loop.py`, eight of them) | a plan file, `state.json`, a checkout | pick, run an agent, rescue its commits, gates, record, push; `--mark-done` | agents, git, the operator, one another's plans | Kills between any two steps; two writers of `state.json`; commits of agents that left the branch; loops that never end |
| Swarm gap pipeline (`scripts/goal-directed-agents-snapshot.py`, `swarm-gap-ingest.py`, `swarm-gap-apply-actions.py`) | `snapshot.json`, `registry.yaml`, the backlogs | snapshot, ingest, reconcile, deduplicate, apply | runners at work on the same plans, research loops, an agent that closes rows | Everything is stale when it is used; rows must stay unique, settled and closed |
| httpd configuration (`scripts/*httpd*.py`, `schema_catalog.py`) | `li-httpd.toml`, `runtime.conf`, generated censor paths, a directory of keys | validate, flatten, set up censor and TLS, renew | somebody who edits the file; a renewal timer | Several reads of one file; two tools that check it with different code; key and certificate written one after the other |
| Proof database (`scripts/formalization`, `proof-db/erdos/scripts`) | catalog, specimens, register | bootstrap, enrich, de-stub, dedupe, fetch, overlay, sync | one another, through the files | The order they run in; what one keeps of another's work; kills |
| Lemma report (`scripts/proof-db/rebuild_lemmas.py`) | `AutoVC.lean`, two report files | build each lemma, count open goals | other builds, which write the same `AutoVC.lean` | A row must be about its own build |
| Claim ledger (`scripts/research-audit`) | `claims.jsonl`, reviews, specimens, an exported page | append, raise, compare, export | agents that append | Read, change, write back without a lock |
| Studio patches (`scripts/apply-ux*.py`, `finish-*`, `fix-*`, `build-*`) | `packages/li-studio/src/lib.li` | replace quoted passages | one another, through the text | Order, repetition, cut-off writes |
| Other packages, std, generators, benchmarks, build outputs | - | - | - | Numeric, graphical or textual work without shared state |

`PROJECT.json` lists the components with their files and status, and the hazards,
each at the line where it bites, with the properties that cover it or the reason
why none does yet.

## Modules

| Module | Models | Uses |
|---|---|---|
| `Partition` | the static block partition: the loop over the team and its closed form | |
| `ForkJoin` | what a call of fork-join promises: abstract | |
| `ParPool` | the POSIX pool | `Partition`, `ForkJoin` (refinement) |
| `WinPool` | the Windows pool | `Partition`, `ForkJoin` (refinement) |
| `TeamScope` | scoped teams and how a loop chooses its team | |
| `Dpar` | processes that connect, pass barriers and run collectives | |
| `LoopScripts` | the eight plan loops as lists of steps, with each one's picking, rescue and push | |
| `PlanLoop` | one loop at work: process, files, checkout, agent, operator | `LoopScripts` |
| `GapSwarm` | snapshot, ingest and application of gaps beside the runners | |
| `HttpdOracle` | what validate and flatten accept, and the lines flatten makes of a file | |
| `HttpdDeploy` | the tools as processes over the edited file, and the certificates | `HttpdOracle` |
| `CorpusText` | which rule makes the text of a row or a specimen | |
| `ProofDb` | the tools of the corpus and of the Erdos register | `CorpusText` |
| `RebuildLemmas` | the lemma report beside other builds | |
| `ClaimLedger` | the ledger's tools | |
| `StudioPatches` | the studio's patch scripts as rewritings of a text | |
| `MCParPool`, `MCWinPool`, `MCDpar`, `MCPlanLoop`, `MCHttpdDeploy` | constants of the runs | |
| `MCProofTools` | constants, and five modules side by side | `ProofDb`, `RebuildLemmas`, `ClaimLedger`, `StudioPatches`, `GapSwarm` |
| `PartitionProofs`, `ParPoolProofs`, `WinPoolProofs`, `DparProofs`, `PlanLoopProofs` | proofs | the module they are named after |
| `HttpdProofs` | proofs | `HttpdDeploy` |
| `ToolProofs` | proofs | `ClaimLedger`, `RebuildLemmas`, `GapSwarm`, `StudioPatches` |
| `CorpusProofs` | proofs | `ProofDb` |

### ParPool

One caller thread and a team of workers. `mpc` and `wpc` are their program
counters; `initialized`, `team_size`, `shutdown`, `jobs_pending`, `batch_size`,
`workers_done`, `workers_ready`, `schedule`, `job_trip`, `job_next`, `job_chunk`,
`batch`, `steal_cursor` and `steal_end` are the fields of `LiParPool`; `call`,
`local`, `begin` and `end` are the threads' locals.

Every critical section is one action, from a lock or a wake-up to the unlock or
the next wait; code between critical sections has steps of its own. `main_wait`
and `work_wait` are the wait sets. A waiting thread tests its condition again
only after a broadcast or a spurious wake-up took it out of its set, so lost
wake-ups are visible. Several unlocked reads that the code makes of the
published job are read where they are used: `NoStaleWorker` is what makes that
right.

A call starts at index 0: `start` only shifts the indices. A body does not call
the pool, and threads are created when asked for.

### WinPool

The caller submits one callback for each member of the team, runs one itself
where no work object can be created, and sleeps on `join_cv`. The callbacks
count `jobs_remaining` down and wake the caller without `join_lock`, so the
caller's test (`TestJoin`) and its sleep (`Sleep`) are two steps and a callback's
decrement (`Finish`) and its wake-up (`Wake`) are two. What the code does under
`join_lock` waits while the caller holds it (`LockFree`). Closing a pool waits
for its callbacks (`NoCallbacks`), which is what
`CloseThreadpoolCleanupGroupMembers` does.

### TeamScope

`Push` and `Pop` are the calls the compiler puts around a block (`TeamBlock` in
`lower.cpp`); `ParallelFor` and `Reduce` choose a team with what the compiled
code passes (`Baked`).

### Dpar

`job` chooses the world, the root, the program that all ranks run and how many
ranks may give up connecting. `Listen`, `Connect`, `Accept`, `GiveUp` and `Ready`
are `li_dpar_init_from_env`: `fd[r][p]` is the rank that is really behind the
socket r takes for p. An operation is a sequence of sends and receipts (`Step`);
`Sending` and `Receiving` run one of them, `Advance` goes to the next operation.
A number is modelled by how often each rank's local value is in it, which tells
a sum that is right from one that counts a rank twice or leaves it out. The wire
has no tags; `of`, the operation a message belongs to, is a history field that no
action looks at.
A rank that sends to a peer that is gone goes on or is killed by SIGPIPE; a
receipt from such a peer fails and the code ignores it. A channel holds whole
values: the loops of `li_dpar_send_all` and `li_dpar_recv_all` are not taken
apart, and channels do not fill. Data that TCP drops when a connection is reset
is not modelled.

### LoopScripts and PlanLoop

The eight scripts are variations of one program, so each is data: `HttpdMain` to
`SwarmMain` list its steps in the order of its `main`, `HttpdPick` and the others
translate how it chooses the next todo, `...Recover` and `...Push` what its git
calls do to the checkout, `...Codes` what its agent may exit with and
`...Deadline` when an agent has a time limit. `PlanLoop` runs such a list: `pc` is
the step, and each action is one kind of step, so that a step that comes at
another place in another script is the same action. `disk` is `state.json` and
`mem` the process's copy of it; `passed` holds the todos whose history entry says
exit code 0 and passed gates. A checkout is which branch is checked out, whether
it is dirty, which branches are ahead of their remote and which lost commits.
`Kill` may come at any step. In a step that saves it may leave a `state.json` that was
truncated and not written (`Torn`): its records are gone and no loop can load it. In a
step that marks a plan it may leave a plan file without its last entries (`TornPlans`).
The operator's `--mark-done` is one action for its read, one for its write and, for the
world loop, one for its write of the plan; it may be killed inside each write
(`MarkDoneKilled`). `recorded` is a history variable: every record that was ever written.
Only the loops' effect on state is modelled: the text of instructions, reports
and pages is not, and gates pass or fail.

### GapSwarm

A todo is an id under a number of mirror prefixes. Runners work on `plan`, which
for a runner in `shared` is the file that the pipeline writes (`copy`). A
snapshot reads plan and state of one runner after the other (`ReadPlan`,
`ReadState`); `Ingest` is what `swarm-gap-ingest` computes, and `SaveRegistry` or
`TearRegistry` its write. The apply runs after it whatever became of it
(`IngestFails`). It takes the backlogs of its rows one by one: `ReadBacklog` reads
the whole file and sets the todos to pending in memory (`held`), `WriteBacklog` puts
that text back over what was written meanwhile, and `TearBacklog` is a write of it
that is cut off. `cleaned` says that an ingest has written the registry once. The
order of row ids that decides which duplicate stays open is a choice. Of a file that was cut
off the rows or todos before the cut are left, whole ones: one that is cut in two counts
as gone. A runner reads and rewrites its own plan in one step.

### HttpdOracle and HttpdDeploy

`HttpdOracle` has the checks and the conversion as operators over a record of what
they look at: a number is a value, missing (`None`) or garbled (`Bad`), an
address is public, loopback or private. `OracleOk`, `FullOk`, `SitesOk`,
`ValidateOk` and `FlattenOk` follow the calls of the scripts, `Flat` gives the
lines of `runtime.conf`: of the address only its ports, so that the server, which binds
every address, listens to the world (`ListenAddress`). `leak_censor.generated.toml` is
parsed by the checks of the censor and by flatten's reading of the file: without it
there are no paths (`None`), one that does not parse is an error (`Bad`).
`HttpdDeploy` has one action for each read of the file, and its verdicts (`accepted`,
`refused`) are kept with the file and the generated file they are about:
`shell.data` is the file at the first read and `shell.same` whether later reads
saw it too. `setup` holds the two setups that may run on the directory of keys,
one of them a renewal; each file they write is a step, and each may be killed.

### CorpusText and ProofDb

A text is the rule that made it, with the row it was made for; `CorpusText` has the
rules in the order in which the scripts try them. What `de-stub-catalog.py` writes
to a specimen's header is the catalog's statement with its backslashes doubled
(`InHeader`), for those statements that have some (`Latex`). A tool of `ProofDb` is a list of
writes computed from the files as it found them, since each reads everything
before it writes; `WriteOne` does the next, `Kill` drops the rest and may cut off
the file at hand. `trail` is the list of tools that ran.

### RebuildLemmas and ClaimLedger

`RebuildLemmas` takes one step for each of unlinking `AutoVC.lean`, building,
counting and the two files of the report; `OtherBuild` overwrites `AutoVC.lean` at
any time. `disturbed` has the places of the entries during whose build it did, and a
row says which specimen it is about. `ClaimLedger` has the reads and writes of each tool of the ledger as
steps of their own, all at work on the same files.

### StudioPatches

A text is the passages it has, its version of the shell's painter, how often a
function is defined in it and its version number. An edit is the passage it looks
for, the mark that keeps it from being made twice, what it takes away and what it
puts in. A script is a list of edits and the condition under which it gives up, and
what it will write is a list of texts. A kill inside a write leaves the part of the text
before some place (`PartsOf`; the places are `Cuts`), except for `finish-ux04-ux07.py`,
which writes beside the file and renames. `broken` says that the library was made from
such a part and has not been rebuilt since.

### MCProofTools

The tools of `ProofDb`, `RebuildLemmas`, `ClaimLedger`, `StudioPatches` and `GapSwarm`
share no files, so a behaviour of its specification is about one of them: `part` says
which, and the others stay as they are. The gap pipeline is two parts, with mirrors in
its files and with gaps to competitors, which never decide about one another.

## Runs

| Run | Bounds | Checks |
|---|---|---|
| `ParPool_safety` | team and trip up to 3, chunk 2, 2 calls, all schedules | `TypeOK`, `NoStaleWorker` (a worker in a job works on the published one), `Quiescent` (between jobs all are back at the top), `NoMissedWakeup`, `EachIndexOnce`, `NoSpinning`, `ImplementsForkJoin` |
| `ParPool_liveness` | the same, `steal` only | `CallReturns`, `ImplementsFairForkJoin` |
| `WinPool_safety` | the same as the first | `TypeOK`, `JobOnStack` (no callback outlives its job), `Accounted` (`jobs_remaining` counts the callbacks), `ImplementsForkJoin` |
| `WinPool_returns` | team and trip 2, static, 1 call | `CallReturns` is violated |
| `TeamScope_loops` | 4 cores, depth 2 | `LoopsInScope` is violated |
| `Dpar_collectives` | 2 to 4 ranks, programs in `SoundJobs` | `BarrierWaits`, `FramesSound`, `AllreduceSums`, `RootDelivers`, `GatherPlaces`, `ScanSums`, `Completes`, `Connects` |
| `Dpar_allreduce` | 3 ranks, one allreduce | `AllreduceSums` is violated |
| `Dpar_labels` | 3 ranks, one gather at rank 2 | `GatherPlaces` is violated |
| `PlanLoop_loops` | 2 todos, the environments in `MCSettings`, all eight loops | `RecordsSound` (what is recorded as completed passed the gates), `CompleteMeansDone`, `CommitsKept`, `NothingForgotten` (a `state.json` that can be read has every record), `LoopEnds` |
| `HttpdDeploy_tools` | about seventy files, 1 edit, 3 tools started | `FilesSound`, `ConfSound`, `AcceptedFlattens`, `CertWhole` |
| `HttpdDeploy_address` | the same | `OffLoopbackHasTls` is violated |
| `ProofTools_scripts` | 3 corpus tools, 4 register tools, 2 reports and 2 other builds, 5 ledger steps, 3 patch scripts; of the gap pipeline one runner, one cut-off write, and one id with a mirror or with a competitor gap beside it | `CorpusSound`, `ErdosAgrees`, `ReportFresh`, `LedgerKept`, `LibKept`; `TypeOK`, `OneOpenRow`, `Reconciled`, `ClosedStaysClosed`, `NotReopened` of `GapSwarm` |

Why the bounds are enough. Two calls are what it takes for a job to meet what
the one before it left behind, with another team, another schedule or a shutdown
between them; a third call meets the same states again. A team of three has a
worker that is neither the first nor the last at a threshold, and a thief with
two victims. A trip of three with a chunk of two has a last chunk that must be
cut and fewer iterations than workers have room for. The liveness run keeps to
`steal`, the only schedule with a loop that may retry without progress. A world
of three is the least in which a rank accepts two connections and in which
partial sums are sent back; four gives ranks on both sides of a middle one.

`SoundJobs` holds the programs for which the code is right: everything in a
world of two, barriers in larger worlds with ranks that exit, and the sequence
of `runtime/test/li_dpar_collective_smoke.c` with root 0. In larger worlds an
allreduce and a root other than 0 meet the two violations.

Two todos are enough for a loop: it works on one at a time, and a choice needs
another to prefer. The plans have one todo that is in progress, which some loops
prefer and others do not, and labels that put each todo in and out of each loop's
scope. Rows and todos of different runners of the gap pipeline never meet, so one
runner stands for each; the id with a mirror is what makes two rows for one todo. The
rows of a competitor gap have no todo of a runner; they come in behaviours without mirrors.
A file of `HttpdDeploy` is one of four that every tool accepts or differs from one
of them in one respect, and the edit goes from a file to its neighbour: the tools
look at one respect at a time. Three tools are a validation, a flattening and a
setup, or two setups and a flattening. The migrations of a database grow only
while the file has a censor. Tools of the proof database are killed and run in
sequence, three of the corpus and four of the register, since an effect of one on
another passes through at most the files of two. The tools of the ledger run at
the same time. The patch scripts start from the text that `apply-ux07-li-studio.py` quotes,
the one that `apply-ux08-viewport-error.py` quotes (with a painter or without), today's, or none. A
write of the library is cut off at its beginning or at one of two places (`MCCuts`): after
the declarations of the errors, and after their overlay, so that each of the two may be
there without what follows.

Deadlock is not checked where programs end: the callers' calls are bounded, and
a distributed job is done or waits for a rank that exited.

### What the violated runs show

- **`HttpdDeploy_address`**: TLS is required off loopback, says
  `docs/testing/webserver-security.md:25`. A file that asks for a loopback address passes
  without TLS. `flatten-httpd-config.py` writes its port only, and the server binds that
  port on every address.
- **`WinPool_returns`**: the last callback brings `jobs_remaining` to 0 and wakes
  the caller between its test and its sleep. It then sleeps for ever.
- **`TeamScope_loops`**: `parallel for` takes the host's team, not the block's,
  because `li_parallel_for_i64` replaces a team size of 0 before the pool's own
  default is looked at. A `reduce` does use the block's team.
- **`Dpar_allreduce`**: from three ranks on, a partial sum is exchanged again and
  contributions are counted twice.
- **`Dpar_labels`**: accepted sockets are filed in the order they arrive in, under
  the wrong rank if two peers connect in the other order.

`RootDelivers` and `GatherPlaces` leave one value out: a root other than rank 0
copies its own slice to the front of a gather's buffer (`li_dpar_collective.c:181`),
where the slice of rank 0 then overwrites it, and takes the first slice of a
scatter for itself (line 147). `Dpar` models that, and `InPlace` names it.

### What the passing runs leave out

Some properties have an exception, each a place where the code does not keep what
its neighbours keep. They are stated in the properties and listed as hazards.

- `RecordsSound`: the compiler loop runs no gates after its agent.
- `NothingForgotten`: `--mark-done` and a running loop overwrite one another's
  `state.json`; the property holds as long as their copies did not overlap. A write that
  is cut off loses every record, and `json.loads` raises in every later start; what the
  property says is that nobody takes the file for one without records and writes a new one.
- `CompleteMeansDone` says nothing after such an overlap, nor while `state.json` cannot be
  read; an entry that a cut-off plan file has lost is not open in it any more, and a loop says
  that it is complete without that todo.
- `LoopEnds`: the simulation loop picks an algorithm again that its agent reported
  done but left unimplemented (`sim-plan-loop.py:62`), for ever.
- `CommitsKept`: the commit scripts of three loops (world, uiux, sim) reset the loop's
  branch while another is checked out and so drop the commits it was ahead by. The property
  exempts them; it holds of them for the branch an agent started. Where agents may leave the
  head detached, too, only that branch is kept.
- `OneOpenRow` begins with the first ingest that has written the registry.
- `ClosedStaysClosed` ends at a cut-off write of the registry.
- `NotReopened` is about the todos that the snapshot of the round had as completed. One that is
  completed after the snapshot may be set to pending again, by its row or because the
  backlog is put back as it was read. Competitor rows, which nothing closes, and todos that a
  research loop hands over are left out as well.
- `AcceptedFlattens` leaves out several sites, an address without a port and numbers
  that validate never converts: validate accepts them and flatten raises. It supposes that
  `leak_censor.generated.toml` is the same too: one that a killed `setup-censor-httpd.py` cut
  off after validate accepted makes flatten refuse.
- `PublicHasTls`, in `FilesSound`, is about files that ask for a public address. What
  a file that asks for loopback gets is shown by `HttpdDeploy_address`.
- `ConfSound` is about files without `[[site]]`: the routes of a site are never seen
  by the checks on streams and overlaps. It is also about a file that was the same at every read:
  the lines flatten writes of one version, checked in another, may be anything else.
- `CertWhole` is about a setup during which no other wrote, and that ran to its end.
- `ErdosAgrees`: the header of a specimen has the statement with doubled backslashes once
  `de-stub-catalog.py` ran, and so differs from register and catalog; only until then are
  they equal. `de-stub-erdos-specimens.py --limit` links rows to specimens it did
  not write, and a polished row has a specimen with the overlay's statement.
- `ReportFresh` leaves out an entry during whose build another build ran.
- `LedgerKept` leaves out claims appended while the ledger is rewritten.
- `LibKept`: `finish-ux04-ux07.py` adds a definition at each run and puts an earlier
  shell back; `apply-ux08-viewport-error.py` on a library of ux07 sets its mark
  without the painting. Of a library that a cut-off write left, whatever scripts then make
  of it, nothing is promised until `build-studio-lib-for-check.py` rebuilds it.

Other things met while modelling that no property states:

- `fetch_register` says "Preserves existing register rows by default"
  (`proof-db/erdos/scripts/erdos_fetch_register.py:4`), but a row is kept only with
  `--skip-existing`.
- `enrich-basic-corpus-specimens.py` with `--dry-run --patch-catalog` still writes
  the catalog (line 713), and gives `P-LM-BC-WV-034` the body made for Bernoulli.
- `compare-claims.py --check` returns 0 where its help says that it exits with 1.
- In `patch-studio-agent-invoke-ux11.py` the block it inserts contains the marks of
  two of its later edits, which are then never made.
- The overlap check of the server's routes compares priorities that are the routes'
  own indices, so no two are ever equal (`httpd_config.py:128`).
- The tier m15 of the httpd loop cannot be reached, and the pattern test of the
  snapshot's repository check is always true (`goal-directed-agents-snapshot.py:247`).
- Slugs of gaps are cut to 48 characters, so two long titles share a row.

### Fairness

`ParPool` and `WinPool`: weak fairness of every thread's steps. The threads are
the operating system's, no step waits for a lock that is held for ever, and
nothing in the pool polls. Nothing is assumed of calls, shutdowns and spurious
wake-ups. Stealing retries after an unlocked look at the cursors; weak fairness
of the others is enough for it to end, which is what the run shows.

`Dpar`: weak fairness of every process, and TCP that delivers what was sent.
Giving up is never forced.

`PlanLoop`: weak fairness of the loop's own steps, except that an agent without a
time limit may run for ever. Starts, kills and the operator are never forced.
`GapSwarm`, `HttpdDeploy` and the proof tools have no liveness properties: a run of
theirs is a list of writes.

## Proofs

`PartitionProofs`: the closed form of the partition is what the loop accumulates
(`BlocksAccumulate`), blocks follow one another (`BlocksOrdered`) and together are
the iterations of the call, each in one block (`BlocksPartition`), for every trip
and team.

`ParPoolProofs`: `Handshake` is an inductive invariant of `ParPool`, for every
team, trip, schedule and number of calls (assumption `PoolAssumption`). None of
the checked invariants is inductive: that a worker is never in the wrong job
depends on the counters being right, which depends on where every worker is, on
which threads exist and on what the caller waits for. `Handshake` has a part for
each:
`Threads` (which threads exist and whether they were told to end), `Published`
(while the caller waits for the work, `workers_done` is the number of workers
that drain), `Closed` (while it waits for the team, `workers_ready` is the number
back at the top), and the parts about the workers' own places. There is a lemma
for each action. `StaleFree` and `QuiescentBetweenCalls` follow from it.
`Awake` adds the wait sets, with a second round of lemmas, and gives
`WakeupsComplete`: nobody sleeps on a condition that holds.

`TypeOK` of `ParPool` (`TypesHold`) follows from `Handshake` and `Ranges`, which are
inductive together. `Ranges` alone is not: that `workers_done` and `workers_ready`
never pass the team rests on `Published` and `Closed`, where they count sets of
workers, and that a claim stays within the iterations rests on `BlocksOrdered`
for the static and stealing schedules and on the test of `job_next` for the
others. It has a lemma for each action too.

The last part of `ParPoolProofs` shows that each iteration of a call runs once
(`IndicesRunOnce`), that a stealing worker never spins (`StealersStop`), and that
`ParPool` implements `ForkJoin` (`PoolImplementsForkJoin`). `EachIndexOnce` is not
inductive. That an iteration is
not handed out twice needs the unclaimed ones to lie in blocks that do not overlap
(`Allotted`, from `BlocksCover`), and `HandedOut` says that each one is unclaimed,
claimed by one worker or run. That none is lost needs to know why a worker leaves
the job: `Exhausted` and `Scanned` say what it found empty on its way, and with the
counters of `Handshake` they give `AllRan` when the caller has counted the whole
team. The refinement follows: a body is a step of the abstract call, the return
needs `AllRan`, and every other step stutters.

`WinPoolProofs`: `Account` is the inductive invariant of the Windows pool. A
callback may run only while its call waits because the callbacks that are not
finished are counted: `Submitted` says which can exist, `Accounted` that
`jobs_remaining` is their number with those still to submit, `OneWakeUp` that a
wake-up stands for a call that has no callbacks left. `JobOnStack` and
`Accounted` follow, and with `Ranges`, which has the bounds of the claims of each
schedule, `TypeOK`. That `WinPool` implements `ForkJoin`
(`WinPoolImplementsForkJoin`) is shown by the argument of `ParPoolProofs` over
`Account` and `Ranges`. Three things differ: callbacks claim
while others are still to be created, so the block of one that was not begun counts
as unclaimed (`ToRun`); the counter of the dynamic schedule runs past the trip; and
that the whole team is through follows from `Accounted` with `jobs_remaining = 0`.

`DparProofs`: the distributed runtime, for every world, root and program, with ranks
that give up and ranks that die of a broken pipe. An operation is a loop over
peers; `SendTurn` and `RecvTurn` are the closed forms of the turn in which q sends to
r, and in which r receives from q, for each of the six operations. `Types` and `Net`
are inductive together (`NetHolds`): the sockets of a connected rank all lead
somewhere, and nobody leaves the turns of an operation. From there on the theorems
suppose `AllLabelled`: every socket is filed under the rank at its other end, as it is
when peers connect in the order of their ranks. `Dpar_labels` shows what becomes of a
gather otherwise. `Channels` (`ChannelsHold`) is the heart: `Sent` and `Rcvd` are the
operations whose message q has sent and r has received, which `SendTurn` and
`RecvTurn` read off from where the two ranks are, and the channel holds the difference
in the order of the program. A barrier waits (`BarriersWait`) and a receiver takes
the message of its own operation (`FramesOwn`) because of it: TCP keeps the order,
and both sides follow one program. `Values` adds what is in the messages and what
each buffer holds before a turn (`ValuesHold`), as long as no rank exits: a failed
receipt leaves a buffer as it was. `RootsDeliver`, `GathersPlace` and `ScansSum` are
its last turns. In a world of two the labels cannot be wrong (`TwoLabelled`), so there
all six properties hold without a hypothesis, the sum of an allreduce included
(`PairsSound`); from three ranks on that sum is wrong (`Dpar_allreduce`).

`PlanLoopProofs`: the five safety properties of the loops, for every set of todos, all
settings and all eight scripts, with kills, restarts and an operator.
`NothingForgotten` follows from `Copies`: while no two writers overlapped, what a
process or the operator holds of `state.json` has everything that was ever recorded, and
so has the file as long as it can be read: who writes it after a cut-off write loaded it
before. That a
completed todo passed its gates (`CompletedPassedGates`)
follows from `Passed`: what the steps behind the process have shown
of its todo. Here the order of the scripts is the argument: `Guarded` says that the
record comes after the gates, the entry of the history and both stops, with the agent
before all of them, and `ScriptsGuarded` shows it of seven scripts; the compiler's
is not so ordered and the theorem leaves it out, as the property does.
`RecordsAreSound` adds the types (`Typed`), for which each script's pick must give a
todo of the plan or none (`LoopPicks`): a sort and its first element, whose least key
exists by a least-number argument (`LeastByPicks`). `CommitsKept` follows from
`Branches`: where the head of the checkout may be. The theorem has the exceptions of the
property: in the three loops that reset their branch only the other branch's commits are
kept. `CompleteMeansDone` follows from
`Current`: a process at its pick has read the plan and the state that are in the
files, because every script saves a record before it reads again (`Recording`); and an
operator about to save over a file that cannot be read finds no loop that said it was
complete (`Found`). The
assumption on `Settings` says that the ids of simulation todos are of one of the
families its script lists or of the backlog, and that the switches of the httpd loop
are off for the others.

`HttpdProofs`: all four properties of the httpd tools, for every set of
configurations, edits and migrations and any number of tools. `Sound` has two parts.
`Reading` is about what was read: `Checking` says what a tool that runs has found of
the file, if all its reads saw the same version; `Found` the same of the verdicts, each with
the generated file that was beside the file, and of `runtime.conf`, and that the generated paths cover every migration they were made
from (`Covering`). What the checks then say of the lines flatten writes are lemmas
about the operators of `HttpdOracle`, one for each part of `ConfSound` and
`ValidFlattens` for `AcceptedFlattens`. That a file which asks for a public address
has TLS needs no agreement of the reads: the lines of TLS come from the read that was checked for it.
`Keys` is about the directory of keys: `Alone` says what a run finds there at each of
its steps while `alone`, the flag that any other write takes away (`SpoilsKeys`), is
up, `Stored` what the files are whoever wrote them, and `LeftBy` what a run that
completed left. A renewal keeps the name of the certificate because the state it
reads was written after that certificate (`NameKept`). Assumed is only that lists in
files are sequences, that edits are between versions there are, and that a missing or
cut-off file is neither a certificate nor a state.

`ToolProofs`: the gap pipeline, the claim ledger, the lemma report and the studio's
patches. Of the pipeline it has all five properties, for all runners, ids and depths.
None is inductive: `OneOpenRow` and `Reconciled` speak of the saved rows, and `Inv` has the
same of the rows that an ingest keeps in memory (`Ingested`), of what is saved
(`Saved`) and of the rows still to apply (`Applied`). `NotReopened` needs two more:
what a snapshot has as completed stays so and nobody works on it (`Past`), and a backlog
held in memory has no such todo pending that was not so in the file (`Held`), since its
write restores the whole text. `OneOpenRow` needs `Short`:
with more prefixes than the files had, a row and its mirror would get different keys.
Of the ledger, `Ledger` is inductive: what
`LedgerKept` says of the file must hold of the copy that `claim-to-li-specimen.py`
works on, less what was appended since it was read, and of the claims a reader holds
while nothing changed; `ClaimsAssumption` gives claims their fields. `Rebuild` is the
invariant of the report: from `Unlink` to `Count` `AutoVC.lean` is absent or has the
goals of the entry at hand, unless its place is in `disturbed`, and the rows are those
of the lemmas before it. Entries are finite (`EntriesAssumption`).

Of the patches, `Patching` is inductive: unless the library is `broken`, it and every text
that the script at work has still to write is `Good` given the runs so far; what a rebuild
writes is so in any case, or empty. A list of edits that leave
one another alone (`Settles`: none takes away what another looks for or puts in, or
puts in what another looks for) keeps all but a named set of passages and brings only
what is in another (`WithSettles`), makes the edits whose passage is there
(`WithTakes`) and changes nothing the second time; each of the five lists is one. The
fold is unrolled to the texts after each edit (`WithMakes`), so that no induction over
sequences is needed. From there a lemma for each script (`Ux07Makes` and so on) says
what it makes of a text, and `LibKept` follows (`LibraryIsKept`), with no bound on the
runs. It is not true of any text: assumed is (`LibrariesAssumption`, `Staged`) that a
text that still has the passage a script starts from has the others it quotes, and
that one with errors declares and shows them. The empty text has a version of its own.
The texts of the run are such. `NothingAssumption` tells "no marker" from the passages.

`CorpusProofs`: both properties of the proof database, for every plan, catalog,
register and overlay, with any number of tools in any order that are killed at any
write. `CorpusSound` speaks of tools that have ended; `Corpus`, which is inductive,
says in `Planning` what the writes still to do must be to get there, given the files
as they are now. For a destub (`Cleaning`): every field is clean or has its `patch` to
come, every specimen has the first line of its entry or its `header` to come, and no
`patch` follows a `header`, which is why the order catalogs, then specimens matters
(with the order reversed the plan is `HeadersFirst`, and TLC finds the difference).
For enrich (`Enriching`), that what a `rewrite` will write is still the statement of
the entry. An `append` waits for its specimen (`SpecimenFirst`), and a `drop` only
names entries whose successor is there, which no other write takes away but a kill
(`NotLost`). That a second lookup leaves a statement alone (`Destubbed` is its own
fixed point) is a lemma over the texts of `CorpusText`; it needs that the lookup knows
the placeholders of physics in a catalog (`CorporaAssumption`).

For the register two more invariants hold given `Corpus`. `Links` follows a list of
writes: a register or a catalog that is written names only specimens that are there
by then (`Before`). `Phased` has what each of the three tools expects and promises:
after overlays every statement of the register is what de-stub-erdos-specimens would
render, unless the row is polished (`Overlaid`); while it runs each specimen is
right or has its write to come (`Rendering`); when it has ended every row is linked to
a specimen with its statement (`AllSheets`); and the catalog copies that register. The
tools of the corpus keep the last two (`Settling`): all but `de-stub-catalog.py` to the
letter, for it alone writes a `heading` (`CorpusToolOps`), and all of them, killed
wherever they are, up to doubled backslashes. `ErdosAgrees` follows (`ErdosTablesAgree`). Assumed are the
plan's entries (`PlannedAssumption`), that numbers and registers are finite and no row
has a specimen at first (`NumbersAssumption`, `RegistersAssumption`), and that no tool
is called `None` (`NoneAssumption`).

Only model-checked are:

- what is about liveness: `CallReturns`, `ImplementsFairForkJoin`, `Completes`,
  `Connects` and `LoopEnds`, which is out of the prover's reach;
- the five runs that find a violation.

The theorems have the exceptions of the properties they prove.

## Not modelled, and what could come next

Of `Dpar`, worlds of three and more whose sockets are filed under the wrong rank are
only model-checked: barriers, and the collectives with root 0, which accepts nobody, so
that its own sockets are never filed wrong; a rank that takes another for the root
waits for ever.

Not modelled of what is above: reports, canvases and instructions of the loops;
the gates, which pass or fail; `httpd_limits.py`, `httpd_match.py`,
`sync-li-httpd-standalone.py`, `httpd_bad_rng.py` and `--cert-dir`;
`patch-studio-viewport-display.py` and `patch-studio-lib-final.py`, which start
from texts that are not in the repository; the fetched page of the Erdos
problems.

Next, in this order: federated averaging over the sockets of `Dpar` with its
time-outs; the static buffers of the reductions; the workspace check and its
cache; the life cycle of a container over its state file; the pool, breaker and
queue of the proxy.

Not planned: the front and back end of the compiler, numeric, graphical and
cryptographic packages, generators of source text and benchmarks, which are
sequential functions over data, and stubs.
