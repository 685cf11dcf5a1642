# A TLA+ model of procstar

Procstar starts processes, watches them, keeps a record of each and serves the
records over HTTP or through an agent connection to a Python server. This
directory models the parts of it whose correctness depends on the order in
which things happen, checks them with TLC on small instances, and proves the
central facts with TLAPS for every instance. Paths are relative to the
repository, which is under `src/`; `PROJECT.json` lists, for each definition,
the lines it models.

## The system

| Part | State | Operations | Interacts with |
|---|---|---|---|
| Registry, `src/procs.rs` | map proc ID -> `Proc`, broadcast channel, shutdown watch | `start_procs`, `remove_if_not_running`, `collect_results`, `send_signal`, `set_shutdown`, `subscribe` | everyone |
| Supervision, `src/procs.rs`, `sig.rs`, `err_pipe.rs` | wait task, error-pipe task, SIGCHLD watch of each process | fork, exec, reap, record, notify | kernel, registry |
| systemd units, `src/procs.rs`, `systemd/api.rs`, `systemd/cgroup.rs` | scope and slice of a process, `UnitsFinal` | `finalize_units`, `CGroupAccounting::load` | systemd over D-Bus, cgroup files |
| Shutdown, `src/shutdown.rs`, `main.rs` | four handler tasks, the tasks `main` joins | signals, `wait_running`, `wait_idle`, `--exit`, `--wait` | registry |
| Agent loop, `src/agent.rs`, `proto.rs` | websocket, subscription, failure count | connect, register, serve requests, forward notifications | registry, server |
| Agent server, `python/procstar/agent` | `Connections`, `Processes`, a task per websocket, reconnect timeouts | serve, reconcile, start, delete | agent, application |
| HTTP service, `src/http.rs` | none of its own | routes requests to the registry | registry |
| Fds, `src/fd.rs`, `spec.rs` | `Pipes` during a batch; handlers | `validate_procs_fds`, `make_fd_handler`, `in_parent`, `in_child` | registry, kernel |
| Captures, `src/fd.rs`, `sys.rs` | a temporary file, or a buffer and the task that fills it | `run_capture_memory`, `get_data`, `get_result` | programs, requests |
| Specs, environment, results, `/proc`, command line | none that outlives a call | parsing, formatting | |

What is hard in it. The Rust program is one thread whose tasks interleave at
awaits, and the Python server is one event loop: code that looks sequential
reads state before an await and uses it after. Children run beside both, die at
any moment and are noticed through coalesced SIGCHLDs. A notification is
received long after it was sent, when the process it is about may be deleted or
its ID reused. Websockets go away with messages in flight, and the server learns
of a reconnection before it learns of the disconnection. Timeouts race what
they bound. Programs write to the very file from which their output is served,
and the files of a cgroup are read one by one while it changes. fds are numbers, which
outlive what they referred to. `PROJECT.json` lists these as hazards, each at its line.

What makes each part correct:

- registry and supervision: no exit is missed, a record is complete and final
  when `NotRunning` is sent, no live process leaves the map, no signal reaches a
  reused pid, no record is overwritten, nothing starts after shutdown;
- units: cleanup is claimed only when confirmed, evidence of a failure survives,
  the recorded accounting is complete and consistent;
- captures and requests: an answer holds what the program wrote, reads end, a
  client that asks for what it was told is there is served, and no request takes
  the fd of another process;
- fds: a valid batch never panics, each program starts with the fds its spec
  asks for and nobody else's, Procstar keeps no end of a pipe;
- shutdown: waits are always woken, stragglers are killed, the program ends;
- agent and server: when nothing is under way, the server tracks exactly the
  agent's processes, on the connection the agent uses; results arrive; the loop
  ends after shutdown.

## The modules

| Module | Models | Extends |
|---|---|---|
| `Notify` | the broadcast channel of notifications, `check_idling` | |
| `Registry` | the abstract contract of `SharedProcs`: a map, states, notifications, shutdown | `Notify` |
| `Procs` | `procs.rs` in detail: start requests, fork and exec, SIGCHLD, error pipes, tasks | `Notify` |
| `Accounting` | `CGroupAccounting::load()`, the reads of cgroup files | |
| `Units` | `finalize_units()` with systemd as environment | `Accounting` |
| `Capture` | captured output in files and in memory, and its retrieval | `Registry` |
| `Requests` | the HTTP service, and the requests of `proto.rs` not in `Agent` | `Capture` |
| `Fds` | `validate_procs_fds`, `Pipes` and the fd handlers, on fd tables copied by fork | |
| `Shutdown` | signal handlers, waiters, and the tasks of `main()` | `Registry` |
| `Wire` | websockets (external) | |
| `Agent` | `agent.rs` and the request handlers of `proto.rs` | `Registry`, `Wire` |
| `Server` | `server.py`, `conn.py`, `proc.py` and the application | `Agent` |
| `System` | agent and server composed, and their properties | `Server` |
| `Procs_proofs`, `Procs_refinement` | theorems about `Procs`, and that it implements `Registry` | `Procs` |
| `Registry_proofs`, `Shutdown_proofs` | theorems about `Registry`, and about the tasks that wait on it | `Registry`, `Shutdown` |
| `Requests_proofs` | theorems about captures and requests | `Requests` |
| `Units_proofs`, `Fds_proofs` | theorems | `Units`, `Fds` |
| `System_proofs` | theorems about what agent and server agree on | `System`, `Registry_proofs` |
| `MC*` | TLC's definitions: symmetry sets, task names and modes | |

`Procs` is shown, and without systemd proved, to implement `Registry`
(`ImplementsRegistry`): a child counts
as a registry process from its insertion on, with the state `get_state()`
returns. `Shutdown`, `Capture` and `Agent` are then written against `Registry`, so that
they need not carry the kernel and the tasks of every process.

How state and actions correspond to the code:

- `Procs`. An action is what a task does between two awaits. `cpu` names the
  start request that holds the thread: without systemd a batch is uninterrupted
  from its checks (`StartProcs`) through `Fork` and `Register` of each process;
  with systemd it gives the thread up at the two D-Bus calls (`SliceStarted`,
  `ScopeStarted`), which may also fail (`SetUpSliceFails`). `holders[c]` are the
  processes that hold a write end of c's error pipe, which a child forked later
  inherits until it execs or exits; the error task sees EOF when it is empty.
  `stream` and `changed` are the two stages of a SIGCHLD: the signal stream
  and the watch channel.
- `Units`. `pc` is the await that `finalize_units_inner` is at. systemd moves a
  scope between active, failed, inactive and unloaded by itself; each call may
  be answered, fail, or be cut off by the budget, also after its request went
  out (`lateReset`). The accounting has no await, but systemd and the kernel do
  not wait: each file is a step (`LoadStep`), in the order of the code.
- `Accounting`. `load.at` is the file to be read next; `kernel` says which
  controllers are enabled and which files the kernel lacks; `gauge` is what the
  cgroup uses and has used at most. A file parses if the kernel offers it.
- `Capture`. A process has one captured fd; the nth byte of its program is the
  number n. `file[c]` is the open file description that the program and Procstar
  share, offset included; `mem[c]` is the pipe, the buffer and the task between
  them. Procstar's fd of a capture is a number (`num`), and `open` says which
  capture a number refers to: a failed read closes the fd and leaves the handler its
  number (`CloseOnError`), the next process to start may get it (`PostProcs` takes
  any free one), and whatever the first handler then seeks, reads or closes is the
  other's (`Opened`), down to the number that a deletion closes (`FdHandler::drop`,
  in `DeleteProcs`) and the task whose pipe is closed under it (`CaptureFails`).
  `open` covers captures: a number that refers to none may be anything else of
  Procstar's (`LookLost`). A request that reads is a `job`: it looks at one process after the
  other, and the read of a file is one step for each system call, since programs
  write in between. While a job runs, no other task of Procstar does (`Free`).
  Positions are between -`Limit` and `Limit` - 1, where the code has 2^63, and are
  cast as in the code. `known`, `careful`, `clash` and `lost` are history
  variables: what a client was told is there, whether it asked for more, whether the
  shared offset of a file was moved under one of the two, through whichever number,
  and whether a read has failed.
- `Requests`. One action for each route and message; `Answer` is a handler that
  changes nothing but its answer, `Begin` one that reads.
- `Fds`. `table[i]` is the fd table of a process, 0 being Procstar; `fork()`
  copies it and, into `childPipes`, the `Pipes` of the parent. `pc` is where
  `start_procs` is; a handler is made by one action for each kind of spec, and
  run by `InChild` in the child and `InParent` in the parent. `in_child` has the
  outcomes of a handler: the calls `close`, `dup2` and open on the child's table, in
  the code's order, none after one that failed. `forked` is a history variable, the
  table as `fork()` made it. The specs are chosen in the initial state from all lists
  of `Lists`, valid or not; a name is one of the three standard ones or any numeral,
  and `dup` takes any integer.
- `Shutdown`. `pc[t]` is where a task is; a task that waits has a receiver with
  its queue and the proc ID it waits for (`waitOn`). `wait_for_shutdown()` looks
  at the current state only, as the watch channel does. A handler handles one
  signal, as in the code. The agent's task looks at the state at the head of its loop
  (`AgentLooks`), connects, which may fail for good and exit the program, subscribes
  when connected, and leaves its loop on `ShutDown(Done)`; its sends are taken to
  return.
- `Agent`. `apc` is where `run()` is. `missed` is a history variable: what was
  notified since the loop last looked and before it subscribed.
- `Server`. `spc[w]` is where the serve task of websocket w is. A `Connection`
  object is named after the websocket whose task created it. `heard[id]` is what
  the application was told of a process.
- `Wire`. An end that goes away takes along what is in flight or, with `Late`,
  part of it still arrives, as it does when the other side has received but not
  yet processed it.

Abstractions: a process is a model value; a result is its state; a spec is
valid or not; a batch is a set of IDs. One agent and one group are modelled.
Backoff intervals, statistics, access tokens and logging are left out.

## The runs

Nine passing runs and three that show a disagreement. The longest takes less than
five minutes on two workers, most take less than one.

### Registry and supervision (`MCProcs`)

| Run | Shows |
|---|---|
| `procs_plain` | without systemd, with `--exit` and a subscriber: type invariant, live processes are tracked, an idling registry tracks something, errors are complete at `NotRunning`, and the implementation of `Registry`, notification queue included |
| `procs_systemd` | with systemd, two concurrent start requests, fd set-up errors and signals: no lost SIGCHLD, a deletable process has exited, no stray signal, final records |
| `procs_live` | exits are recorded, terminations are told |
| `procs_overwrite` | finding, below |

Two children and two IDs: the properties are about one process and at most one
other that shares its ID, its error pipe or its batch. Two callers of
`start_procs` suffice for a race between them. `HasSpareChildren` bounds the
batches by the children left. Each shutdown request is made once (`asked`).

### Units (`MCUnits`)

`units` checks `finalize_units` with one retry, the code's number, and the
accounting it records: what it lacks is what the kernel does not offer, never
what vanished in the middle of the reads, and no peak is below the use read
beside it. `SomeKernels` has both controllers, one or none, and lacks an
optional file, a required one or none; one resource is used at a time and
between 0 and 1, since each is read by two reads of its own and a rise and a fall
between them is all that can disturb them. The fairness is that the budget's
timer expires and that code without an await runs on.

### Captures and requests (`MCRequests`)

| Run | Shows |
|---|---|
| `requests` | HTTP and agent requests for results and data, signals, starts and deletions, while programs write and end: answers hold the program's bytes at their place, and all of them once process and capture are over; a client that asks within what it was told causes no panic and loses no fd; a write never leaves a read more to do; a captured pipe is drained |
| `capture_overwrite` | finding |

One process that writes two bytes, in each mode, attached or detached, or two
processes that write nothing, two temporary files or one and a pipe, with two fd
numbers (`SomeLoads`): two bytes are needed to overwrite one and to cut a read in
two, and two processes for a number to go from one to the other while requests for
either, deletions and the capture task still use it. (Two temporary files of which
one is written to, and a written file beside a pipe, satisfy the invariants as well,
in more time than a run should take.) Agents ask for the positions
-1, 0 and 1 and no stop or one of them, so that ranges are negative, empty,
reversed, within and beyond the data. `Limit` is 8, which keeps a
negative position cast to unsigned apart from every length. `AnswersAreOutput`
and `KnownRangeIsServed` except files under a `clash`, for which they do not
hold; `capture_overwrite` is the case without the exception. They also say what is
left once a read has failed (`lost`): bytes are still those of one capture at their
place, but it may not be the one asked for. A program is
assumed to leave no descendant that keeps its fd, which would keep a capture
open as long as it lives.

### Fds (`MCFds`)

`fds` checks every batch of two processes with up to two fds each, taken from
stdin under two names, stdout, 3, which is the first fd that Procstar opens and
which a process finds in use or free, 9, which is always free, -1 and a bad name, with pipes from either process to
either, itself included, and every other kind of spec: what
`validate_procs_fds` lets through never panics in Procstar, programs get what they
ask for and no end of another's pipe, and Procstar keeps no end but the read ends of
captures. What programs get is as specified when `NumbersFree`: the numbers that the
spec names, its own and those it dups, are 0 to 2 or not open in Procstar at the
fork. Otherwise it is not, see below. Two processes give both orders of reader and writer, two fds a
handler that runs between another's calls. fds 0 to 2 are assumed open in
Procstar, so that pipes get larger numbers; `MaxFd` leaves room for all. The fds that
Procstar has open besides (sockets, the error pipe, the eventfd, captures of earlier
batches) are outside the model; a spec that names one of their numbers is like one
that names an end of a pipe.

### Shutdown (`MCShutdown`)

The command line and the signals that may come are chosen in the initial state
from the constant `Modes`.

`shutdown` checks `--serve` with SIGTERM, `--exit` with SIGQUIT,
`--serve --exit` with SIGUSR1, `--agent` with SIGTERM and `--agent --wait` with
SIGUSR1: `wait_running` and `wait_idle` are always woken, stragglers get SIGKILL,
SIGTERM and SIGQUIT end the program whatever the processes do, and SIGUSR1, `--exit`
and `--wait` end it if processes end and are deleted. The end of the program
(`Exited`) is that of all four tasks `main()` joins, the agent's included, or the
agent's `exit(1)`. One exception is in the code and in `ProgramEnds`: an agent loop that
was connecting when the state became done subscribes too late to hear of it, and
serves for as long as its connection stands (`AgentUnaware`).

Two processes are needed for a waiter to go from one to the next, two proc IDs
for one to be reused while another is waited for; with `--agent`, whose task has its
own steps, one process is started. SIGINT is handled as SIGTERM.
A signal may come or not, so each mode is also checked without it.

### Agent and server (`MCSystem`)

| Run | Shows |
|---|---|
| `system_safe` | with another client of the agent, lost websockets and a SIGUSR1: no ghost, none forgotten, same connection, which is current, popped once |
| `system_live` | with reconnect timeouts, suspended sends and a shutdown: the application hears of the end of what it started, the loop ends after shutdown unless it missed the change |
| `system_delete` | finding |

Two websockets give the races between a connection and its successor, which are all
that matter to the invariants without a reconnect timeout: the theorems are about any
number. With one, a third websocket matters (see below), and what `system_live`
shows under timeouts is for one reconnection. The reconciliation of proc IDs treats each ID alone, so one suffices. `CountMax` is
2, so that one failed attempt is survived and two end the agent. The numbers of
websockets, processes and signals bound the behaviours; a disconnection without
a cause needs a websocket left to reconnect with. The invariants speak of
`Quiet` states: the agent serves, nothing is in flight, and the tasks of older
websockets have ended. They except what `missed` records, which no message
carries to the server until the next reconnection. `NoGhost`, `NoneForgotten`,
`SameConnection`, `ConnectionIsCurrent` and `PopNeverFails` are checked without reconnect timeouts, suspended sends and
late messages, because each fails with one of them (see below); likewise
`ResultArrives` leaves out a Process that was created after a suspended send.

`CHECK_DEADLOCK FALSE` is used where the system may stop: the program exits, or
the processes and websockets of the instance are used up.

### Fairness

Weak fairness of task steps: the executors of tokio and asyncio poll every
ready task. Of the kernel: a forked child execs or fails, a killed one exits.
Of timers: they expire. Programs are not assumed to end, except in `System`,
whose processes end, and in the hypothesis `Ending` of the properties about
SIGUSR1, `--exit` and `--wait`, which promise an end only once processes end
and clients delete them. systemd is not assumed to answer. A request, once
begun, runs to its end. Strong fairness of a capture task: it is woken when its
pipe has data or ends, and tokio then polls it in the end, though it cannot run
while one of ever new requests does.

## Findings

Runs with expected violations show where the code departs from what its
documentation, comments or assertions say; `PROJECT.json` quotes each.

- `procs_overwrite`: the check of `start_procs` for unused proc IDs is stale
  after the D-Bus awaits, and a second request replaces the first record.
- `capture_overwrite`: a result requested while a process runs seeks the file
  that the program writes through; the program's next write overwrites its
  earlier output, which no later result has.
- `system_delete`: the last deletion of an idling agent is never confirmed,
  because `ShutDown(Done)` goes out before `Delete`.

The models show further departures when their constants are changed; no run is
kept for them:

- `TerminationIsTold` fails with `Systemd`, even if systemd answers: a failing
  `set_up_slice` leaves a child blocked with an earlier process's error pipe
  open, whose `NotRunning` ("Notification that a process is not running",
  `procs.rs:239`) is then never sent.
- `SignalEndsProgram` fails with SIGUSR1 beside SIGQUIT or SIGTERM in a mode with
  `--serve` or `--exit`: a SIGUSR1 handled right after the state became done sets it back to
  idling (`shutdown.rs:68`), and the task of the mode, which looks at the current value
  only, misses the end.
- `NoPanic` excepts a batch in which a `pipe()` failed: if the one for the other
  end succeeds, the assertion at `procs.rs:977` fails.
- `StartsOnlyWhileActive` fails with `Systemd`: the shutdown check of
  `start_procs` is stale after the D-Bus awaits, too.
- `NoneForgotten` fails with `Late`, two processes and one proc ID: the serve task of a
  replaced websocket processes the deletion of the first after the second, which
  reuses the ID, was reconciled.
- `NoGhost` fails with `Late`: the serve task of a replaced websocket processes
  a result it had received and revives a deleted process; and with
  `Backpressure`: a Process is created after a suspended send although the
  request was lost and the reconciliation is over.
- `SameConnection` and `PopNeverFails` fail with `ReconnectTimeout`: the timeout
  forgets the connection but not its processes, and two tasks may set it.
- `ConnectionIsCurrent` fails with `ReconnectTimeout` and three websockets: the serve
  tasks of the first two share a Connection, whose timeout pops it after the second
  has ended; the first, slower one sets the timeout of the popped Connection
  again; the agent registers anew on the third, and the timeout, which goes
  by the conn ID (`server.py:288`), pops the Connection in use.
- Without the exception for `missed`, `AgentEndsUnlessMissed` fails: a shutdown
  between the loop's check and its subscription never reaches the loop. Likewise
  `SignalEndsProgram` and `IdlingEndsProgram` without `AgentUnaware`: `main()`
  joins the agent's task (`main.rs:243`), and the program goes on.
- `WiredAsSpecified` and `NoStrayEnds` fail without `NumbersFree`. `parse_fd` takes
  any integer (`spec.rs:239`), and so does `dup` (`spec.rs:200`). If the number is that
  of an end that Procstar has opened for this or another process of the batch,
  `dup2` closes that end before its own handler uses it, a handler whose end already has
  the number closes it (`fd.rs:461`), a `dup` gives the program an end of somebody
  else's pipe, or the child panics at `pipes.close().unwrap()` (`procs.rs:890`).
- `AnswersAreOutput` without `Settled`: the task that drains a captured pipe is
  not awaited, so a result taken right after `NotRunning` may lack output.
- `KnownRangeIsServed` without `careful`: a slice beyond a buffer panics, and a
  panic in the agent's task ends Procstar, which joins it in `main`
  (`main.rs:241`); a failed read of a file closes its fd (`sys.rs:203`). The handler
  keeps the number, and the capture of another process may get it: requests
  for the first then answer with the other's output and move the offset of its
  file, and a further failed read or the deletion of the first closes the other's fd,
  though its client was careful. What else of Procstar's gets such a number
  (a websocket, a connection of the HTTP service) is closed likewise, which is not
  modelled.

More, read from the code while modelling it: a spec that closes an fd which is
not open fails (`fd.rs:415`), where `spec.rs` says "Close this fd, if it's
open"; programs inherit the capture read ends and temporary files of processes
started before them, which are not close-on-exec; a refused deletion or signal is a 400
where `docs/api.md` has a 409; and `http.rs:119` names the path
`/procs/:id/signal/:signum`, where the route has `signals`.

## Proofs

`Procs_proofs` proves, for all sets of IDs, children, callers, subscribers and
signals, that `Procs` satisfies its safety properties. The inductive invariant
`IInv` is the conjunction of

- `TypeOK`;
- `StarterInv`: a request past fork has its own child, not yet registered;
- `TaskInv`: the kernel's state, the reaped flag, the recorded exit and the
  tasks of a process agree (reaped iff gone, recorded iff the wait task is done,
  told only when both tasks are done);
- `PipeInv`: a child before exec holds its own error pipe; an error task that is
  done has read everything that was written;
- `MapInv`: the map holds registered processes under their own IDs;
- `NoLostSigchld` and `IdlingTracksSomething`, inductive relative to the others.

None of the properties is inductive alone: that errors are complete at
`NotRunning` needs the order of both tasks (`TaskInv`) and that EOF implies the
child is past its writes (`PipeInv`); that signals never leave a process needs
the reaped flag to agree with the kernel. `NoOverwrite`, `StartsOnlyWhileActive`
and `LiveIsTracked` hold without systemd only; they use `BatchInv`, that a
request in progress holds the thread and its IDs are still unused.

`Units_proofs` proves type correctness (the retry bound), that cleanup is
claimed only when confirmed, that a failure is recorded before it is reset, that
evidence is kept, and that the recorded accounting is complete and consistent,
for every kernel and every use of the cgroup. Its invariant `IInv` has

- `PassInv` and `ResetInv`: what the phase says of the units and of what has been
  recorded, also when a reset is still on its way;
- `PassedInv`: a file of an enabled controller that was passed over is missing
  from the kernel, or the cgroup is gone and the load will fail, for a required
  file comes last; a cgroup that is gone does not come back, which makes this
  inductive;
- `PeakInv`: the use that was read is covered by the peak of now, which is read
  after it and never falls;
- `RecordInv`: both facts for the accounting that is recorded.

`Procs_refinement` proves that, without systemd, `Procs` implements `Registry`
for any number of proc IDs, children, callers and subscribers. A child is shown
from `Register` on, with the state `get_state()` returns; `RegisterStarts`,
the lemmas about its tasks and those about clients each map an action to one of
`Registry`, notification queues included, and all other steps change nothing that
is shown. It uses `IInv` of `Procs_proofs`, and `BatchInv`, which holds without
systemd only: a request that gave up the thread might start a process after
shutdown or over another's proc ID, which `Registry` does not allow.

`Registry_proofs` has what its clients rely on, as lemmas and a theorem: the map
is finite and agrees with the processes (`MapAgrees`), `NotRunning` is sent for
stopped processes only (`ToldStopped`), and no process comes back.

`Shutdown_proofs` proves that `wait_running` and `wait_idle` are always woken and
that stragglers get SIGKILL, for every command line. A task that waits does not
see the registry but a queue, so the invariant relates the two: whatever a task
waits for is still to happen in the registry or is in its queue
(`WaitIsWoken`), which rests on `RegistryTells`: an operation tells every
receiver of each proc ID that the map loses and each process that stops. Since a
proc ID may be reused, `ToldStopped` and `MapAgrees` are needed with it.
For the stragglers (`KillInv`), what a handler found was started, and no process
comes back.

`Requests_proofs` proves that answers hold the program's bytes, that clients
that ask within what they were told are served and lose no fd, and that reads end,
for any number of processes and of fd numbers. The invariant
has, beside the types,

- `ProgInv`: a program lives while its process shows as running;
- `MemInv`: buffer and pipe together hold all that was written, in order;
- `FileInv`: a file without a `clash` holds all that was written, and its offset
  is at its end unless a request is reading it;
- `JobInv`, `ReadInv`: what has been read so far is the file from where the read
  started, and the offset is where the read is, unless the program wrote;
- `ItemsInv`, `KnownInv`: the answers that are ready are right and, until a read has
  failed, no client was told of more than its own file or buffer has;
- `StartedInv`, `HeldInv`: numbers refer to captures of processes that were started
  and, until a read has failed, the number of a capture in use refers to that capture;
- `BlameInv`, `PanicInv`: before a read fails, a client was not careful or a file was
  under a `clash`; before a request panics, its client was not careful.

`KnownRangeIsServed` speaks of the future of a request; it is kept because
captured output never shrinks, so `KnownInv` carries over from the answer that
told a length to the request that asks for it.

`Fds_proofs` proves, for batches of any length and any specs, with fds of any number,
that valid batches never panic in Procstar and that Procstar keeps no end; and of each
program whose spec names free numbers, whatever the other specs of the batch name,
that it starts with what its spec says and nobody else's ends. The fd numbers are the kernel's, so the proof is
about what is at an fd rather than which number it has: two entries ask for
different things (`WantedDistinct`, from the checks of `validate_procs_fds`), hence
what their handlers use are different fds (`UsedApart`), and none is a
standard fd, a number that the spec names or one kept in `Pipes`. The invariant has

- `ProgressOK`, `HandlersOK`: which handlers are made, each for its entry;
- `PipesOK`: an end of a pipe is kept exactly until its entry has taken it,
  which gives `NoPanic`: an end that is left at the assertion is one whose entry
  has an error for a handler;
- `ParentBase`, `ParentKept`, `ParentMade`, `ParentAccounted`: Procstar's fds 0 to 2
  are its own, the ends in `Pipes` and the fds of the handlers at hand hold what
  they should, and everything else is output of processes;
- `ChildOK`: of a child that sets up its fds, those it has done are as specified
  (`SetBefore`), the others have what they need (`SetAfter`), and what does not
  belong to it is in its copy of `Pipes` (`SetHolds`), which it closes, if its
  numbers were free.

Each kind of handler is shown to be a case of `Runs` (it sets its fd and closes
only what it used), and each way of making one to be a case of `Adds` and
`Supplies`; the invariant is shown to be kept by these.

`System_proofs` proves the invariants of `System` for any number of websockets,
processes and proc IDs. The properties speak of `Quiet` states, which say
nothing of how they came about; the invariants speak of all states, and follow a
fact on its way from the registry to the server: it is in the agent's
notifications, in a message on its websocket, in the `Register` message that a
serve task holds, or known to the server.

- `BaseInv` has the types of messages and tasks, what the two ends of a websocket
  and its serve task say of each other (`TaskInv`), that every Connection in use
  has a websocket that was added (`ObjectInv`), and when the agent has an answer
  to wait for (`AgentInv`). It holds always and gives `TypeCorrect`.
- `EndInv` and `OneConnection`: an agent's `ShutDown(Done)` is received on one
  websocket at most, and until it is acted on there is one Connection object, which
  every serve task, Process and start in progress uses. This gives `PopsSucceed` and
  `ProcessesUseTheConnection`.
- `CurrentInv`: the Connection uses the websocket that the agent serves, or that
  websocket is about to be closed. `AheadInv`, `DoneInv` and `IdlingInv`: the server
  is never ahead of the agent's shutdown state, and a change that it lacks is on its
  way or was `missed`. Together with `QueueInv`, that only an agent that serves
  has notifications, they give `ConnectionStaysCurrent`.
- `StaleInv`: a websocket that the agent has left carries nothing up any more.
- `ForgottenInv`: of every process the agent has, the last word on its way to the
  server is one that makes the server track it (`WillTrack`). It matters which
  message is the last, since a proc ID may be deleted and reused while the first
  deletion is still in flight. This gives `ServerForgetsNone`.
- `GhostInv`: of every process that the server tracks or is about to
  (`Promised`) and the agent does not have, a deletion, an error or the start
  request itself is on its way (`WillForget`). This gives `ServerKeepsNoGhost`.

Each conjunct is shown to be kept by what a step does to the path of a fact, rather
than action by action: `SystemOp` is an operation of the registry with the
notifications it sends, `AgentServes` and `Handles` what the agent sends for a
notification or a request, `Reads` and `AttachedStep` what a serve task takes from
the websocket.

All but `BaseInvariance` and `TypeCorrect` assume `~ReconnectTimeout`, the default of
`reconnect_timeout` (`server.py:99`); with a timeout the agent may have two
Connections. `ServerForgetsNone` assumes `~Late` as well, and
`ServerKeepsNoGhost` `~Late` and `~Backpressure`. `SameConnection` and `PopNeverFails` fail with
`ReconnectTimeout`, `NoneForgotten` with `Late`, `NoGhost` with `Late` or
`Backpressure`, and `ConnectionIsCurrent` with `ReconnectTimeout` from three websockets on
(see Findings). The invariants were checked with TLC
on two and three websockets before they were proved.

Beside the hypotheses named above, the proofs assume only what the modules assume of
their constants, which TLC
evaluates in the runs: `ConstantsAssumption`, `RegistryAssumption` (`None` is not
an ID, child, process or caller; flags are Boolean), `MaxTriesAssumption` (at
least one try), `KernelsAssumption` (the form of a kernel), `ShutdownAssumption`
(the tasks and modes), `AgentAssumption`, `WireAssumption` and `ServerAssumption`
(at least one attempt to connect, the agent is the one subscriber, `None` is no
websocket, flags are Boolean),
`CaptureAssumption` (no program writes as much as positions
can count, `None` is no fd number) and `FdsAssumption` (fds 0 to 2 exist, `None` is no
fd, numerals are integers).

Model-checked only: liveness (`procs_live`, `SignalEndsProgram` and its like,
`ResultArrives`, drained captures, finalization within the budget), which is out of
the prover's reach.

## Not modelled

Spec parsing and the environment, which are pure functions of one call; result
formatting and `/proc` parsing; open flags; D-Bus proxies (generated); command
line; TLS and access tokens; several agents and groups. `Server.reconnect()`
(`server.py:346`), by which an application that was restarted asks for a process of a
given connection: it waits for the connection and creates a Process for any ID that the
server does not have. Fds of Procstar other than those of a batch and of captures. The 1024-entry limit of
the notification channel: the number is out of TLC's reach, and a small one needs
every send of the agent as a step of its own. A client of the HTTP service that
goes away while its request awaits systemd: when hyper then drops the request is
not in the source; the outcome is that of `SetUpSliceFails`. Output that a
descendant writes after its program has ended.

## Plan

1. Registry and supervision, units, accounting, and theorems about all three
   (done); the implementation of `Registry` by `Procs` without systemd (proved).
2. Shutdown on the `Registry` contract, and theorems that waits are woken and
   stragglers killed (done).
3. Captures and requests, and theorems that answers are right, that a client that
   asks within what it was told is served, and that writes leave no more to read
   (done).
4. `Fds`, and theorems that a valid batch never panics and is wired as specified
   (done).
5. Agent, server and their composition, and theorems about the server's connections
   and the reconciliation of its processes with the agent's (done).
6. Several agents in a group and the choice between them.
