# A TLA+ model of agile-agent

agile-agent runs several coding agents side by side. A daemon owns the agents; each
agent is a *slot* in a pool, served by a *provider thread* that drives a `claude` or
`codex` subprocess; a *decision agent* beside each slot judges what the provider said;
some decisions wait for a human; terminal and command-line clients talk to the daemon
over WebSockets. This directory models the parts of that system whose correctness
depends on the order in which things happen, model-checks them on small instances with
TLC, and proves their safety for every instance with TLAPS.

## 1. Inventory

| Component (crate) | State it keeps | Operations | Modelled in |
|---|---|---|---|
| Human decision queue (`decision`, `state/blocking.rs`) | four priority lanes, an index from request id to lane, a history of answers | push, pop, remove by agent, complete, expire, clear | `HumanQueueOps`, `HumanDecisionQueue` |
| Worker pool (`core`, `agent_pool.rs`, `pool/`) | slots in display order, decision agents, focus, next index, the human queue | spawn, restore, stop, remove, pause, resume, focus, assign (with and without the backlog), complete, block, answer, expire, clear, execute a decision | `WorkerPool` |
| Slot and status (`core`, `agent_slot.rs`, `slot/status.rs`) | status, task, Worker, thread handle, pid | guarded `transition_to`, unguarded `set_thread_handle` | `SlotStatus` |
| Worker aggregate (`agent/runtime-domain`) | Worker state | `apply(event)`, `transition_state` | `SlotStatus`, `ProviderRuntime` |
| Session manager (`agent/daemon`, `session_mgr.rs`) | pool, event aggregator, mailbox, under one lock | spawn, stop, input, tick, terminate, snapshot, restore | `ProviderRuntime` (input, stop, tick phases 1 and 3, terminate) |
| Provider threads (`agent/provider`) | stage of the thread, its subprocess | start, stream, fail, finish | `ProviderRuntime` |
| Event aggregator (`core`) | one receiver per agent | add, remove, poll | `ProviderRuntime` |
| Connections (`agent/daemon`, `connection.rs`, `server.rs`) | active count, connection state, rate limiter | accept, upgrade, request, forward, close | `DaemonStream` |
| Broadcaster and pump (`agent/daemon`) | senders by name, sequence counter | register, broadcast, number | `DaemonStream` |
| Backlog (`agent/backlog`) | status of every task | start, block, complete, fail | `WorkerPool` |
| Lifecycle and discovery (`lifecycle.rs`, `auto_link.rs`) | `daemon.json`, heartbeat, shutdown flag | start, write, heartbeat, link, shut down | `DaemonLifecycle` |
| Decision agent and engines (`core`, `decision/engine`) | request and response channels, status, reflection round | ask, poll, decide on a thread, answer, panic | `DecisionAgents` |
| Decision DSL and its integration (`decision-dsl`, `agent/daemon`) | a behaviour tree, blackboard, session, running path | desugar, tick, resume, attach, poll, clear | `DecisionFlow` |
| Sessions, rate limit, arbitration (`decision/runtime`) | idle and used sessions, a count and a queue, active questions | acquire, release, check, submit, complete | `ConcurrentDecisions` |
| Task decision engine (`decision/engine`, `model`) | stage, status, rounds, condition flags | process an output, answer, mark, persist | `TaskWorkflow`, `DecisionTaskStatus` |
| Task registry (`decision/runtime/persistence.rs`) | active and ended tasks, a file per task | create, update, complete, cancel, load, recover | `TaskRegistry` |
| Worktrees (`agent/worktree`, `core/pool`) | directories, branches, git's register, a record per agent | spawn, pause, resume, stop, clean up, recover, restart | `Worktrees` |
| Agent mail (`core`, its hosts in `tui` and `agent/daemon`) | outgoing queue, broadcasts, inboxes, a snapshot | send, process, prompt, mark, shut down, resume | `AgentMail` |
| Single-agent loop and stores (`core`, `cli`) | todos, tasks, phase, five files | begin, turn, resolve, verify, escalate, save, resume | `SingleAgentLoop` |
| Event log, audit, kanban, decision recovery | files, elements, levels | | not modelled: nothing in the program calls them, or they only report |
| TUI drawing and input, CLI arguments, LLM client, types | screens, connections | print, draw | not modelled: input and output around the parts above |

How they interact. A client's request reaches the session manager through a connection
task and the router. The session manager holds one lock for a whole tick, in which it
polls the channels of the provider threads (`EventAggregator::poll_all`), applies each
event to the slot and its Worker, lets decision agents answer, and hands protocol events
to the tick task, which broadcasts them after the lock is released. Provider threads,
connection tasks, the tick task and the accept loop run concurrently and share only
channels, the lock and two atomics. The pool itself is sequential: its methods run to
their end under an exclusive borrow, but callers interleave them in any order.

What is hard. Late events of a thread whose agent was stopped, restarted or failed;
threads that end without a word; requests that expire while somebody answers them;
answers out of order; a task handed from one agent to another; indices that shift when
slots come and go; connections that end on many paths but must be counted out once;
events broadcast while clients come and go; daemons of one workplace that share a
temporary file and die between its steps; a shutdown that waits for itself; a decision
that is made on a thread while its agent is stopped; a tree that is resumed in the middle;
files that are written one after the other by a process that may die in between; records
that are older than what they describe. `PROJECT.json` lists these hazards with the
line at which each bites.

What makes each component correct:

- queue: the index agrees with the lanes, lanes are first-in first-out, no request is
  answered twice, and the whole is nothing but a set of pending requests;
- pool: distinct ids, a focus that follows its agent, no decision agent without a slot,
  no task held twice that came through the backlog, no agent that waits for a human whom nobody asks;
- runtime: a working agent is being listened to, does not work for ever, and is not
  brought back by late events; no pid outlives its thread;
- stream: an exact connection count, a stream without holes, and no connection that
  lingers without a sender;
- life cycle: addresses that were bound, a `daemon.json` that is whole, and a daemon that
  ends when it is told to;
- decisions: an agent thinks while, and only while, a thread decides for it, answers come
  in order, reflection is bounded; a flow runs an action once per pass and reads only
  replies to its own prompts; sessions and rates keep their limits, no question is lost;
- tasks: bounded rounds of work through crashes and saves that fail, cancelled and ended
  tasks stay so;
- worktrees, mail, the single-agent loop: a worktree in use has a record, uncommitted work
  is not cleaned away, mail comes once and in order, what is saved as done is not done
  again, and every run ends.

## 2. Modules

`HumanQueueOps` holds the queue as a value `[lanes, index]` and its operations as
operators, so that both `HumanDecisionQueue` (the queue by itself, with arbitrary
callers) and `WorkerPool` (the queue inside the pool) use the same definitions.
`PendingRequests` is the abstract specification: a set of requests that are raised,
served by urgency and age, answered, dropped or expire, with what each operation hands
back. `HumanDecisionQueue` refines it with the
mapping `pending <- Pending`.

`SlotStatus` holds the status machine of a slot and the state machine of its Worker,
with `TransitionTo`, which moves both: the slot whenever its own table allows it, the
Worker only if its table does. `WorkerPool` and `ProviderRuntime` extend it.

`WorkerPool` has one action per method of the pool. A slot is
`[id, provider, status, task]`; a status is a kind and the reason it carries. The
decision agents are the domain of `mail`, which counts the requests each has not
answered. A decision output is a list of actions that the executor performs one after
the other without giving up the borrow; `exec` is the rest of that list, and no other
action is enabled while it is not empty. The pool does not guard everything it
offers: `assign_task` gives any task to an idle agent, and `restore_slot` takes any free id
with any status and task, whatever the next index, the focus and the backlog say. Both are
actions as they stand; `bypassed` is the history of the tasks that were given so although
they were not running or somebody held them, and `TaskExclusive` speaks of the others. The
pool may begin with a higher next index, as `new_with_worktrees` does.

`ProviderRuntime` splits a tick into poll, apply and decide, because provider threads
run while a tick is under way; the other operations of the session need the lock and are
enabled between ticks. A thread is `[agent, at, alive]`. Its stages follow
`run_claude`, `run_codex` and the mock provider, with each of their failures: no
executable, no process, an error result, a process that dies, output that cannot be
read. The channel of a replaced receiver is dropped with what it held.

`DaemonStream` follows a connection through `new`, `registered`, `rejecting` or
`upgrading`, `Connected`, `Initialized` and `closed`. The tick task numbers events and
broadcasts them one by one, so accepts and closes may fall between two broadcasts.
`sent` is a history variable. An event carries `n`, its place among all events, beside
the `seq` the code gives it, so that holes can be told from restarted numbers.

`DaemonLifecycle` runs several daemons of one workplace and several clients. A write of
`daemon.json` has the steps of `DaemonConfig::write` (open and truncate `daemon.tmp`,
write, rename, set permissions), each of which may meet what another daemon or a client
did in between; the file that a writer has open is followed through renames and removals
by the name it has. The start of a daemon and its heartbeat share these steps. Clients
take the steps of `auto_link`: read and look at the process, remove what is stale, spawn,
poll, give up. The command line reads a path where no daemon writes, as its code does.
`AwaitsServer` tells `main.rs`, which awaits the server task before it shuts down (TRUE),
from the tests of `lifecycle.rs`, which call `shutdown` at once (FALSE). With TRUE no daemon
ever reaches the steps of its shutdown; FALSE only adds behaviours, which is why the safety
properties are checked with it, and liveness is not. The file system
is external: `Overwritten`, `AfterRename` and `AfterRemove` say what it does to open
files. `bound` and `overlap` are history variables. Process ids are not used again.

`DecisionFlow` is the decision DSL: `DesugarRules` makes a tree of rules, a function from
addresses to nodes (the i-th child of the node at `a` is at `Append(a, i)`), and a tick is a
walk over the addresses: `TickX` is the call of a node of kind X and `LeaveX` the return of a
child to it, in the branch of `Node::tick` (nothing left of the path to resume along) or of
`Node::resume_at`. `phase`, `node` and `status` say where the walk is, `route` is the path of
the executor it resumes along, `path` the one the tracer takes down. What the code keeps on
the stack is the address, but for the counts of a `Parallel`, which are in `tally`. The slot is
held for a whole tick, so no operation of the slot falls between two steps of the walk, but
the provider thread may answer and time may pass: a prompt that waits may become late and a
cooldown may end at any time. `TickEnds` and `TickFails` are what the daemon does with the
result. What the nodes remember (`activeChild`, `attempts`, `cooling`, `pending`) outlives the
tick, as do blackboard, session and executor. Conditions are three: one on the provider's
output, one on the variable `decision`, and one that fails. `fired`, `clean` and `misread` are
history. `PromptFails` is a template that cannot be rendered or a provider thread that does not
start. `DesugarThen` and its companions only make sample trees for the runs; they leave out
the switch on a variable, a `when` with an `on_error` of its own, pipelines of more than two
steps and a subtree as an action (`desugar.rs:156`, `222`, `257`, `288`). The theorems do not
depend on them: they hold for every tree.

`DecisionAgents` is one work agent's decision agent. A poll starts a thread for the oldest
request; the thread decides (`TieredDecide`, which follows tiers, rules, the LLM engine and
the fall-back), writes the reflection round, sends its response and ends, or panics, each in
a step of its own. `generation` tells the threads of an agent that was removed.

`ConcurrentDecisions` holds the session pool, the rate limiter and the arbitrator, three
small machines of one file, each with its own specification; the arbitrator uses
`HumanQueueOps`. Where the code filters a queue, this module and `AgentMail` use `Select` of
`SequenceSelection`: the elements of a sequence at a set of positions, by a recursive
function, since the provers know nothing of `SelectSeq`.

`TaskWorkflow` is the task decision engine with the default process. Stage and status are
two machines that are moved by the same call. Every decision ends with `Persist`: the registry
changes its copy in memory and saves it whole, twice, and the engine ignores what comes of it.
A save may be refused, leave half a file, or be the last thing the process does; so the file
may be behind by any number of decisions. `Restart` is a new process that loads and recovers,
if the file can be read. `TaskRegistry` has the files of all tasks, each call of the store succeeding,
failing or being cut short. They share `DecisionTaskStatus`.

`Worktrees` keeps for each index the slot, the directory (none, clean, dirty), the branches,
git's register of worktrees, and the record with what a pause last saw. Every git command
or write may fail (`Mishap`), and people delete directories and branches (`Outside`). A
record is rewritten in place, so a write that fails may leave a torn one, which nothing
parses any more: saving, deleting and listing all records then fail (`Legible`). `NextIndex`
is what a new process computes: from the records, which it takes to be none if they cannot
be listed, and from the branches that the listing recognises, which are those not checked out
in a registered worktree. `Worktrees` has the slots again, with only what matters to a
worktree, since in `WorkerPool` a slot has none.

`AgentMail` has three hosts: the daemon, whose loop delivers but whose prompts carry no
mail; the loop of the interface; and the state of the interface under callers that deliver
as its tests do. Two mails of a millisecond share an id. The mailbox is in memory. A host that
shuts down saves it, the interface the whole and the daemon its broadcasts; a crash, or a save
that fails, does not. A start takes it up only if it is asked to resume and the snapshot is
whole, and then the snapshot is cleared; any other start begins with an empty mailbox, and
leaves the snapshot or, when the user is asked and declines, clears it. The two files of the
interface's snapshot are taken for one. Nothing ties a snapshot to the last run: `shown`, the
history of what prompts have carried, goes with it. `lostMail` is the history of what was
given up.

`SingleAgentLoop` is the headless run of the command line. Its program counter names the
point of the loop; `Hook` writes the agent's three files when its status or session
changed, and any write may be cut short. An expired session clears the transcript, and with it
the summary of the turn. A later run starts from what the files hold.
`source` and `stateSource` are history: the file a run has its backlog from, and that of the
run that wrote the state file. A run that resumes the state of a run that fell back on the
session file, on top of the backlog file, is `"mixed"`, and so are the runs after it.

Each `MC` module only adds constants; the `.cfg` files choose values. `MCComponents`
explores the components that share no state one at a time: the initial state picks one and
only that one moves. `MCDaemon` does so with the two sides of the daemon, `MCPoolLifecycle`
with the pool, its worktrees and the mail of its agents, and `MCPoolWork` with who holds a
task and the rounds the work on it goes through.

## 3. Runs

| Run | Instance | Shows |
|---|---|---|
| `pool_lifecycle` | 3 slots, 3 worker ids, OVERVIEW, mock and claude; 2 worktrees, 2 mishaps, a restart; 2 agents, 3 mails, 2 restarts | shape of the pool, focus, decision agents; worktrees in use have records, and paused work is kept; mail |
| `pool_work` | 2 slots, a task, 2 requests, a rate limit, hand-over policy; 2 rounds, a crash | a task that came through the backlog is held once; a blocked agent always has a request, if humans answer the head of the queue; rounds |
| `runtime` | 1 agent, 3 threads, fairness | channels, pids and late events; a working agent stops working |
| `daemon` | 3 clients, limit 2, 3 events, fairness; 2 daemons, a TUI and the command line | tracker, holes, numbers, replaced connections end; links, atomic writes |
| `components` | eight components, each by itself, fairness | see below |
| `pool_any_answer` | 2 slots, any request may be answered | **violated**: the wrong agent is released |
| `runtime_busy` | 1 agent, 2 threads | **violated**: a busy agent gets a second thread |
| `stream_fan_out` | 2 clients | **violated**: a second client silences the first |
| `lifecycle_signal` | 1 daemon as in `main.rs` | **violated**: a daemon ignores SIGTERM for ever |
| `mail_arrives` | 2 mails, fairness | **violated**: the interface never delivers a mail |
| `worktree_index` | 2 worktrees, 2 mishaps, a restart | **violated**: a new process hands out an index whose branch exists |
| `worktree_cleanup` | 2 worktrees | **violated**: the clean-up deletes uncommitted work |

What `components` shows, by component:

- human queue (2 agents, 3 requests): `IndexExact`, `LanesInOrder`, `AnsweredOnce` and the
  refinement `AbstractSpec`, for every sequence of operations;
- flows (four trees with every kind of node, ticked step by step): `ActionOnce`, no action
  that is not below a `Parallel` or a `Repeater` runs twice in a pass without errors, however
  often the tree is resumed; `OwnReply`, no prompt reads the reply to another one, where
  nothing above it can leave it waiting;
- decision agent (3 requests, 2 generations): `ThinkingHasThread`, `AnsweredInOrder`,
  `ReflectionLimit` and, under fairness, `DecisionArrives`;
- sessions (2 providers, 3 agents), limiter (2 a minute), arbitrator (5 questions, all
  strategies): `SessionsBounded`, `RateRespected`, `NoQuestionLost`;
- registry (2 tasks, an error, 2 crashes): `EndedStaysEnded`;
- loop (2 todos, 2 runs, a crash): `SavedDoneIsFinal` and, under fairness, `RunEnds`. The first
  was also explored with 5 runs and 3 crashes, where the runs that are excepted occur.

The mail of `pool_lifecycle` (2 agents, 3 mails, going down twice) shows `MailInOrder`: order
and no double giving along a run and those it was resumed from, and no mail that is neither in
the mailbox nor in the snapshot nor known to be given up. The workflow of `pool_work` (the 2
rounds that are the default, a custom answer, an unsaved decision, a crash) shows
`RoundsCapped`, that besides the limit every round is paid for by a custom answer, an unsaved
decision or a crash, and `CancelledIsFinal`, for a task whose file says that it is cancelled.

Bounds. Requests, ids, threads, events, channel lengths and mailboxes are counted only
upwards in the code, so every model caps them with a constant in the guard of the action
that makes one. They are large enough for the interesting cases: three requests put two
in one lane and one in another; three slots have one in front of, at and behind the
focus; two threads of one agent make a late channel; three clients make one that is
rejected while another is replaced; three events make a hole possible; two daemons are enough to tear a file and two clients
to spawn both at once; three requests make a reflection, a second one and the decision
that follows; two runs and a crash make a second process that finds the files of a first in
every state; two mishaps and a restart make a spawn that stops half-way, a torn record, and a
process that starts from them. Deadlock is checked except in `components`, `mail_arrives`,
`pool_lifecycle` (the pool is checked for it in `pool_work`), `worktree_index` and
`worktree_cleanup`, where a component that has used up its bounds, or a loop whose runs are
over, really has nothing left to do. In `pool_work` the workflow may end in one place only,
after a crash that left the file of the task cut short, and that end is a step of its own.

Fairness. `ProviderRuntime` assumes weak fairness of the event loop (a tokio interval of
100 ms whose tick waits for a fair lock) and of the progress of each thread. The second
is an assumption about the outside: a started subprocess exits sooner or later; the code
has no time-out for one that does not. It does not assume that a thread streams, that an
input comes or that anybody stops an agent. `DaemonStream` assumes weak fairness of each
connection task, which tokio polls whenever its channel is ready; it assumes nothing of
clients, accepts or ticks. In `lifecycle_signal`
`DaemonLifecycle` assumes weak fairness of the shutdown of each daemon, of `main` and of the
accept loop, which wakes up every 100 ms; nothing of heartbeats, clients, signals or crashes. `DecisionAgents` assumes that the daemon's tick polls for
ever and that a thread which has not panicked goes on (its call of the language model has a
time-out); not that requests come or that a thread does not panic. `SingleAgentLoop` assumes
that its one thread runs and that a provider's turn ends, if only because its channel is
closed; nothing of what the provider says, and crashes may come at any step. `AgentMail`
assumes that the host's loop, which wakes up at least every 250 ms, processes mail whenever
its own test lets it. The queue, the pool and the other components are passive and have no
fairness.

## 4. Proofs

TLAPS checks every theorem for all values of the constants allowed by the named
assumptions of the modules (`PoolAssumption`, `RuntimeAssumption`, `StreamAssumption`,
`LifecycleAssumption`, `LoopAssumption`, those of the components and the queue's), which only
give types, finiteness and non-empty capacities.

- `HumanQueueLemmas` and `HumanQueueProofs`, `QueueSafe`. The invariant is inductive as
  it stands: removing a request by its index entry needs exactness, exactness after an
  expiry needs that no id is held twice, which is the order of the lanes. The lemmas say
  what each queue operation does to ids, lanes and index.
  `QueueImplementsRequests` is the refinement: the initial state maps to the empty set, and
  each operation to the abstract one, given `QueueSafe`. The lemmas `PushRequests`,
  `RemoveRequests` and `DropRequests` say what becomes of the set of pending requests;
  `pop` needs that the first lane that is not empty has the most urgent ones and its head the
  oldest, `check_expired` that what expires of a lane is a prefix of it.
  `SelectLists` says what `Select` does: it lists the positions in their order. Induction
  over the length of the prefix goes by its least counterexample (`LeastMember`), because
  the library's induction rules cannot be instantiated.
- `WorkerPoolProofs`, `PoolSafe`: types, `PoolShape`, `DecisionAgentsInPool` and
  `TaskExclusive`. Inductive with the exactness of the queue inside the pool added. The
  argument about tasks: a task is given to a slot when it is `Ready`, so nobody holds it,
  when it is taken from the slot that holds it in the same step, or by a direct assignment or
  a restore, which look at nothing; then it is running and held by nobody, or it joins
  `bypassed` and the property says no more about it.
  `FocusStays` is an action property: only the operations that add or remove a slot change
  the length, one by one, and each moves the focus with the agent.
  `HumanRequestKept`: on top of `PoolSafe`, an agent blocked on a
  human has a request, provided that humans answer the head of the queue
  (`AnswerAnyRequest = FALSE`); without that the run `pool_any_answer` refutes it. A
  request leaves the queue only with the slot it releases, or with its agent.
- `ProviderRuntimeProofs`, `RuntimeSafe` and `LateEventsHarmless`. `ActiveIsHeard` is not
  inductive: it needs `Reached` (the session manager gives a slot only four kinds of
  status between steps; an event would wake one that waits for input and has no channel)
  and `Polling` (a tick polls only channels that exist, because the lock keeps others from
  dropping them). `PidsAreHeard` needs `PidInv` on top: the pid is the first thing a
  thread says (`SilentAtFirst`, `PidSentFirst`), a channel is polled once in a tick, and in
  the batch nothing that could drop the channel comes before it (`PidAppliedFirst`).
- `DaemonStreamProofs`, `StreamSafe`. The tracker needs the finiteness of the set of
  connections. A stream without holes needs to know what is still on its way:
  `PendingRun` (the pending events are the last ones made), `UpToDate` (a channel that is
  fed ends just before the first pending event) and `Fresh` (a connection starts with
  nothing). `NumbersAreRuns` carries the same along the numbers: from the event last
  received through the channel to the ones pending, each number is one or the next.
- `DaemonLifecycleProofs`, `LifecycleSafe`. `LinkedIsBound` needs `NamesBound`: every copy
  of a config, in either file, in a heartbeat or in a client, names a bound daemon, since
  each may become `daemon.json` later. `SingleWriterAtomic` needs `SoleWriter`: without an
  overlap at most one daemon holds `daemon.tmp`, the file it has open still has that name
  and holds nothing until it is written.
- `DecisionProofs`, about `ConcurrentDecisions`, `DecisionAgents` and `DecisionFlow`.
  `SessionsAreBounded` needs that each session has an id of its own and one place (`OnePlace`),
  that idle ones lie with their provider (`AtHome`), and counts what is in use and idle
  together (`RoomForAll`), because acquire moves a session from one to the other.
  `RateIsRespected`: what is allowed is counted, and a selection of distinct waiters is
  distinct. `QuestionsAreKept` needs a sound queue and `AskedOnce`, that a question is asked
  or queued and not both.
  `ThinkingIsMeant`, `AnswersComeInOrder` and `ReflectionsEnd` share one invariant.
  `InFlight`: one thread of this generation or one response. `OnTheWay`: collected, in work
  and waiting, one behind the other, are what was asked. `RoundPending` and `Counted`: the
  round of the slot counts the reflections since any point without a reset behind it, and
  the round that a decision wrote, but whose response is not yet collected, counts that
  decision too. `NoPending` is one more than any round, for every limit.
  `ActionsRunOnce` and `RepliesAreOwn` hold for every tree whose nodes hang together
  (`FlowsAssumption`), whatever its shape. Neither property is inductive.
  `OnceInv` adds that an action that has run is passed (`Passed`): during a walk, the walk is in
  a later child of a node above it or has come back to such a node; where the walk has
  stopped, a composite above the action has moved its active child beyond it, and the active
  children above that composite lead the next tick there (`Behind`). `NoPath` adds that such a
  tick follows no path: above an action that nothing repeats, the outermost composite leaves
  the empty one, so the active children alone resume the tree.
  `OwnInv` says that a prompt that waits is the one that asked last, that the active children
  lead to it and every decorator above lets the walk in (`Asking`), or that a `ReflectionGuard`
  above it will never open again (`Dead`): a guard counts the successes of others while its
  child waits, so a prompt may be left waiting for good. `Waits` is the converse, that a
  running node has a prompt that waits below it.
  The proof first sorts the steps of a walk into ten kinds (`FlowStepKind`: a node is entered,
  turned back, answered, awaited, the walk crosses to the next child, climbs, aborts, ends,
  begins, rests) and then shows what each kind does to the two invariants, so that the
  argument is made once for all composites and decorators.
  Before the proof, TLC checked the inductive invariant on eight more trees, in which guards,
  repeaters, subtrees and parallel nodes are nested; the run has four to keep it short.
- `ComponentProofs`, about the components that are left.
  `RoundsAreCapped` and `CancelledForGood` (`TaskWorkflow`): the cap on rounds is not
  inductive, it needs `Counts` (the count, in memory and in the file, is within the limit plus
  the custom answers) and `Paid`: what was granted exceeds the count in memory, and the one in
  the file, by the unsaved decisions and the crashes at most. A crash may take back many rounds,
  but each of them was not saved when it was granted. That a cancelled task stays so needs
  only that no transition leaves `Cancelled` and that recovery keeps it.
  `EndedForGood` (`TaskRegistry`): a task with a file among the completed ones has no other
  and is not active (`OneFile`), and an id that was not given out has nothing (`Unmade`).
  `TreesAreRecorded` and `PausedWorkIsKept` (`Worktrees`): an index has a slot only below the
  next one (`Seated`), so a spawn meets no slot; a record goes only with what the slot knows of
  the worktree, or when the slot has stopped and the worktree went before, or when no slot has
  it; the record of a paused agent knows of its uncommitted work (`PausedSeen`).
  `MailStaysInOrder` (`AgentMail`): queue, inbox and prompts are each in order, and what is in
  the queue was sent after what is in an inbox, what is unread there after what a prompt
  has shown (`QueueOrder`, `BoxOrder`, `ShownOrder`); the same holds of the mailbox in the
  snapshot (`SaveOrder`), which a resumed host takes up. A host that is down has no mailbox
  (`DownEmpty`), and every mail is somewhere or was given up (`Somewhere`).
  `DoneIsFinal` (`SingleAgentLoop`): the tasks of a run continue those of the backlog file
  (`Continues`), and neither the active task nor the one named by the state file is done, in
  memory and in the backlog file (`MemoryInv`, `FileInv`); the latter rests on `TurnInv`, that
  in a turn the metadata show the agent at work, so that completing the task changes the
  status and the hook writes the state.

Each safety property of these modules is also stated as a theorem of its own
(`LanesKeepOrder`, `PoolKeepsShape`, `StreamsHaveNoGap`, `LinksAreBound`, ...), drawn from the
theorem about the whole invariant.

Two attempts changed the models. `DoneIsFinal` could not be proved as `SavedDoneIsFinal` was
first stated, and TLC found why with more runs than the run has: a task is named by its
position; a run that fell back on the session file gives position n to another task, and if
it dies, the next run resumes "task n" on the backlog file, where that task is done. The code
does this, so the property excepts it now, with the history that tells such runs. And
`NoPending` was 99, which for limits of 99 and more is a round.

Only model-checked: the liveness properties `BusyEnds`, `ReplacedEnds`,
`DecisionArrives` and `RunEnds` (fairness and `ENABLED` are out of the prover's
reach). Every other property of the passing runs is stated by a theorem. That a tick of a
tree comes to its end is neither proved nor stated: it needs induction over the tree, and
`DecisionFlow` has no fairness.

## 5. Disagreements met while modelling

Seven are kept as runs, each refuting what a comment, a doc or a test says:

- `process_human_response` releases the agent at the head of the queue although the
  answer names another request (`core/src/agent_pool.rs:2026`);
- an input to a busy agent is accepted, because the guard looks for a receiver that the
  daemon keeps in the aggregator (`agent/daemon/src/session_mgr.rs:239`);
- every connection is registered under the name `conn`, so a new one, even one that is
  rejected, ends the one before it (`agent/daemon/src/main.rs:156`);
- after a signal `main` awaits the accept loop, which only the `shutdown` that follows
  would end (`agent/daemon/src/main.rs:190`): nothing is saved, no provider is
  terminated, `daemon.json` stays;
- the loop of the interface processes mail only when broadcasts are pending, so mail to one
  agent is never delivered (`tui/src/app_loop.rs:1272`);
- a new process computes the index of its next agent from a list of branches that leaves out
  those checked out in worktrees (`git branch` marks them with a plus sign, the code strips
  only the star), and from records that count as none when one of them is torn; after a spawn
  that stopped half-way it hands out the index of an existing branch, which the comment at
  `core/src/agent_pool.rs:151` wants to avoid (`agent/worktree/src/worktree_manager.rs:570`);
- the clean-up of idle worktrees trusts a record that only a pause brings up to date, and
  deletes worktrees with uncommitted changes by force
  (`core/src/pool/worktree_recovery.rs:191`).

Others, visible in the models but not kept as runs: the pump, and with it the sequence
number, is made anew for every tick (`session_mgr.rs:664`), where the protocol says that
`seq` increments for every event (`SeqRuns` states what holds instead); two clients that
spawn at once start two daemons, where the sprint plan wants a lock
(`sprint-03-auto-link-lifecycle.md:226`), and a reader may then meet an empty or torn
`daemon.json`, which `config.rs:205` rules out; a shutdown removes `daemon.json` whichever
daemon it names (`lifecycle.rs:208`), and a client removes by name what it found stale
(`auto_link.rs:83`), so that a serving daemon cannot be found; `daemon start`, `stop` and
`status` of the command line look for `daemon.json` below `<workplace>/workplaces/<id>`,
where no daemon writes (`app_runner.rs:873`), so that they spawn, time out and see no
daemon; `clear_all_blocked` only expires
requests where its comment says it clears the queue (`agent_pool.rs:2122`), and the answer or
the time-out of a request it left releases its agent from a later blocking, since both look
at the agent only (`agent_pool.rs:2237`); `assign_task` and `restore_slot` give a task that
another agent holds (`agent_pool.rs:1572`, `1365`), so that no task is exclusive but those
that always came through the backlog; an input
revives a stopped agent without the decision agent that was stopped with it
(`agent_slot.rs:667`); `execute_confirm_completion` forgets the task that its comment
wants completed elsewhere (`decision_executor.rs:492`); completing a task that was marked
`Blocked` leaves it so (`agent_pool.rs:1722`); starting a provider leaves the Worker
idle while the slot responds (`agent_slot.rs:667`); an error event forgets the pid of a
subprocess that still runs (`session_mgr.rs:772`).

In the newer modules: the commands of a flow are drained into the result of a tick before
`handle_tick_result` drains the blackboard again to dispatch them, so none is dispatched
(`decision_integration.rs:223`); the path to resume along is taken after the tracer has left
the level it is to name (`runtime.rs:65`), so that below composites it is empty and only their
active children resume the tree; a subtree that ends in an error leaves its scope on the
blackboard (`runtime.rs:1029`); a repeater repeats its child also after a success
(`runtime.rs:685`); a decision of the rule engine resets the reflection round, so
interleaved idle decisions lift the limit on reflections (`ReflectionLimit` says what holds
instead); a response cut inside a character ends the thread of a decision and leaves its
agent thinking for ever (`llm_engine.rs:497`); a response to a question that is not active
makes the arbitrator drop the current one (`concurrent.rs:541`); the stage `completed` is
reached with the status `InProgress`, from which `Completed` is refused
(`decision/src/engine/task_engine.rs:456`); a task that cannot be completed is dropped from
the registry's memory (`persistence.rs:431`); a half-written task file is skipped at the
next start; a refused save of a task is ignored, so a crash later takes back every round since
the last one that was accepted, and a cancelled task may come back
(`decision/src/engine/task_engine.rs:474`); a resume snapshot that was not taken up by the
next run stays, so a later run that resumes shows mail again that was read in between
(`tui/src/app_loop.rs:135`); a torn one keeps the interface from resuming at all; the daemon delivers mail and never puts it into a prompt; mail is marked as read
before the provider is found to be busy (`ui_state.rs:1638`); a half-written `backlog.json`
keeps every later run from starting, and a half-written `state.json` makes the next run fall
back on an older backlog, from which tasks that are done are done again, and whose active
task the run after it may look for in the newer backlog (`SavedDoneIsFinal` excepts both);
a turn that says nothing is
judged by the last summary, which may be of an earlier task (`app.rs:841`).

Facts that shaped the models: `process_expired_requests` has no caller in production and
is modelled as an operation somebody may call; `WaitingForInput` cannot be reached in
the daemon; `MultiAgentSession::complete_task` ignores the task id of its event; the body
of the command line's headless loop never runs (`cli/src/app_runner.rs:560`), so it is not
modelled; the effect handler of the daemon does nothing, so runtime commands have no
model.

## 6. Plan

Done: the human queue, the pool around it, the provider runtime, the event stream, the life
cycle of the daemon, and around them decisions, tasks, worktrees, mail and the single-agent
loop. What is left, in order of weight:

1. Proofs: every safety property of the passing runs is proved. What would say more are
   the lower parts of the liveness properties, such as that a thread that ends leaves an
   event to be polled, as invariants; and an abstract specification of the pool that
   `WorkerPool` implements.
2. `EventPump` items composed with `DaemonStream` and a client that applies events to the
   snapshot it began with.
3. Snapshot and restore of the session with the human queue, as an abstract "nothing asked
   is lost" that the code does not yet meet.

Not modelled, and why. Kanban, `decision/src/state/lifecycle.rs` and `recovery.rs` have no
caller outside their own tests; the event log is opened and never written; the audit log,
health and metrics only report; the event handler of the interface is not reached by the
protocol-only program, and the interface's own loop is built only with the feature `core`
(its handling of mail is modelled, the rest is rendering and input). Sprint planning,
stand-up and escalation are sequential bookkeeping. Rendering, argument parsing, file
formats, HTTP to language models, prompts, rule data, the parsers of the DSL and of provider
output, and logging carry no order of steps for a model to explore. They are most of the
repository's lines, which is why the models cover a small share of them.
