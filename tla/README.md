# pi-feats in TLA+

pi-feats extends the Pi coding agent: profiles, a workflow engine, a
scheduler, an HTTP API, a browser harness and a web console. This directory
holds TLA+ models of the parts whose correctness depends on the order of
events, the TLC configurations that check them on small instances, and TLAPS
proofs for all values of the constants.

1. Inventory
2. Modules, and how they correspond to the code
3. Runs, bounds and fairness
4. Theorems and their arguments
5. What is only model-checked
6. What is not modelled
7. Behaviours worth a look
8. Plan

## 1. Inventory

| Component | State | Operations | Interacts with |
|---|---|---|---|
| **Sequential Workflow** (`extensions/sequential-workflow.ts`, `extensions/lib/workflow-harness.ts`, `extensions/lib/workflow-evaluator.ts`) | SQLite per profile: `workflows`, `workflow_tasks`, `workflow_focus`, `workflow_collect_checkpoint`, `workflow_requirement_blocks`, event tables; per process: active tools, continuation counter, turn flag | seven tools, five `/workflow-*` commands, hooks `input`, `tool_call`, `turn_start`, `context`, `agent_settled` | the host (branch, active tools), System One (evaluator), other sessions of the profile through the database |
| **Pulse scheduler** (`extensions/pulse`) | SQLite: `pulses`, `pulse_control` (claim, lease, next run), `pulse_runs`, `pulse_state`, `pulse_tick_lease`; per process: the set of active workers | create, update, enable, delete; claim, renew, complete, fail, recover, finalize; take and release the tick lease | worker processes, Application sessions (results are appended) |
| **API applications** (`extensions/api-server/application-*.ts`) | SQLite: sessions per application and key, logs; per process: queues, coalescing buffers and timers | allocate, resolve and roll over a session; collect, flush, dispose; direct and application messages | API sessions, inbound and outbound handlers |
| **API server sessions** (`extensions/api-server/server.ts`, `stateless-prompt.ts`, `lib/profile-env.ts`) | cached live sessions, the environment mutex, discovered tools; session files | prompt, chat, one-shot, discover, create and delete a session, delete a profile | process environment, session files, child processes |
| **Browser daemon** (`extensions/browser-harness/daemon`) | client ids, multiplexed request ids, session owners, Chrome connection; the socket file | connect, route a request, response or event, remove a client, idle shutdown; probe, start | clients over IPC, Chrome over CDP |
| **Browser connection and CDP** (`extensions/browser-harness/connection.ts`, `client.ts`, `cdp/`, `steel.ts`) | shared leases and exclusive gate, socket status, pending calls, tab ownership, the mutation lane | lease, exclusive change, connect, attach, close, open, switch, authorize a tab | daemon, Steel, Chrome |
| **Browser domains** (`extensions/browser-harness/domains`, buffers of `cdp/`) | element references, console and network records, dialogs, page information | the harness's tools | the CDP session of the current tab |
| **Guardrails** (`extensions/guardrails`) | rule files; per turn: denials | judge input, a tool call, its result, the final answer | every turn |
| **Context memory** (`extensions/context-memory`, `lib/context-memory.ts`) | files per profile and per person | snapshot, tool, replacement by the API | settings, the system prompt |
| **Profiles and sandbox** (`extensions/profiles.ts`, `api-server/profile-store.ts`, `lib/profile-sandbox.ts`) | `settings.json`, `nono.json`, skill directories of each profile | create, clone, edit, delete, launch | child processes, the CLI, Skill sources |
| **CLI resources** (`extensions/cli-resources.ts`) | none of its own | enable and disable a skill from the command line | `settings.json` |
| **Skill sources** (`extensions/skill-sources`) | clones, mirrors, `skill_source_*` tables, a queue of publications per source | synchronize, install, update, publish | git, skill directories |
| **Browser profiles and discovery, remote hosts, SSH, catalogues** | none that is shared | list, format, run ssh | files |
| **Web console, Composio, conversation search** | none that is shared | pages, wrappers | the API server |

What is hard, and what makes each part correct:

* **Sequential Workflow.** Several sessions (processes) of a profile share one
  database. A tool call is one transaction, but the `input` handler reads the
  focus, awaits, and then runs two transactions. A child that ends moves its
  parent, which may end too. Trees change owner. Correct means: tasks run in
  order; a workflow's status agrees with its tasks'; parent and child agree on
  who waits; an ended workflow stays ended; a tree has one owner; the session is
  never shown a task nobody can advance; a Collect task needs a new user message.
* **The agent's turn** (Guardrails and the gate of the workflow). All sibling
  calls of a turn are preflighted before any of them runs, and an awaited rule or
  gate may act on a state that is gone. Correct means: one call per turn while a
  workflow has the focus; a denied answer does not reach the user; every
  run settles.
* **Pulse.** Schedulers may crash between claim and launch, leases expire under
  a worker that still runs, an operator recovers or finalizes a run while its
  worker finishes, schedules are edited during a run. Correct means: at most one
  running row per Pulse and the control row names it; a run is finished once,
  and by the run that is active; an idle Pulse has its next run.
* **API applications and sessions.** Requests interleave at every `await`. Correct
  means: no session id used twice, messages of a key handled in order and each in
  exactly one batch, no session prompted twice at a time, `process.env` put
  back, no request that waits for itself.
* **Browser harness.** Ids of several clients are multiplexed on one socket which
  may be replaced while calls are pending; processes race for one socket file;
  the current tab moves under a tool. Correct means: an answer reaches the
  caller that asked, every call settles, an exclusive change never overlaps a
  lease, the user's tabs stay the user's, a reference reaches the element that
  was shown, no console message is missed silently.
* **Profiles, context memory, Skill sources.** Every operation rewrites a whole
  file from what it read before its awaits, without a lock. Correct means: an
  edit that was answered and met nobody survives, what is personal stays
  personal, a launch obeys the settings, what was "published" was pushed.

The hazards, each with its line and the properties that watch it, are listed in
`PROJECT.json`.

## 2. Modules

| Module | What it holds |
|---|---|
| `WorkflowTables` | the database of a profile as a value and every database operation of `sequential-workflow.ts` as an operator on it; no variables |
| `SequentialWorkflow` | sessions that run those operators in transactions: the state machine, `Init`, one action per tool, command and handler step, `Spec` |
| `WorkflowProperties`, `MCSequentialWorkflow` | invariants and action properties; definitions and symmetry for TLC |
| `SequentialWorkflow_proofs` | lemmas about each operator on the tables, and the theorems: types, ownership, endings, order, waiting, acceptance, answers, focus |
| `PulseRuns` | abstract: what the scheduler promises about the table `pulse_runs` |
| `PulseScheduler` | daemons, workers and clients that share `pulse.db` |
| `PulseProperties`, `MCPulse` | invariants, action properties, fairness, liveness, and the refinement of `PulseRuns`; schedules and symmetry for TLC |
| `PulseScheduler_proofs` | the theorems about it |
| `AgentTurn`, `MCAgentTurn`, `AgentTurn_proofs` | one session's turns between guardrails and workflow gate |
| `ApiSessions`, `MCApiSessions`, `ApiSessions_proofs` | the API server's sessions, environment and discoveries |
| `Applications`, `MCApplications`, `Applications_proofs` | an API application: queues, coalescing, sessions of a route |
| `BrowserDaemon`, `MCBrowserDaemon`, `BrowserDaemon_proofs` | the daemon between its clients and Chrome |
| `BrowserConnection`, `MCBrowserConnection`, `BrowserConnection_proofs` | the connection, client and tabs of one Pi session |
| `Subsequences` | one operator, `Kept`: the members of a sequence that are in a set, in their order, with their positions named so that it can be proved about |
| `BrowserPages`, `DaemonSpawn`, composed by `BrowserHarness`; `MCBrowserHarness`, `BrowserHarness_proofs` | the tools on their pages; processes that find or start a daemon. The two share nothing: processes move where the plan has no calls |
| `ProfileStore`, `ContextMemory`, `SkillSources`, composed by `Profiles`; `MCProfiles` | the profiles' files and all that works on them. The three share the calls and the settings: a turn and an installation are calls of `ProfileStore` with steps of their own |

`SequentialWorkflow` and `AgentTurn` describe the same extension from two sides:
the first has the tables in full and takes a tool call as one step, the second has
the steps of a call and reduces the workflow to its current task.

### From the code to `WorkflowTables` and `SequentialWorkflow`

`db[w]` is a row of `workflows` with its `workflow_tasks`; a row that does not
exist has status `"none"`, a task that does not exist `"absent"`. The row
of `workflow_collect_checkpoint` is kept in its task (`NoRow` when there is none).
Message ids are numbers in the order of submission, so "a different entry" and
"a newer entry" can be told apart. Prompts, results, criteria texts and reasons
are dropped: a task keeps its type and whether it has criteria.

| Code | Model |
|---|---|
| `activateNext`, `resolveParentAfterChild` (mutually recursive) | `ActivateNext` on one row; `Ended` is the least set of workflows that end because `w` ended, and `ResolveParentAfterChild` informs the waiting task of every parent of that set at once. Stated as a least set rather than as recursion so that it can be proved about |
| `createRootWorkflow`, `createSubworkflow`, `cancelWorkflow` | `CreateRootWorkflow`, `HydrateWorkflow` (the definition of a pending row), `CreateSubworkflow`, `CancelWorkflow` |
| `sequential_workflow_record_result`, `_evaluate` | `RecordResult`, `EvaluateTask` with `RetryTask` |
| `restoreTaskAfterUnavailableEvaluation` | `RestoreTask` |
| `transaction()` of the harness: `BEGIN IMMEDIATE`, the operation, `checkpoint()`, saving the live stack, `COMMIT` | `Commit(s, d, stack)`; the operation's own guards are conjuncts of the action, and a call the code refuses (ROLLBACK) is no step |
| `stack()`, `focus()`, `pendingWorkflow()` | `LiveStack`, `InFocus`, `Pending`, over the *saved* stack and the *current* rows, as in the code |
| `tool_call` gate | `Callable`, and `tools[s]` for the restricted tool lists of definition mode |
| `automaticTaskEvaluation` inside the record call | the verdict of `Record`: `"none"` (no evaluator), an outcome, or `"unresolved"` (restore and block) |
| the `input` handler that answers a Collect task with the configured evaluator | `InputRead`, `InputRecord`, `InputEvaluate`, `InputSettle`: between them every other session may commit. `InputRead` leaves open whether the host has already appended the message to the branch (`workflow-harness.ts:188`) |
| the rest of the `input` handler | `InputPlain`, `InputOverride`, `InputRequirement` |
| a Skill file read that names Sequential Workflow | `SkillRequirement` |
| a process that stops and starts | `Restart`: tables stay, the handler in flight is lost, the host offers all tools |

`asked` is a history variable, read only by properties: it records when a Collect
task began to await its user, and whether its next answer is `excused` from being
new, because an automatic evaluation asked again before Pi had appended the judged
message to the branch, or because another session adopted the workflow.

Abstractions worth knowing. (1) The input handler may override a pending
definition and start another from the same message; the model uses two messages.
(2) The classification of a message or Skill is one step: the code re-checks
`focus()` inside the transaction it ends with, so what happens during its
`await` shows in that check. (3) A settings file that cannot be read behaves as
an unresolved decision of `"system_one"`. (4) The evaluator setting is read per
call; `Evaluator` is the set of values it may have during a run. (5) The
`attempts` column of tasks other than Actions is unbounded in the code;
`AttemptBound` caps it in the guard `MayEvaluate`.

### From the code to `PulseScheduler`

`row[p]` joins the rows of `pulses` and `pulse_control` of Pulse `p`; its
`claim` is `active_run_id`, `claim_owner` and `lease_expires_at`. `run` is
`pulse_runs`, `tick` is `pulse_tick_lease`. A schedule is the set of
minutes it names and time is counted in minutes, so `nextRun` is the least later
member. How long a lease lasts is left open: it is valid when taken or renewed
and may expire at any later moment, in particular before the next renewal.

| Code | Model |
|---|---|
| the constructor of `PulseStore`: running runs read, then each adopted | `OpenRead`, then `OpenAdopt` per run, by any process that opens the database |
| `create`, `setEnabled`, `delete` | `Create`, `SetEnabled`, `Delete` |
| `update`: two statements, no transaction | `UpdatePulse`, `UpdateControl`; `editing` is what is still to be written |
| `recoverExpiredClaims`: a query, then a transaction | `RecoverRead`, `RecoverApply` |
| `finalizeRunning` | `Finalize` |
| `acquireTickLock`, `claimTickLease` | `StartDaemon`, `TickFree`, `TakeTick` |
| the loop of `tick()` up to `await heartbeat()`, then `claimDue` and the launch | `Poll`, `ClaimDue`; a signal (`Stop`) may come between |
| `executePulse`: renewal timer; `complete` or `fail` at the end | `Renew`, `Finish`; `FinishLocked` when both find the database locked |
| the `finally` of `tick()` | `Drain` |
| a daemon that dies; its child processes | `Crash`, `OrphanEnds` |
| a client process that stops between two of its statements | `ClientStops` |

`released` (runs that recovery or an operator ended) and `raced` (Pulses whose
next run was written from a row that had changed) are history variables.

Abstractions worth knowing. (1) Results, handoffs, session ids, names and
profiles are dropped; `deleteProfile` is a `Delete` of several Pulses. (2) The
short reads before the single statement of `setEnabled`, and before the
transaction of `finalizeRunning`, belong to their action; an edit that slips
into that gap has the effect `raced` describes. (3) The statements of `create`
are one step. (4) An id is made of the minute of creation, so an id is used
again only for a Pulse created in the minute of the deleted one: `born`. (5)
A run of TLC names in `Clients` what happens beside the daemons; without
`"open"` nobody adopts anything.

### From the code to the other modules

Each definition's lines are in `PROJECT.json` under `map`. An action runs from one
`await` (or callback) to the next.

**`AgentTurn`** (`guardrails/index.ts` and the hooks of `workflow-harness.ts`; the
loop between the hooks is Pi's). `UserInput` is the input handlers; `TurnCalls`
and `TurnAnswers` a turn that calls tools or answers, the latter with the output
stage and its single reflection; `PreTool` the guardrails' `tool_call`;
`ReadSkill` and `WorkflowGate` the workflow's `tool_call` before and after the
classification of a Skill file; `Execute` a wrapped tool, which looks at the
task again (`AssertOperation`); `PostTool` `tool_result`; `TurnEnds` and
`AgentEnds` the ends of a turn and of a run, with at most two continuations per
unchanged key; `Abort` and `Refocus` (`/workflow-suspend`, `/workflow-focus`)
come at any moment. A rule is its mode and its stage; what a rule matches and what
the judge says is open. History: `kept`, the workflow in focus at `turn_start` has had it since.

**`ApiSessions`** (class `ApiServer`). `Begin` and `Route` admit a request;
`Lookup`, `List`, `Opened` are `getSession`; `Check`, `Prompted` a prompt;
`Join`, `Enter`, `Leave` are `withProfileEnvironment`, its promise chain being `mutex`,
with `env` for `process.env` and `old` for what `finally` restores; `Sandbox`,
`Find`, `ChildEnds` are `runSandboxedPrompt`; `OneShot` a stateless completion;
`Discover`, `Awaited`, `Learned`, `Invalidate` tool discovery; `CreateList`,
`CreateWrite`, `Drop`, `Unlink`, `RemoveDirectory` creation and deletion;
`Configure` an edit of the profile's sandbox setting. A session's file is the
sequence of its turns. History: `overlap` and `switched`, the sessions that
two requests worked on at once and the profiles reconfigured or created anew.

**`Applications`** (`application-runtime.ts`, `application-store.ts`). `Receive`,
`InboundFails`, `Collect` take a message into its buffer; `Flush` is a timer;
`Resolve`, `List`, `Write`, `Record` find, create and record the session;
`Handoff`, `Prompt`, `Prompted` use it; `Reload` replaces the runtime, `Crash` the
process; `RemoveActive`, `Create` and `Delete` (a session made or deleted through the
profile's own routes) and `Midnight` are the operator and the calendar. Calls with
one key run one after the other (`withQueue`). An id is a prefix, a day and a sequence
number, or `Foreign`; a Direct Mode client may name either kind (`Names`), the id that
`nextSessionId` gives next included. `ResolutionFails` is one action for the awaits of
the resolution that may throw (`List`, `Write`, the handoff of a roll-over), each of
which ends the call and gives the queue back. History: `created` and `deleted`, the
files that were made and deleted by hand.

**`BrowserDaemon`** (`daemon/*.ts`). A socket connection has two ends (`near` is the
client's, `far` the daemon's) and two ordered lines of messages. Client transport: `Connect`,
`Connected`, `Refused`, `ConnectTimeout`, `Receive`, `SocketClosed`, `Close`, `Ask`,
`AskTimeout`. Bridge: `TryConnect`, `Discovered`, `SocketOpens`,
`AttemptTimeout`, `SocketDrops`, `SocketGone`. Server: `DaemonReads`, `WaitEnds`,
`RequestTimeout`, `ClientGone`, `Shutdown`. Chrome: `Answer`, `ChromeEvent`.
Attempts to reach Chrome are numbered, and a multiplexed request remembers the
attempt on whose socket it went out. Two fields are not in the code: `tr[c].held`, the
sessions the client was told of, and `of` in a response, the request that it answers.

**`BrowserConnection`** (`connection.ts`, `client.ts`, `cdp/`, `steel.ts`,
`util/tool.ts`). A call goes through `Begin`, `Lease` or `Enter` (an exclusive
change, then `Dispose`, `Disconnect`, `Revive`), the client's start and health check
(`Alive`, `Probe`, `Endpoint`, `Opens`, `DialFails`, `AttachFails`), the choice of a
page (`Targets`, `Attach`, `Enabled`), the harness window (`WindowDone`,
`WinTargets`, `Create`, `Given`), and its own work (`Check`, `Tabs`, `OpenTab`,
`Switch`, `Switched`, `Handle`, `Act`, `Authorize`, `CloseTab`). Around it: `Abort`,
`Drop` (the socket), `Popup`, `TabGone`, `Consume`. `ListTabs` is `client.listTabs(false)`, which
`browser_navigate` and `browser_list_tabs` run: it keeps ownership and authorization
only of the tabs it lists, and an open tab that shows an internal page is not among
them. `Endpoint` is Steel's endpoint, which may be refused, may create a session whose answer
is lost, or may fail to save its state. History: `dropped`, the open tabs that a listing
took from the registry.

**`BrowserPages`** (`cdp/session.ts`, the buffers, `domains/*`). `Script` gives each
tool as a sequence of steps: a request to the tab that is current when it is sent, or
a look at the current tab's session. `Take`, `ReadTree`, `Boxes`, `Diff` make a
snapshot; `ResolveRef`, `Locate`, `Act`, `Free`, `Press`, `Lift` use a reference;
`Look` and `Info` the page information and its cache; `Goto`, `CloseDialog`, `AttachTab`,
`Enable`, `Own` the rest; `ReadConsole` and `ReadNetwork` the buffers. The browser's
part is `Render`, `Leave`, `Say`, `Alert`, `Dismiss`, `Traffic`, `Drop`, `Outside`.
An element is a number that its renderer process gave it; `Navigated` stays in the renderer or
goes to another one, which begins its numbers anew. A click notes the place of its
element (`box`), and `Press` hits what is there when it comes: the element, or, when the page has
changed in between (`Slides`), any that is.
History: `shown` (the element shown under each reference, and its renderer), `mixed`
(references published on another tab than they were read from), `reader` (how far
an agent read a console), `informed` (the last navigation that a read which ended well was to
see), and of a call `hit`, `slid`, `due`, `stale` and `cut`.

**`DaemonSpawn`** (`spawn.ts`, `server.ts` start and stop, `index.ts`). `Ensure`,
`Exists`, `Probe`, `Acked`, `Rejected`, `ProbeTimeout`, `Unlink`, `Join`, `Quit` are a
process; `Clear`, `Bind`, `Serve`, `ReadLine`, `SockCloses`, `Shuts`, `StopServer`,
`Exit`, `Crash`, `Orphaned` a daemon. History: `excused`, something happened after
which a daemon may be out of reach (two probes that meet, a timeout, a crash, a full daemon).

**`ProfileStore`** (`profile-store.ts`, `cli-resources.ts`, `profiles.ts`). An edit is
`Begin`, `Find`, `Read`, `Materialize` (skills), `Open`, which truncates
`settings.json`, `Write`, and `Policy` (`nono.json`); `RemoveSkill`, `Exists`, `Fresh`,
`MakeDirectory`, `Undone`, `Remove` are the other operations, `Launch` and `Sandbox` a
launch. `WritePolicy` is the second await of `ensureProfileSandbox`; a directory, a copy or a
policy that cannot be written undoes a creation. PUT settings reads nothing: it writes
one of `Bodies`, a bare body or the settings its client has read. A field of the settings
remembers the call that wrote it. History:
`disturbed`, the calls that another call of the profile overlapped.
**`ContextMemory`**: `Ensure`, `SetDefault` the default configuration, `ReadOperational`,
`ReadPersonal` the snapshot, `Tool`, `Target`, `WriteTemporary`, `Rename` the tool,
`Put` the API, `Forgotten` deletion with the profile.
**`SkillSources`**: `Fetch`, `Clear`, `Copy`, `Scan` synchronize; `Publish`, `Turn`, `Plan`,
`Replace`, `Commit`, `Push`, `Record` publish, in turn per source; `Install`, `CopyIn`,
`Resync`, `Take`, `Place`, `Forget` are installations; `Upstream` is
somebody else's push. `Fetch`, `Copy`, `Scan`, `Replace`, `Commit` and `Take` may fail, each
leaving what it had done. History: `pushed`, `reset`.

Faulty variants of some operators, each commented `mutant`, stand before
the operator they distort. Nothing uses them but the mutation tests listed in
`PROJECT.json`, which show for every property a plausible slip that breaks it.

## 3. Runs

| Run | Instance | What it shows |
|---|---|---|
| `nested` | 3 workflows, 2 sessions, 2 tasks, 2 attempts, nested definitions with and without criteria | types, mutual waiting, one owner per tree, a focus that can advance, acceptance in turn, ended workflows stay ended, over creation, retry with a second child, cancellation, adoption and cascades |
| `definition` | 1 workflow of 2 tasks, 2 sessions that adopt it from each other, 2 user messages, both definition modes, both evaluators (207,839 states) | a definition is supplied once; tasks stay in order; a Collect task takes a message newer than its question, although the input handler reads, records and judges in three transactions and may be interrupted or restarted |
| `pulse_claims` | 1 Pulse, 2 runs, 2 daemons, 3 minutes, schedule {1, 3}; adoption, recovery, enabling | `pulse_runs` implements `PulseRuns`; the control row names every running run; work is not done twice unless an operator took it from the first worker; a worker that lost its run changes nothing |
| `pulse_live` | 1 Pulse, 1 run, 1 daemon, 2 minutes, 2 schedules; adoption, edits, deletion, recovery, finalization; `FairSpec` | an idle enabled Pulse has a next run; claims end; due Pulses are claimed |
| `agent_turn` | 2 sibling calls, 2 inputs, 1 command, 1 extension of a run, an Action and a Collect task; `FairSpec` | one call per turn in focus; a denied answer is replaced; an external tool runs in the task the gate saw; a run settles |
| `api_sessions` | 3 requests of 7 kinds, 2 profiles, 2 sessions, 1 reconfiguration | environment put back; one prompt per handle and child; turns that follow each other extend one file; discovered tools are kept; nobody is stuck |
| `applications` | 3 calls, 3 identities (one ignored), 2 profiles with one prefix, 2 ids a client or operator may bring (one of them the second id of the first day), 1 midnight, reload, removal, crash, or session made or deleted by hand (1,559,215 states) | buffered messages are flushed and sent at most once; the day's sequence goes on unless a client named its next id; the active session exists unless deleted by hand; conflicts come from other queues or from a hand; a conversation is cut only by a roll-over or a named session |
| `browser_daemon` | 2 clients, 2 socket connections, 2 sessions, room for 1 client, 1 request each, 2 attempts, 1 event | answers match; requests end with their socket; events follow the attachment; the idle timer counts exactly while nobody is registered; every connect settles |
| `browser_connection` | 3 calls of 10 kinds (read, list, act, navigate, new; new, authorize, close, switch; setup and release), 1 tab of the user, 3 of the harness, 1 fault (815,179 states) | leases keep their client; those that wait are served; handlers do not mix; the user's tabs are not owned; the session rests on no tab it may not control, unless a listing dropped it; new tabs differ; Steel's session is known |
| `profiles` | 21 groups of three calls on one profile, with a second one to clone (1,197,855 states) | settled edits survive all but a PUT settings; personal facts stay personal; launches follow the settings; published means pushed; memory keeps within its limits |
| `browser_harness` | 12 groups of three tool calls on 2 tabs, every tool beside a snapshot, buffers of 2, answers of 1; 2 processes and 2 daemons, 1 fault (1,419,963 states) | references reach what was shown, and clicks the place where it was; no console message is missed silently; page information is as new as what a read has taken in; nothing is left behind; a daemon that serves can be reached and does not linger |
| `memory_limit` | the persons of two applications | violation: an identity's memory grows past its limit (`context-memory.ts:147` against `README.md:345`) |

**Bounds.** Three workflows are the least that give a grandparent cascade, and
two children of one retried task beside it; two tasks give "last task" and
"another follows"; two sessions give every race over ownership. `MaxActionAttempts`
is 5 in the code and at most 2 here, enough for "below" and "at" the limit. The two runs are
split by theme because definition mode, user messages and nesting do not need
one another to go wrong: `nested` has the children, and `definition` one workflow, for
whose answers two sessions compete. Workflows and sessions are symmetric: no operator
chooses between them by identity, and no liveness property is checked under symmetry.

In the Pulse runs, two runs are the least in which a late worker meets its
successor; two daemons give every race over the tick lease; three minutes let a
failed run be retried after the minute it skips (schedule {1, 3}). `Run` bounds
how often a Pulse is claimed: with no unused run left `claimDue` waits, and
`Exhausted` says so where a property depends on it. `MaxTime` bounds the clock.
One Pulse is enough for TLC: Pulses meet only in `claimDue` and in recovery, which
handle them row by row, and the theorems hold for any number.

In the other runs three calls are the least in which one waits, one acts and one
undoes what either relies on; which kinds of call they are is listed in the MC module,
each group being a race the code does not exclude. `MaxFaults`, `MaxEvents` and
`MaxChanges` bound what the outside does: one fault at any moment; two that
compensate each other are not covered. Two attempts to reach Chrome give an old and a new socket, two
connections per daemon a duplicate client and its predecessor.
In `browser_daemon` what can happen to two clients can be seen with one request
each, because ids are handed out by the daemon and not by the client; the theorems
hold for any number.

**Deadlock** checking is on for Sequential Workflow and Pulse, whose processes can
always restart, create or open something. The other runs bound their calls,
requests or events and everything in them ends, so there it is off; that
nobody waits for ever is instead stated by `NobodyIsStuck`, `BufferedWillFlush`, `ConnectSettles` and
`WaitersAreServed`, each of which names the step still to come, and by `Settles`.

**Fairness.** `FairSpec` of the Pulse scheduler assumes: a worker's child process ends and
`complete` or `fail` is called (or finds the database locked); leases run out, for
they are deadlines; a daemon goes on polling, a `while` loop with a timer; and
an operator runs `pulse recover` again until it is done. The last is strong for
`RecoverApply`, because the process may stop between the query and the
transaction each time; without it a claim of a crashed daemon lasts for ever,
as the comment at `store.ts:152` intends. Nothing is assumed about starting
daemons, renewals, edits or the clock. `DueIsClaimed` asks for a daemon that
serves from some time on, because every daemon may stop.
`FairSpec` of `AgentTurn` assumes that the host drives a run it has started to its end
(`WF_vars(Loop)`); `Settles` asks for a model that stops calling tools. The other
specifications assume none: their properties are safety.

## 4. Theorems

TLC checks small instances; the theorems hold for every value of the constants
that satisfies the module's named assumptions (`TablesAssumption` with
`SessionAssumption`, `PulseAssumption`, `AgentTurnAssumption`, `ApplicationsAssumption`,
`ApiAssumption`, `DaemonAssumption`, `ConnectionAssumption`, `PagesAssumption` with
`SpawnAssumption`). These say only that the constants have the right types and that
values such as `NoSession` are not among the things they stand beside; TLC evaluates
each of them in the run of its module.

| Module | Theorem | Property |
|---|---|---|
| `SequentialWorkflow_proofs` | `TypeCorrect`, `AllTypesHold` | `TypeInv`: `TypeOK` without the clause that a saved stack is a sequence; and `TypeOK` |
| | `OneOwnerHolds` | `TreeHasOneOwner` |
| | `DefinitionStays` | `DefinitionIsKept` |
| | `TerminalStays` | `TerminalIsFinal` |
| | `TasksStayInOrder` | `TasksInOrder` |
| | `WaitingStaysMutual` | `WaitingIsMutual` |
| | `TasksAreAcceptedInTurn` | `AcceptedInTurn` |
| | `AnswersAreNew` | `OwnerNeedsNewMessage` |
| | `FocusAdvances` | `FocusCanAdvance` |
| `PulseScheduler_proofs` | `TypeCorrect`, `RunsAreClaimed` | `TypeOK`, `RunningIsClaimed` |
| | `RunsKeepLifeCycle`, `OneActiveRun` | the refinement `RunLifeCycle`, and `SingleActiveRun` of `PulseRuns` |
| | `WorkIsNotDuplicated`, `LateWorkersAreIgnored` | `NoDuplicateWork`, `LateWorkerIsIgnored` |
| | `IdlePulsesHaveNextRun` | `IdleHasNextRun` |
| `AgentTurn_proofs` | `TurnInvariant`, `TurnKeepsItsTask` | `TurnInv`, and `Inv` from it |
| | `FocusedTurnRunsOneCall` | `OneCallWhileFocused` |
| `Applications_proofs` | `ApplicationInvariant`, `InvHolds` | `ApplicationInv`, and `Inv` from it (`TypeOK`, `NextIdIsFree`, `CurrentExists`, `SentOnce`, `ConflictsComeFromOtherQueues`) |
| | `BufferedWillFlushHolds`, `ConversationContinuesHolds` | `BufferedWillFlush`, `ConversationContinues` |
| `ApiSessions_proofs` | `ApiInvariant`, `SessionsAreServed` | `ApiInv`, and `Inv` (`TypeOK`, `DiscoveredToolsAreKept`, `NobodyIsStuck`) |
| | `HostEnvironmentReturns`, `PromptsDoNotOverlap` | `EnvironmentRestored`, `HandleServesOne` |
| | `SequentialTurnsHold` | `SequentialTurnsExtend` |
| `BrowserDaemon_proofs` | `DaemonInvariant`, `ConnectionsAreServed` | `DaemonInv`, and `Inv` (`TypeOK`, `EventsFollowAttach`, `IdleMeansNoClients`, `ConnectSettles`) |
| | `AnswersReachTheirRequest`, `RequestsEndWithSocket` | `AnswersMatch`, `RequestsFailWithSocket` |
| `BrowserConnection_proofs` | `ConnectionInvariant`, `TabsStayWithTheirOwners` | `ConnectionInv`, and `Inv` from it (`TypeOK`, `SessionIsControllable`, `UserTabsAreNotOwned`, `NewTabsDiffer`, `SteelSessionIsKept`) |
| | `LeasesKeepTheirClient`, `WaitersHaveAServer`, `HandlersKeepTheirTab` | `LeaseKeepsClient`, `WaitersAreServed`, `HandlersDoNotMix` |
| `BrowserHarness_proofs` | `SpawnInvariant`, `DaemonsAreReachable` | `SpawnInv`, and `DaemonIsReachable` from it |

### Sequential Workflow: transactions and moves

Every step of the system either leaves `db` alone or is a
*transaction*: one *move* of the tables (`Move(d, e, s)`: a new root, a pending row,
a definition supplied, a child, a recorded, evaluated, restored, cancelled or
dropped task, an adoption, or nothing), a second one when a record is judged
in the same call, and then the checkpoint (`StepIsTransaction`). So a
property of the tables needs one proof per move, not one per handler and
session.

*Types and ownership.* Most operators keep the parent, the session and the existence of
every row (`Keeps`, `KeepsOwners`), which settles ownership for them; a new row takes its
parent's session; and an adoption moves the least set closed under
`parent_workflow_id`, which contains a row exactly when it contains its parent
(`TreeHasChildren`, `TreeHasNoOther`). That the parent's row exists and that unused rows have no parent
(both part of `OneOwner`) is the strengthening that a new row needs, for it
could otherwise already be somebody's parent.

*Definition and ending.* `BaseInv` is `TypeInv` with two facts: a row without a definition
has no tasks (`Blank`), and an input handler between its transactions holds a
Collect task of a workflow that has its definition (`HandlersAnswerCollect`), so what it
writes late cannot fill a pending row. Each move then satisfies `Progress(row, new)` for every row:
types and criteria stay, an accepted task stays accepted, an ended row keeps its
ending and accepts nothing. `Progress` is transitive, so it holds for
a transaction, and both action properties follow.

*Order.* `InOrder` adds to `RowInOrder` that only a workflow task that has begun names a
child. Without it the invariant is not inductive: a task that is retried runs as a
task without a child, and `Matches` tells the two apart by the child column. The
proof takes each operator's effect on the front task (`Stands`): everything before is
accepted, nothing after has begun, and the operator moves only the front.

*Mutual waiting.* `Mutual(d)` says that an active parent waits for an active child of its own, that
an active child of an active parent is awaited, and that a pending row is
a root. When a workflow ends, its parent must be told, and perhaps the parent's
parent. The model states the cascade as the least set `Ended` of workflows that end
with `w`; the proof needs three facts about that set: `w` is in it (`EndedHasOrigin`), with a child
so is the parent that this child completes (`EndedGoesUp`), and nothing else is (`EndedNoOther`). `MutualBut(d, w)` is the state in the
middle: mutual but for the parent of `w`, which is not told yet. Each ending
establishes `MutualBut`, and `ResolveParentAfterChild` turns that into `Mutual`.

*Acceptance.* `AcceptsInTurn(d, e)` is `AcceptedInTurn` for one move, without the property's exception: a task
with criteria is `evaluating` before the move that accepts it. For a task that the cascade
accepts, `Ended` contains the child it waited for, which has completed (`EndedEnds`). A record that is
judged in the same call is two moves, and the task is `evaluating` only between
them; `JudgedAccepts` shows that this needs System One, which is the exception.

*Answers.* `AnswerInv` says why the answer to a Collect task is new. Messages are numbered
as they are submitted (`Numbered`). While a Collect waits and is not excused, its owner
either has a message newer than the question or is held (`OwnerIsHeld`): it is blocked,
or the checkpoint is the very message it has, and its handler holds no other old
message that might still reach the branch; and no handler that read the workflow holds
an old one (`OldMessagesAreHeld`). What a transaction leaves of a task (`Leaves`) is
shown once; each handler step then only says which messages it takes.

*Focus.* `StackInv`: whoever waits in the saved stack of its session has the child it
waits for above it (`Leads`). A transaction gains children only for the session that
runs it and never gives a workflow to a third session (`Goes`), so the stacks of
other sessions stay good; the running session filters its own, and `Kept` keeps the order
of what it keeps because it takes the members by rank. A step saves the stack it had, that
stack with a new row on top, nothing, or a path along which each workflow waits for the
next (`Saves`), and each of these leads.

### Pulse

`IInv` is `RunningIsClaimed` with the shape of the tables: an
existing row has a schedule, a leased claim names a run, and a job's run names a
Pulse. Most steps are *quiet*: they keep every claim and every run (`QuietSteps`).
The seven others are taken one by one: a claim needs a row without claim, and
by `RunningIsClaimed` no run of that Pulse is running then; whoever releases a claim ends
the run it names; adoption writes a claim only where there is none, so it never
displaces a running run. That makes claiming a `Start`, every ending an `End` and
deletion a `Drop` of `PulseRuns`, and every other step a stutter. About workers that
lost their run, `History` adds: a live job's run is running, deleted or released; a
claim and a recovery in progress name a run of their own Pulse; and a released run
is named by no claim but one that adoption wrote under the owner `legacy`, which
no worker is. The last is what makes the late worker harmless although a run that
is over may be adopted.

`IdleHasNextRun`: every step that releases a claim, creates, enables or edits
computes the next run from the schedule it reads, and `nextRun` gives a time whenever
the schedule names a later minute (`NextRunWhenLater`, by well-foundedness of `<`). Where
the row it read is not the row it writes, the Pulse goes to `raced`, which is the
property's exception; the proof shows that there is no other.

### AgentTurn

`TurnInv` is `TypeOK` with two facts about a turn that kept its focus (`kept`) and
one about the answer. `KeptTurn`: while a call is not yet preflighted the focus is there, at most
one call has been let through, and if one has then `dispatched` says so. It is
`dispatched`, set by the gate before any sibling runs, that refuses the
second. `KeptTask`: what the gate saw of the task is still true of a call that it let through
and that has not run. Each hook either leaves the calls alone or moves one of
them one state on; the stages of a denial are taken in `TurnAnswers` alone.

### Applications

`ApplicationInv` follows a call through buffer, queue and section. `Buffers` and `Timed`: a
buffer holds the calls that are buffered, each once, and while it holds any the timer of
its version is set. `Entries`: a call that is dispatched is an entry of one leader,
and has not been sent before that leader prompts (`SentOnce`). `Queues`: a queue holds
those that wait for its key and the first of them alone is past it. `Fresh` and
`IdentifiedAt`: an id is made up in the section, unless the call brought it, and its
sequence number is one that the rows have reached or reach next. `Numbered`: every row
is that of a call which either named its id or made it up, and then with a number of the
row's day not above its sequence. This gives `NextIdIsFree` with its one exception: a row
that has the next id is of a call that named it. `Sections` says why a conflict or
a second session of a route needs somebody else: a file that appears under a call in its section
is of another queue or made by hand, and so is the active session that it finds.

### ApiSessions

`ApiInv` says who has what: `Asked` (a request that arrived names a session),
`HandlesAreOpen` (what is cached or prompted was opened, by a request that is past
opening and will not open again), `PromptsAreAlone` and `ChildrenAreAlone` (a prompt's handle is busy,
a child's session is in `sandboxBusy`, and nobody else's), `HostIsKept` (what the
holder of the environment will restore is the host's), `NobodyIsStuck`, and
`DiscoveryOnRecord` (the discovery on record runs, or ended and left its tools). A step moves one
request along the arrows of `Arrow`; its effect on the promise chain, on the
environment, on cache and handles and on the tools is proved separately, one lemma per part,
and the invariant follows part by part. `HandleServesOne` needs `HandlesAreOpen`: a handle
that is opened twice would be marked free while it is in use.

`SequentialTurnsExtend` needs a second invariant, `TurnsInv`. `Homed`: a file belongs to the
session of the request that wrote it, and so does every handle and child that holds it.
`Steady`: while its sandbox is not switched, a profile is prompted in this process or in
children, never in both. `InTurn`, for a session that no two requests worked on at
once: at most one request works on it, its files hold turns that extend one another, and
its cached handle knows the end of its file.

### BrowserDaemon

`DaemonInv` is a conjunction of what each part of the daemon keeps:

* `BridgeOK`: an open socket belongs to the current attempt, which is the newest, and
  the bridge knows it; an attempt that has not discovered Chrome has no socket.
* `MuxOK`: daemon ids are unique and below `mux.next`; each entry in flight went out on
  a socket that is not gone (`RequestsFailWithSocket`).
* `ConnOK`: what each end of a connection may be given the other, what lines may be under way,
  and what settles a `connect()` that is awaited.
* `RequestsOK`: requests, waiting or in flight, are of clients that are registered on
  the connection they asked on, or whose end of it is gone.
* `OwnersOK`: the owner of a session holds it, or the answer that gives it is under way to it,
  or it has connected again.
* `IdleOK`, `AnswersMatch`, `EventsFollowAttach`.

A step treats the connections in one of three ways: a client's callback (`Handling`),
the daemon sending or ending connections (`Serving`), or the daemon reading a line
(`Reading`); the connection lemmas are stated once for each. When a socket goes, the
daemon sends one error line for each request of a client, in the order of their ids; the model
gives the line at position *i* as the one whose entry has rank *i*, so the proof
shows that ranks are a bijection (`RankIsTaken`, by counting).

### BrowserConnection

`ConnectionInv` has three parts. `Control` says what each state of a call implies for the
gate, the lane, the start and the window: the gate holds, once and in order, those that
wait and an exclusive call that acts, which is its head and alone; who waits for a start or a window waits for a call
that is under way and waits for neither. The queues are filtered when a call leaves; `Kept` is
shown to lose and repeat nothing (`RankIsTaken`, by counting). `Tabbed` says what is known of
tabs: whatever is owned, current or told by an event was opened; the
session's tab and the tab a call goes to are owned, authorized, or dropped from the registry by a
listing (`Reached`); two new tabs differ. A step either moves one call and leaves
the tabs alone, or it opens and forgets tabs as `Turns` allows, and each part is
proved against these two shapes. The third part is Steel's session.

### DaemonSpawn

`Seated`: for each probe that waits there is one connection, at the daemon it remembers; and
a daemon that serves and has nobody registered counts down. `Unmet` holds as long as
nothing excuses it: one daemon lives, the path is its own as soon as it listens, one that comes
up is the one its probe waits for, and what is still to be unlinked belongs to the dead. The
last is what makes an unlink harmless that was sent before the daemon came up.

## 5. What is only model-checked

* Everything about `Profiles`: `Inv` and `SettledEditsSurvive`. The three modules share
  calls with steps of one another, and their invariant would name every pair of them.
* The pages of `BrowserHarness`: its `Inv`, `RefsReachWhatWasShown`, `NoMessageMissed`.
* Liveness, and `ENABLED`, which the prover does not reach: `ClaimsEnd`, `DueIsClaimed`, `Settles`.

Induction over data is out of its reach too: that `SelectSeq` gives the members
of its argument in their order cannot be proved, so the sequences that proofs are about
are filtered by `Kept`, which is a function of positions. No module declares a `RECURSIVE` operator: the
mutually recursive functions of `sequential-workflow.ts` are least sets.

## 6. Not modelled

* **Sequential Workflow**: reading and validating template files (a template is a
  definition), the two event tables (written, read only by the definition mode,
  which `mode` keeps), rows of databases older than session ownership.
* **Pulse**: results, handoffs and session columns, the retargeting of threads, the
  migrations of old databases, the diagnostic state file that `pulse start` and
  `stop` read, and the calendar behind `nextRun` and `pulseType`.
* **Applications**: deletion of a profile from the store, automatic prefixes, edits of
  identity mappings, handler files, call logs and their retention.
* **API server**: routing, authentication, tickets, streaming, listings, statistics, the renaming of a
  session (`server.ts:303`), and the sandboxed form of a one-shot prompt
  (`promptStateless`, `server.ts:532`), which holds its session in `sandboxBusy` like any sandboxed prompt; the model's
  `OneShot` is `complete`.
* **Guardrails**: the matching of rules, the judge's prompts, loading of files.
* **Profiles**: the name that two writers of one process share for their temporary `nono.json`, documents, guardrail and `.env` files, working sessions, packages' skills and
  the enabling of extensions, a writer that dies. **Context memory**: direct context
  memory, the confirmation of sensitive texts. **Skill sources**: saving,
  renaming and removing a source, credentials.
* **Browser**: Steel's state file but for a failure to write it, a Steel session that Steel ends by
  itself, the listings with internal tabs that switching and closing by a number make, and the tabs that `browser_open_urls` makes.
  `BrowserPages` leaves out what `browser_navigate` does to the registry and its branch for a new
  tab (`navigate.ts:31`), which `BrowserConnection` has, elements that cover one another, and pages kept for going back.
  Further `run_script`, `http_get` and `wait`, what pages
  compute, Windows' named pipes, profile pins and discovery. `ensureDaemon`,
  `createDaemonTransport`, `registerProfileCommand`, `promptForProfileIfUnset` and
  `setProfilePin` have no caller in the extension at this commit; the first two are
  modelled as their tests use them, the others are not.
* **Remote hosts, SSH, catalogues, web console, Composio, conversation search**:
  sequential input and output, or wrappers, without shared state.

## 7. Behaviours worth a look

What the models show beside what they were asked. None has a run of its own, but for `memory_limit`.

Sequential Workflow and the turn:

* A message that System One rejected can be recorded once more when the host
  appends it to the branch after the handler took the checkpoint
  (`workflow-harness.ts:394`); after an adoption an *old* message of the new owner satisfies
  a Collect task, the checkpoint naming another branch's entry (`:151`, against
  `README.md:362`). Both are the exception `excused` of `OwnerNeedsNewMessage`.
* The input handler records a message for a workflow its session no longer owns
  (`:394`, against `README.md:363`), and an unresolved evaluation moves a task of a workflow that
  was cancelled between the record and the evaluation (`:286`).
* A pending definition and a requirement block can coexist, and the block refuses
  the tools that would supply the definition (`:497`).
* `/workflow-cancel` of a pending definition leaves the tool list restricted
  (`sequential-workflow.ts:186`, against `docs/sequential-workflow-definition-mode-plan.md:31`).
* "One call per model turn while focused (including a create call that establishes focus)"
  (`workflow-harness.ts:455`, `README.md:362`): before the focus is established, line 500 lets every other
  sibling pass, so a create call may run beside them.

Pulse:

* A process that opens `pulse.db` may adopt a run that ended after it was read:
  the Pulse stays claimed under the owner `legacy` until an operator recovers it
  (`store.ts:87`). Recovery does not look at a lease again inside its transaction
  and releases a claim that was renewed after the query (`store.ts:157`).
* A daemon stopped during its heartbeat claims, launches nothing and leaves (`index.ts:153`,
  against `:157`). The end of a run overwrites an edit's next run (`store.ts:169`, against `index.ts:170`).

API, profiles, sources:

* A Direct Mode client may name any session id (`application-runtime.ts:257`, `:280`), one of the form that the
  store makes up included. If it names the id that would come next, its row takes that
  id without its number, and `nextSessionId` gives the same id again all day: the calls of
  that route then find the row and go on in that session, and the calls of another route end in a conflict (`application-store.ts:38`). This is the
  exception of `NextIdIsFree`.
* A session deleted by hand (`server.ts:317`) stays the active one of its route: every
  later call fails until a roll-over or a removal. This is the exception of `CurrentExists`.
* PUT settings writes its body without reading the file (`server.ts:770`): a body that lacks
  `skillSources` or `sandbox` takes them away, however long ago they were set, and it overwrites a torn file.
  This is the last exception of `SettledEditsSurvive`.
* "An isolated environment for one profile" (`profile-env.ts:38`): a sandboxed child's
  (`server.ts:486`) is made from `process.env` as it is then, which may be that of a
  prompt of another profile with its `PI_APPLICATION_HANDOFF`.
* A plain synchronization is not queued and resets the clone of a
  publication (`skill-sources/store.ts:25`).

Browser:

* "A disconnected client must not be answered later" (`bridge.ts:67`): `daemon/index.ts:58` replaces the
  handler that told the bridge of it. An exiting daemon unlinks its successor's path (`server.ts:136`); `spawn.ts:75` leaves alone the
  socket of a daemon that rejected the probe, which the daemon it then starts unlinks (`server.ts:47`).
* The console's and the network's "buffer is reset on tab switch" (`console.ts:163`,
  `network.ts:226`): buffers are kept per tab. A `sinceSeq` of before a reconnection hides new messages.
* `snapshot.ts:161` publishes references on the tab that is current when it ends (against
  `util/refs.ts:1`), and `:121` swallows a dialog. A reference published for a session that had moved
  leads to whatever has its number there: `mixed`, exempt from `RefsReachWhatWasShown`.
* A click presses the place where its element was when the box was read (`click.ts:33`): when the page renders
  or navigates before the press, another element is hit. And the references are kept over a
  navigation (`cdp/session.ts:88`), while element numbers are those of a renderer process: after a navigation to
  another one an old reference may lead to an element that was never shown. Both are named exceptions of `RefsReachWhatWasShown`.
* `client.ts:235` takes the note that a page was navigated before it reads the page. When that read fails, or
  while it is under way, another call within the second gets the page information of before the
  navigation, although the session was told of it. `PageInfoIsCurrent` asks only for navigations that a read which ended well was to see.
* `client.ts:255`: a listing without internal pages, as `browser_navigate` and `browser_list_tabs` make it, takes from
  the registry every tab that it does not list. An owned tab that shows a `chrome://` page is then no longer the
  harness's: the next call opens another one and a release does not close it. An authorized tab must be
  authorized again. `dropped` is the exception of `SessionIsControllable`.
* `js.ts:47` passes a target id where a session id is expected; `runOnElement` and
  `liveValue` never release their object; `readOwnedTab` never detaches; the timeout of
  `run_script` does not stop the script. A dialog that
  the comment at `session.ts:165` keeps over a lost socket goes with `tabs.clear()`.

## 8. Plan

1. `BrowserPages`: an inductive invariant for `RefsReachWhatWasShown` (a tab's references and the
   numbers given so far) and for `NoMessageMissed` (records are consecutive up to `next`), with `Kept` in place of filters.
2. `ProfileStore` alone, without memory and sources: that an edit which met nobody leaves the other fields as it read them.
3. `SkillSources`: `PublishedIsPushed`, from the queue of publications (one works in the clone at a time).
4. `DaemonSpawn`: `NoDaemonLingers` as a theorem of its own; it is a conjunct of `Seated`.
5. Models of the parts of section 6 that write files: documents and working sessions of
   profiles, saving and removing a source, identity mappings of applications, the sandboxed one-shot prompt.
