# A verification development for krepl

krepl is a REPL for Kubernetes: it lists objects of a cluster, lets the user
select rows of the last list by number, and runs commands (delete, exec,
port-forward, drain, ...) on the selected objects.  This directory holds TLA+
modules that model its state and the operations that change it, configurations
that check them with TLC on small instances, and theorems about them that TLAPS
proves for every value of the constants.  `PROJECT.json` maps each definition to
the lines of the source it models, and lists the runs, the mutants that show each
property can fail, the findings, the hazards and the theorems.

Everything is read off the Go source.  What is not under `src/` (client-go's port
forwarder, the API server, other clients, the Go runtime's handling of SIGINT) is
modelled from how the source uses it, as freely as it can behave.

## The system

| Part | Source | State it keeps | Operations that change it |
|---|---|---|---|
| REPL state | `pkg/repl/env.go` | kubeconfig in memory, current context, namespace, rows of the last list, selection, prompt, port-forwards | `SetContext`, `SetNamespace`, `DeleteContext`, `SetLastObjects`, `SetCurrent`, `SetRange`, `ClearSelection`, ... |
| Dispatch, selection syntax | `pkg/repl/dispatch.go`, `parser.go` | none | bare index, `a..b`, `1, 3, 5` |
| REPL loop | `pkg/repl/run.go`, `cmd/krepl/main.go` | the readline instance | read, dispatch, rebuild readline; ends with quit, Ctrl-D, a readline error |
| Kubeconfig | `pkg/config/kubeconfig.go` | the file(s) | set current context, set namespace, delete context: read, edit, write |
| Context commands | `pkg/command/context.go`, `namespace.go` | | `context`, `namespace`, `delete-context`: the file first, then the REPL state |
| List commands | `pods.go`, `nodes.go`, ... (15) | | fetch, print, `SetLastObjects` |
| Port-forwards | `pkg/portforward/session.go`, `pkg/command/portforwards.go`, `quit.go` | a `Session` per forward, shared with a goroutine | start, ready, fail, stop, stop all, output |
| Commands on a selection | `env.go` `ApplyToSelection`; `delete.go`, `node_maintenance.go`, `describe.go`, `logs.go`, `events.go` | the loop over the selection | the command's function per object, and a prompt after a failure |
| Command objects | `cmd.go`, `commands.go`, `help.go` | a FlagSet per command, for the whole session | `Execute`: parse, check, run |
| Interactive commands | `exec.go`, `edit.go`, `logs.go` | ownership of the terminal | suspend, raw mode, run, restore, resume, reset |
| Layout | `table`, `styles`, `columns.go`, `describe.go` | none | |

How they interact.  `Run` reads one line at a time and calls `Dispatch`, which
either selects rows or runs one command to its end; commands reach the state
through `Env` only.  There is thus one thread of control, with two exceptions:
each port-forward has a goroutine that shares the `Session` (under its mutex), a
stop channel, a ready channel and a buffered error channel with the REPL; and
`exec` has a goroutine that pumps the terminal into a pipe, and one of client-go
that takes the input from there or from standard input.  Outside the process there are the
kubeconfig file, which other processes edit too, and the API server, which others
write to and which may answer late or never.

What is hard about it, and what correctness means:

* *Scope.*  A selected object is a kind, a name and a namespace.  It does not say
  which cluster it is in; commands use the context that is current when they run.
  So nothing selectable may outlive a change of context or namespace.
* *Three copies of the namespace* (the REPL's, its kubeconfig's, the file's) and
  two of everything else are kept equal by hand, command by command.
* *Cached text*: the prompt is rebuilt by hand after each change, and the label
  of a range is made from its first object.
* *Integers*: row numbers are parsed by hand-written code that does not check for
  overflow.
* *Two goroutines per port-forward*, whose end can be noticed in any order
  relative to its start, to a stop, to a quit.
* *Partial failure*: a range command that fails half-way, a delete whose answer
  never comes but which the server carries out.
* *Flags that stay set*: what a line writes into a command's FlagSet is there when
  the next line is parsed.
* *The terminal*, handed to and fro on paths with many early returns, while a
  goroutine reads it that must be gone when readline reads it again.
* *Others write too*: between the fetch and the update of an object in `edit`,
  between the read and the write of the kubeconfig, while a node is drained.
* *Deadlines*: what is given up after 30 seconds may still be carried out.

The hazards, each at its line and with the properties that would catch it, or a note
why none does, are in `PROJECT.json`.

## The modules

| Module | Models | Role |
|---|---|---|
| `Kinds` | `LastObjectKind`, the kinds delete has a target for | shared |
| `Parser` | `parser.go`, the choices of `dispatch.go` | pure operators |
| `Kubeconfig` | the edits of `kubeconfig.go` | pure operators |
| `Env` | `env.go`, context and namespace commands, the list commands, selection, clear, quit | state machine, composes the three above |
| `Workbench` | what selection promises | abstract specification of `Env` |
| `Session` | `session.go` | operators on one session |
| `PortForward` | `portforwards.go`, `quit.go`, the ends of `run.go`, the forwarder's goroutine | state machine over several `Session`s |
| `Register` | what the REPL promises about its port-forwards | abstract specification of `PortForward` |
| `ApplyToSelection` | the loop of `Env.ApplyToSelection` | state machine without the command's function |
| `ForEach` | what a command on a selection promises | abstract specification of the loop |
| `Delete` | `delete.go` with the API server and other clients | extends `ApplyToSelection` |
| `DeleteFlags` | `cmd.Execute` with the flags of `delete.go` | state machine over the lines of a session |
| `Terminal` | the ends of `run.go`'s loop, the terminal hooks and the reset flag of `env.go` | actions shared by the next four |
| `Exec` | `exec.go`, with its pump and client-go's copier | extends `Terminal` |
| `Edit` | `edit.go`, with the API server and other clients | extends `Terminal` |
| `Logs` | `logs.go`, the stream and the editor | extends `Terminal` |
| `KubeconfigEdit` | `kubeconfig.go`, `context.go`, `namespace.go` write by write, with other processes | extends `Terminal` and `Kubeconfig` |
| `Krepl` | one krepl process after another on a terminal | composes the five above |
| `NodeMaintenance` | `node_maintenance.go`, with kubectl's drainer, the API server, the scheduler and other clients | extends `ApplyToSelection` |
| `MCEnv`, `MCPortForward`, `MCDelete`, `MCDeleteFlags`, `MCKrepl`, `MCNodeMaintenance` | | instances for TLC |
| `EnvProofs`, `PortForwardProofs`, `DeleteProofs`, `DeleteFlagsProofs`, `NodeMaintenanceProofs`, `KreplProofs` | | theorems and proofs about the state machine in the name |
| `KubeconfigProofs` | | lemmas about the edits of a kubeconfig, for `EnvProofs` and `KreplProofs` |
| `ParserProofs` | | lemmas about the selection syntax and its wrapping integers, for `EnvProofs` |

### Env

The variables are the fields of `repl.Env` plus the file (`disk`), whether the
loop still reads (`status`), and one history variable, `lastListEmpty`.  Rows carry
one field the Go struct lacks: the context they came from, which the properties
need and no action reads.  Commands run one after another and nothing else touches
this state, so each command is one step; a command that returns an error before it
has changed anything is a stuttering step.  `ContextCmd`, `NamespaceCmd` and
`DeleteContextCmd` edit `disk` and then call the operator of the method of `Env`,
whose checks are kept: the `ELSE` branch of `ContextCmd` is the command that has
changed the file and then fails.  A list command (`List`) asks for one resource
type in one scope; its answer is any sequence without duplicates of matching
objects, which covers all the filters and orders the flags offer; when it is empty
the rows are left alone, as in the code.

A line the user types is abstracted to its shape and its tokens (see `Parser`).
The width of `int` is the constant `MaxInt`, and the operators wrap as Go does;
`MaxAlloc` is the largest capacity that `make` accepts, beyond which it panics.

`Env` implements `Workbench`: a scope, an offer and a choice, where a move to
another scope withdraws both, an offer lies within the scope, and one can only
choose what is on offer.

### PortForward

The REPL's goroutine is at one of the control points in `PCs`; each forwarder's
goroutine at one of `ForwarderStates`.  A step is what happens between two points
where the other side can look: the methods of `Session` run under its mutex and are
atomic, `Stop` is two steps (it closes the channel before it takes the lock), and
the forwarder's goroutine ends in two (`MarkExited`, then the send).  The select of
`runPortForward` is `ReceiveReady` and `ReceiveError`; when both channels are ready
either may be taken.  `ForwardPorts` itself is external: it may become ready, fail
before that (the caller allows for nil, and so does the model), lose its
connection, write output, and it returns nil after the stop channel was closed.
`EndOfInput` and `Interrupted` end the process without quit.

`PortForward` implements `Register`: a forwarder that is alive is the one being
started or is listed, and an index is never reused.  `Register` lets a start be
given up only when its forwarder is no longer alive, which is what makes the race
between the two channels harmless.

### ApplyToSelection and Delete

`ApplyToSelection` is the loop with its prompt; the command's function works in
phases of its own and ends with `FnReturns`.  `results` records how each call
ended and `answered` what the user said to the last failure, which is the waiver of
`ForEach`; both are history.  `Delete` adds the confirmation, the request, the API
server and other clients.  A request is named by the position of its item, because an
index typed twice selects an object twice.  `Timeout` may happen at any moment while the answer
is waited for, also when the answer has just arrived, and the request stays in
flight: the server may carry it out while the loop is already at a later object or
over.  `ServerDeletes` deletes whichever object bears the name, since the code
sends no UID.  `confirmed`, `removed` and `reported` are history variables.

The loop implements `ForEach`: objects in order and once each, none after a failure
that is not waived, success only after the last.

### DeleteFlags

`BuildCommands` runs once, so each command's FlagSet, and the variables bound to
it, live as long as the process.  `flags` is that state for `delete`, the command
whose flags interact most; `Execute` parses a line into it and `Answer` is the
chain of checks that ends in a refusal or in a request with its options.  pflag is
external and modelled by what version 1.0.5 does: arguments are read from left to
right, the first error stops, what was written before stays.  `AfterArgs` is a
recursive function, so that the module can be proved about.  `line` is history.
What happens to the request is `Delete`'s matter; whether there is a selection and a
context is a free input here.

Two properties say what a line should come to.  `LinesStandAlone` is the promise of
`Execute`'s comment, that earlier lines do not matter, and the code breaks it.
`RequestsObeyTheirLine` is what holds in spite of that, and would hold of a code that
resets the flags as well: a request never goes against what its own line says of
help, grace period and policy.  It does not say that the line asked for everything
in the request; that is what the missing reset costs.

### Terminal and Krepl

`pc` says where the REPL's goroutine is: at the prompt, in a phase of a command, or
between two turns of `Run`'s loop ("dispatched", "closing", "rebuilding").  `rl` is
`Run`'s readline instance, and `hooks` says whether the terminal hooks of `Env` act
on it or on an earlier one.  `SuspendTerminal` and `ResumeTerminal` are what exec,
edit and logs call; the latter also sets the flag that `ConsumeTerminalReset` finds
once `Dispatch` has returned, upon which readline is closed and built anew.  When
that fails `Run` returns with `rl` nil and its deferred `Close` panics, which is the
end "panicked".  `trouble` is history: which calls on the terminal failed.

`Krepl` puts the four commands on this loop.  A command is a chain of phases, and
whatever goes on beside it (pump, copier, server, other clients, other processes)
may move between any two of them, also when the command is over.  `Dies` ends the
process at any point; `Restart` begins a new one with nothing left of the old but
the cluster, the kubeconfig and its lock.

### Exec

`mode` holds the options: `tty`, `stdin`, and whether standard input is a terminal.
With all three, exec opens the terminal a second time and starts the pump, whose
states are the statements of its loop: it checks for a stop, reads without
blocking, writes to the pipe or sleeps.  An `io.Pipe` has no buffer, so a write is a
step of both sides (`Transfer`) or fails because the pipe was closed.  `closed` says
what `closeAll` has closed; `CloseInput` closes all three and then waits for the
pump (`PumpDone`).  The copier is client-go's: it is started by the stream, nobody
waits for it, and without a terminal it reads standard input itself
(`CopierReadsStdin`), possibly after exec.  The early returns are the second
disjuncts of `PrepareInput`, `ExecSuspend`, `MakeRaw` and `RestoreTerminal`.

### Edit

An object is a text and a resourceVersion; so is each document on its way from the
server through the temporary file and back.  The user may change the text, spoil the
syntax or remove the version.  `opened` is the file krepl holds open and reads back,
`saved` the one the user has saved, which differ when the editor replaces the file
instead of writing to it.  The server takes an update whose version is the current
one or missing.  After `UpdateTimeout` the update may still be under way, and
`ServerUpdates` may come later; once the command has returned, such an update is one
of `OthersUpdate`.

### Logs

The command gets a stream per pod and copies it: to the screen until it ends, until
its deadline, or with `--follow` until Ctrl-C; or to a file for an editor, with the
same hand-over of the terminal as in edit.

### KubeconfigEdit

The step that `Env` takes at once, in its parts: `ReadFile` (the file is loaded and a
copy is changed), `LockFile` (client-go creates a lock file that must not exist, and
gives up at once if it does), `WriteFile` (`ModifyConfig` writes the current context
and each context that differs, one after another and in no fixed order),
`UnlockFile`, `UpdateMemory` (`Env`'s method, which checks memory and not the file).
`OthersEdit` is kubectl or another krepl, which needs the lock too and may die with
it; a krepl that dies in the middle of a write may leave the file empty, as it is
written by truncating it.  `before`, `disturbed` and `outcome` are history.  There is
one kubeconfig file.

### NodeMaintenance

The function that `ApplyToSelection` calls for each node: get the node, patch it
unless it is as wanted, and for drain list its pods, refuse if one of them stands in
the way, ask for the evictions and wait.  kubectl's drainer is external: it asks side
by side, or one by one with `--disable-eviction`, asks again when a budget refuses,
and stops at the first real error.  `work` is its progress with each pod.  `Timeout`
ends the node at any moment; `ServerPatches` and `ServerEvicts` may come later.
Meanwhile `PodComes`, `PodGoes` and `OthersChange`: the scheduler places pods on nodes
that are open, DaemonSet and static pods come to any, and other clients cordon and
uncordon.  A pod may also come past a cordon, when it tolerates it or is bound by
others; that counts as meddling.  Pods are not reborn under the same identity.
`wanted`, `meddled`, `agreed` and `drained` are history.  Ctrl-C, which ends krepl
here, is left out.

A pod has `traits`, those the filters of kubectl's drain look at (`Skipped`,
`Blocking`).  A static pod is skipped whatever the flags, since to evict its mirror would
not end it, so a node of the control plane keeps its static pods and is called drained.
A pod that has finished is in nobody's way.  Whether it has is fixed per pod, as only
the list looks at it.

What "drained" means is therefore two things.  `ReportedStateWasReached`: the node has
been cordoned while the command was at it, and each pod that krepl set out to evict
from it is gone.  `DrainedNodesAreEmpty`: if nobody else has touched the node, it
holds nothing but DaemonSet and static pods.  If somebody has, uncordoned it after
the list for one, krepl says "drained" of a node that may never have been empty; the
code does not look again, and no property says otherwise.

## What TLC checks

| Run | Question | Bounds |
|---|---|---|
| `EnvSolo` | does what can be selected stay in scope, do memory, file and prompt agree, over all commands? | 2 contexts, 2 namespaces, rows: at most 2; an object of each kind, pods with namesakes in both namespaces; `MaxInt` 7; 7 input lines |
| `EnvInput` | does a range or a list select the rows it names? | 1 scope, lists of up to 3 pods, every range of 9 tokens, every list of up to 2 tokens and some of 3; pods symmetric |
| `EnvWrap` | does a bare number select only the row it names? (violated) | as `EnvInput` |
| `EnvStaleRows` | is an index always about the latest list? (violated) | as `EnvSolo` |
| `PortForward` | do the sessions tell the truth, can no forwarder escape, does each stopped one end? | 2 sessions, 1 error, output bound 2, writes of 2 and 3 bytes |
| `PortForwardEOF` | are sessions stopped before the process ends? (violated) | as `PortForward` |
| `Delete` | is only what was confirmed deleted, what is reported true, the loop well-behaved, and does it end? | selections of up to 3 of 2 deletable objects, or 3 times one that is not; unbounded changes by others |
| `DeleteJobs` | can a yes delete what the help says it can? (violated) | one object of each kind |
| `DeleteFlags` | does a request obey its line, whatever earlier lines left? | any number of lines of up to 2 arguments; grace periods -2, 30 and malformed; one valid and one invalid policy |
| `DeleteFlagsReset` | does a line stand alone? (violated) | as `DeleteFlags` |
| `Krepl` | is the terminal handed back whole on every path, does exec end, does an edit overwrite only what was seen, does a change of the kubeconfig do what was asked? | 2 execs per process; 2 texts, 3 versions; 2 contexts, 1 namespace, 2 edits by others; sessions of exec and logs, of edit and logs, of kubeconfig commands; any number of crashes and restarts |
| `NodeMaintenance` | is only asked what was agreed, what is reported true, a drained node empty, and does the command end? | selections of up to 2 of 2 nodes; up to 2 of 4 pods (finished with local data, bare with local data, DaemonSet, static) on one of them; cordon, uncordon and 4 drains with different flags |

Why the bounds are enough.  A scope violation needs two scopes, and a namesake to
make it dangerous; a wrong index needs a row beyond it.  Two sessions let one be
started or stopped while the other ends in any of its ways, and quit meet one of
each; the channels and the session belong to one forwarder, so a third adds no new
meeting.  Three objects let a waiver be given for the first failure and tested on
the second and third, and an object be selected twice with another in between.
`MaxInt` is small so that the wrap-around is within reach: the arithmetic is the
same for 2^63.  A second exec is what the pump or copier left by the first can harm;
a third adds no new pair.  Three versions let another client write both before and
after krepl's update.  exec and edit meet only through the terminal, and logs hands
that over just as edit does, so one session of each with logs shows every
succession.  The kubeconfig commands share nothing with the others but the prompt.
Two edits by others let one come between the read and the lock and one after.  Two
pods let one be in the way, or fail, while the other is evicted; the second node is
for what is left under way when the loop has moved on.  `MaxPods` counts pods that
exist or will, so a pod may also be born during the drain.

Which of these bounds the proofs lift is said below.

The state spaces are finite without constraints: rows and selections are bounded by
`MaxRows` and the input lines, sessions by `MaxSessions` (a session is never
reused), output by `maxOutputBytes`, the loop by `MaxItems`.

Deadlock checking is off where the program really stops: after quit or a panic, at
the end of the REPL with its forwarders, and when a command has ended.  In `Krepl` it
is on: a process that has ended can be started again, and one that has not can die,
so it says little there, and `ExecEnds` is the property about being stuck.

### Fairness

`PortForward` assumes weak fairness of each forwarder's `SeeStop`, `RecordExit` and
`SendResult` and of the REPL's own steps: the Go scheduler runs a goroutine that
can run.  It also assumes that a dial ends, in one way or another
(`WF(Ready \/ FailToStart)`); the code has no deadline of its own here, and without
the assumption `port-forward` may wait for ever.  No fairness is assumed of the
user or of a connection's loss.  `Delete` assumes that the client's 30 second
deadline fires, that the loop goes on, and that the user answers a confirmation (a
closed terminal answers too); it assumes nothing of the server.  `NodeMaintenance`
assumes the same of its deadline (`WF(Timeout)`: each node has a context of 30
seconds) and of the loop, and nothing of the cluster: without the deadline an
eviction that a budget refuses is asked for again for ever.  `Krepl` assumes that
exec's own steps, its pump, and a copier that has sent or whose pipe is closed go
on; it assumes nothing of the stream, of what is typed, of the editor or of the
server, and a killed process is excused.

### Findings

Five runs state what the program's documentation says and are violated:

* `EnvWrap`: a number too large for `int` is not reported as out of range; it falls
  through to the list parser, whose `parseUint` wraps, and selects another row.
* `EnvStaleRows`: after a list command that found nothing, indices select rows of an
  older list, not of "the most recent list".
* `PortForwardEOF`: sessions are stopped by the quit command only, not when the
  session ends with Ctrl-D.
* `DeleteJobs`: `jobs` and `namespaces` advertise delete, which has no target for
  either kind; the user is asked to confirm and then told so.
* `DeleteFlagsReset`: `Execute` does not reset the flags, as its comment says: what
  one line sets still holds for the next (`--force`, `--help` and the mark that
  excludes `--now` once `--gracePeriod` was given).  Together with what pflag leaves
  of an integer it cannot read, three lines delete at once without a word of it:
  after `delete --gracePeriod 30` and `delete --gracePeriod x`, which is refused, a
  plain `delete` asks for the grace period 0.

Smaller disagreements met on the way, which no run states: `env.go:346` says that
selecting a namespace row sets the working namespace (it selects the object);
`env.go:283` says that `HasRangeSelection` means several items (a range of one is a
range).  Some more came up with the terminal and the kubeconfig; they are disjuncts
of the properties, where they are named as the exceptions:

* The tests of exec expect its terminal device to be closed before the resume
  (`exec_test.go:319`); when raw mode fails, exec resumes and returns without closing
  it, and the pump goes on reading (`exec.go:176`).  When the suspend fails it does so
  without a resume.
* After a failed raw mode, and after a failed restore, no reset is requested, and
  the prompt is the old readline's, in the second case on a raw terminal.
* An exec with standard input but not on a terminal leaves the copier reading
  `os.Stdin`, which takes the next thing typed.
* When readline cannot be rebuilt, `Run` returns an error, but its deferred `Close`
  acts on a nil instance and panics before the error is shown.
* An edit whose editor replaces the file is reported as "Edit cancelled, no changes
  made.", though the user made and saved some.
* Edits of the kubeconfig by others between the read and the lock are undone by the
  write; a lock left by a process that died makes all later edits fail.

### Hazards without a property

Of these the model shows how they come about, but no property can catch them, since
the code lets them happen; properties nearby name them as exceptions or speak of the
other cases only.

* A list of indices ends silently at the first that has no row (`RowsAt`,
  `env.go:337`): what was named after it is not selected.
* The pump of an exec that failed to suspend readline or to go raw, and the copier of
  one without a terminal, read on beside the prompt.
* What the user saved is dropped when the editor puts another file in place.
* What others write to the kubeconfig between krepl's read and its lock is undone;
  a change cut short by a crash stays half-made, and its lock stays.
* A dial without end, a delete of a recreated namesake, and lines typed ahead of a
  confirmation: see the notes in `PROJECT.json`.

## What is proved

The theorems hold for every value of the constants that satisfies their
assumptions: any contexts, namespaces, resources and objects, lists and
selections of any length, any number of sessions and of execs, any pods on any
nodes, any width of `int`.  The
assumptions only say what the constants are: that the empty name is not a name,
that rows of cluster-scoped types have no namespace, that `Blank` and `Word` are no
numbers, that no error is nil, and so on; they are stated where the constants are
declared, and TLC evaluates them in each run.

* `EnvProofs`.  The inductive invariant `IInv` is the type invariant with the
  checked invariants and `RowsAlike` (all rows of one list are of one type), which
  `LabelFitsEveryItem` needs, as a label is made from the first row.
  `SelectionInScope` needs `TypeOK` and the assumption on namespaces;
  `MemoryMatchesDisk` is what closes off the branches in which the file has been
  edited and memory has not.  One lemma per group of commands.  From `IInv` follow
  the invariants, the two action properties, and that each step is a step of
  `Workbench`.  `LinesSelectWhatTheySay` rests on the lemmas of `ParserProofs`: a
  number that fits wraps to itself (`WrapIdentity`), so what `TryParseRange` and
  `TryParseCSL` make of a line whose numbers name rows is the rows it names.
  `SelectionsFitTheLoop` is what `ApplyToSelection` assumes of a selection in its
  initial states: one object at least, one only if it is Single, all of one kind.
* `PortForwardProofs`.  The strengthening relates the session's status and error to
  where its goroutine is, says that an unused forwarder has a fresh session, that
  what `toStop` holds is listed, and that during quit every listed session is
  either still in `toStop` or stopped.  From it follow the invariants, the action
  properties and the refinement of `Register`, and from `Register` alone that each
  forwarder alive is within reach.  `NoneWaitsInVain`: a forwarder that is about to
  send finds room, and while port-forward waits at its select, its forwarder is still
  on its way there or has closed the ready channel or sent its result.  That needs
  one thing more, that a forwarder that serves has closed the ready channel.
* `DeleteProofs`.  The strengthening says where the loop is by phase (how many
  results there are, that the last is an error when the loop asks or has failed)
  and that nothing is known of items still to come.  A second invariant, `WaiverOK`,
  ties what the user answered to the phase of the loop.  From the two follow the
  invariants and the refinement of `ForEach`.
* `DeleteFlagsProofs`.  `RequestsObeyTheirLine` follows from what a line does to any
  flags, so with the types it is inductive as it stands.  The lemma it rests on is
  about one line: each flag holds what the line has last written to it, or what it
  held before (`FlagsSay`, `ParseSays`).  That is induction over the line; it is done
  by taking the least place at which the claim fails (`LeastElement`), since the
  induction theorems of the library are out of the provers' reach.
* `NodeMaintenanceProofs`.  To where the loop is by phase (as in `DeleteProofs`) the
  strengthening adds what each property needs of the phases.  `AsksOnlyAsAgreed`:
  the drainer works on agreed pods only, and nothing is patched or evicted in a dry
  run.  `ReportedStateWasReached`: past the patch the node has been as wanted, and of the
  pods that were ever to be evicted from the node the drainer waits for each that is
  still there (`PodsOK`).
  `DrainedNodesAreEmpty`: as long as nobody meddles, the node stays cordoned from the
  patch on (`CordonHolds`), so no pod can come, and each pod still there is one the
  drainer waits for (`NoneForgotten`), so none is left when the drainer is through;
  DaemonSet and static pods are exempt throughout.
  The refinement of `ForEach` uses `WaiverOK` as for `Delete`.
* `KreplProofs`.  The invariant has a part for the loop and one for each command, and
  a step of one command leaves the parts of the others alone, which is a lemma for
  each part.  `TermOK` says in which phases a command has the terminal, in raw mode
  or not, and where a reset may be pending; with the failures in `trouble` these are
  all the ways in which the terminal can be other than fresh, and none of them is a
  prompt.  `ExecOK`: a pump or a copier at work belongs to the current exec in one of
  the phases in which it may be, or is one that the code forgets.  `EditOK` follows
  the documents: what krepl has open is what it fetched until the editor ran and is
  one of fetched and saved after it, of the fetched version or of none, and what is
  sent parses.  `KubeOK`: what is at hand in each phase of a change, and that once it
  is unlocked the file is the copy, unless others have edited it.  Deaths and
  restarts are steps like others.  `WritesConverge`: while krepl has the lock, nobody
  else writes the file, and each write settles one difference between file and copy
  and makes no other.

That something ends cannot be proved here, but what makes it end can: that it never
waits for what cannot come, and that each step brings it nearer.
`DeleteRunsOut` and `NodeCommandsRunOut` give the loop a measure, at most five steps
for an object and seven for a node, which each of its steps lowers whatever the
server, the cluster and the user do; all but one, the drainer's asking again for a
refused eviction, which the deadline ends.  `ExecsWaitEnds`: when exec waits for its
pump, all that the pump could wait for is closed (`GoroutinesOK` says which pumps have
been started), and from then on it has five steps to its end at most.
`NoneWaitsInVain` says it of port-forwards: a goroutine of a forwarder only moves on.
What fairness adds is that the steps are taken, which the runs check.

Only model-checked: the liveness properties (`StoppedForwardersEnd`,
`PortForwardReturns`, `DeleteEnds`, `ExecEnds`, `NodeCommandEnds`), which are beyond
the prover.  For these the bounds of the runs are the bounds of what is known.  All
other properties of the passing runs are theorems.  The five violated properties are
counterexamples and need no proof.

## What is not modelled

`describe`, `events`, `contexts`, `range`, `help` and the lists of `port-forwards`
read and print; tables, columns and styles are layout; `cp` delegates to kubectl's
implementation, and krepl keeps no state of it.  Filters and sort orders of the lists
are abstracted to "any choice".  Parsing of port specifications only decides whether
a command starts.  Client building is a guard: the context must be in the
kubeconfig.  Exec's choice between WebSocket and SPDY, its filter of error messages,
and the conversion of objects to YAML are left out.  A kubeconfig spread over
several files, which client-go writes one after another under one lock each, is
modelled as one file.

## Plan

Done: `Env` with `Parser` and `Kubeconfig` (the selection is what every destructive
command trusts), `PortForward` with `Session` (the only long-lived concurrency),
`ApplyToSelection` with `Delete` and with `NodeMaintenance` (the most destructive
commands), each with its proofs and an abstract specification; `Krepl` with
`Terminal`, `Exec`, `Edit`, `Logs` and `KubeconfigEdit`, with its proofs;
`DeleteFlags`, with its proofs.

What is left to prove is that a run of `KubeconfigEdit` in which nobody else edits is,
step by step, one of the three commands of `Env`; `UndisturbedChangeIsExact` and
`WritesConverge` are the core of it, and what is missing is the correspondence of the
two modules' states.

Still to be modelled, with less to gain: a kubeconfig of several files, and the
buffered reader of each confirmation, which may swallow lines typed ahead.
