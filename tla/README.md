# agy-gate, modelled and verified

agy-gate is a permission gate for headless runs of the agent `agy`. Every tool call of a run goes through a hook
process to a local daemon, which answers allow or deny: by fixed rules where they decide, by a cached verdict,
or by asking a model (the judge). This directory holds TLA+ models of the daemon, TLC runs of them on small
instances, and TLAPS proofs of what matters most.

Line numbers refer to the sources beside this directory (`src/...`).

## 1. The system

| Component | State | Operations | Talks to | What is hard | Correct means |
|---|---|---|---|---|---|
| Hook client (`cmd/agy-gate-hook`) | none; one process per event | dial, send, wait, print | agy (stdin, stdout, exit), daemon (socket) | its deadline against agy's and the daemon's | prints something in time; allow only if the daemon said so |
| Request pipeline (`server.handle`) | verdict cache, denial counters, probe marks, audit file | `pre`, `post`, `inv` events | hook, policy, judge, transcript, probe | one goroutine per connection; state is locked, read, unlocked and used later; crash and restart | fails closed; counts exactly; cache holds verdicts only; one audit line for each decision |
| Daemon life cycle (`Serve`, `main.go`, systemd unit) | socket, listeners, context | start, accept, stop, restart | systemd | stale sockets, two daemons, loss of memory | one daemon listens, at the path; leftovers keep nobody from starting; an interrupted call is not allowed |
| Judge pool (`judge/pool.go`) | channel of workers, quota window | `Ask`, `get`, `put`, `startOne` | handlers, workers | timeouts against late answers, recycling, retry, warm-up that fails | a reply is to one's own request; no worker lost |
| Judge worker (`judge/worker.go`) | process, pipes, number of uses | start, `Ask`, `Close` | a child `agy` process | hang, crash, full pipe | at most one exchange open |
| Transcript reader (`judge/transcript.go`) | pinned requests of each conversation | `ReadTranscript` | a file agy appends to | read before the lock; rewritten files | the judge sees one consistent history |
| Probe (`internal/probe`) | (marks are the daemon's) | `ScanTranscript` | the same file | overlapping scans | nothing is skipped in silence |
| Policy (`internal/policy`) | none, but a cache of resolved roots | `Decide`: path classes, URLs, shell walk | file system (`lstat`) | `..` after links, paths that do not exist yet | a path is judged by what the kernel would open |
| Payload decoding, prompts, reply parsing | none | `DecodeCall`, `BuildRequest`, `ParseReply` | | | an undecodable payload or reply is denied |
| `agy-gate eval` | none | runs labelled cases | | | out of scope |

How a call travels: agy starts the hook; the hook connects, sends header and payload, and waits; the daemon
decodes, applies the policy, looks the call up in its cache, reads the user's requests from the transcript, asks
the pool, stores the verdict, updates the denial counters, replies, and writes one line to the audit file.
`PostInvocation` (`post`) reads the counters and tells agy to stop a run. `PreInvocation` (`inv`) lets the probe
look at new tool output.

## 2. Modules

| Module | Models | Checked against |
|---|---|---|
| `Judge` | what `Pool.Ask` promises: one reply to one's own request, or an error, or a quota notice; and, for a request that fits a worker's pipe, that it comes | abstract |
| `Pool` | `pool.go`, `worker.go`: callers in `Ask`, workers, pipes, `startOne`, the quota window | implements `Judge` |
| `Gate` | what the daemon promises the agent's side: an allow needs a reason | abstract |
| `Server` | `server.go`: `handle` for `pre` and `post`, death and restart of the daemon | implements `Gate`, uses `Judge` |
| `Transcript` | `transcript.go`: read, pin, choose what to show | |
| `Probe` | `server.go` for `inv`, `probe/transcript.go` | |
| `Hook` | `cmd/agy-gate-hook`, with `Server` behind it and agy before it | extends `Server`, takes no step it cannot |
| `Lifecycle` | `Serve` up to its accept loop, `Stop`, `main.go`, systemd | |
| `Paths` | `policy/path.go`: resolving a path and finding its zone | the kernel's path walk |
| `Walker` | `policy/shell.go`, and of `rules.go` what depends on a place: `cd`, `env`, `bash -c`, wrappers, `rm`, `git`, builds | bash running the script |
| `MCPool`, `MCServer`, `MCHook`, `MCLifecycle`, `MCTranscript`, `MCProbe`, `MCWalker` | instances for TLC (`MCWalker` of `Paths` and `Walker`) | |
| `PoolProofs`, `LifecycleProofs`, `ProbeProofs`, `TranscriptProofs`, `PathsProofs`, `WalkerProofs` | theorems about the module each is named after | |
| `DaemonProofs` | theorems about `Server` and `Hook` | |
| `Recursion` | lemmas about numbers and recursive functions that `TranscriptProofs` and `PathsProofs` share | |

`Pool` implements `Judge` (property `ImplementsJudge`), and `Server` calls the judge through an instance of the
same `Judge`, so the two compose: nothing `Server` assumes of the pool is more than `Pool` was shown to give.
The promise has an exception, which goes through all the modules: of a request larger than a worker's stdin pipe
(`BigRequest`, `BigBody`) `Ask` may never come back. `Hook` extends `Server` itself: its steps are the daemon's
and those of the processes around it (`DaemonRefined`), so what is proved of the daemon alone holds behind hooks
too.

### Pool

`at[w]` says who owns a worker: nobody, a `startOne` goroutine (`spawned`, `asked`, `ready`), the channel
(`pool`) or a caller (`held`). `starting` counts `startOne` goroutines without a process. `pc[c]` is the place
of a caller inside `Ask`: `check` (quota, under the mutex), `wait` (the select on the channel), `write` and
`read` (inside `Worker.Ask`), `keep` and `drop` (before `put(w, false)` and `put(w, true)`). `stdin[w]` and
`stdout[w]` are the worker's pipes. Each action is one step that another goroutine can see; `put` includes
closing the process and launching its replacement.

* Timers have no clock: every timeout may fire at any moment, before or after the answer it waits for.
* The channel is a set, so a `get` takes any waiting worker: FIFO order is one of these.
* A process that cannot be spawned makes `startOne` sleep and try again: no step of the model, unless the error
  speaks of a quota and closes the gate (`SpawnQuota`).
* `uses` stops counting at `MaxUses`, which is above `Recycle`.
* A hung process still has a pipe buffer; only requests in `BigRequest` do not fit it. A caller that writes one
  to a hung process is `Stuck`: the write has no deadline (worker.go:166), so it and the worker stay as they are
  until that process ends. `AskReturns` and the fair part of `Judge` are about the other requests, and hold
  while callers are stuck.

### Server

`pc[c]` follows one connection through `handle`: `refuse` (no usable header, or an undecodable payload), `post`,
or `lookup`, `ask`, `judging`, `store`, `limits`, `check`, `reply`, `audit`. There is one action for each
critical section, judge call and reply, which is where other goroutines interleave. What `decode` and the policy
make of a call is part of the input (`kind`): both are functions of the call. A call's cache key and what the
judge is shown of it (`body`) are separate fields, because `cacheKey` leaves things out that `BuildRequest`
includes. `Stop` is the signal: from then on no connection is accepted and the audit file may be closed, but
handlers go on until the process ends (`life` is `stopping`). `Die` is that end, or a crash at any step: open
connections close without an answer, cache and counters are gone, the audit file stays. `Restart` is systemd
(`Restart=always`). `order` and `judged` are history variables: the order in which calls were counted, and what
the judge has said, both in this life of the daemon. `unwritten` is another: calls whose audit line was lost.
The code ignores the error of that write (server.go:385), so `Audit` may write nothing while the daemon stops,
or at any time if the disk may be full (`MayFill`).

* An event other than `post` and `inv` is handled like `pre`. The `inv` event is in `Probe`.
* The audit file is configured (the default of the unit file).
* The probe's marks, which `inv` keeps in the same memory, are touched by no other event.
* A verdict the judge gives is any verdict; a malformed reply and both kinds of error are separate.

### Hook

agy starts a process for each event, and waits for it up to a limit of its own (`AgyWait`: 60 s for
`PreToolUse`, 10 s for `PostInvocation`, from `contrib/agy-run`). `Start` is the dial with the header and
payload; `FailFast` every way to get no connection (the daemon is down, the hook is that of a judge worker, its
environment names no socket); `ReadReply` the end of `io.ReadAll`, which comes when the daemon closes the
connection; `GiveUp` the hook's deadline (`HookWait`, 55 s). `Fall` is `Die` of `Server` as the hooks see it;
between `Stop` and `Fall` hooks are still answered. `cut` and `told` are histories: hooks that were connected
when the daemon died, and denials that were counted and then printed.

* Time is counted in ticks, and none passes while somebody can take a step that waits for nobody (`Urgent`), the
  end of a process that was told to stop included: only the judge takes time, and a daemon that is down. A
  handler waits for no lock for long.
* The daemon never notices that a hook has given up: it goes on, counts, and stores what it would have said.
* `Knock` is a connection that is no hook's, the stale-socket check of another daemon.
* The `inv` event has the same client; what becomes of a hook that agy kills is in `Probe`.

### Lifecycle

`pc[d]` follows a daemon through `Serve`: `mkdir`, `stat`, `dial`, `remove`, `listen`, `serve`, with a step of
every other daemon possible between any two. `sock` is what the path names: nothing, a file nobody listens on
(`stale`), or a daemon's listener. Closing a listener unlinks the path whatever it names (`net.UnixListener`). A
unit's directory is made by systemd before it starts and removed after every exit (`RuntimeDirectory`, which the
unit file does not preserve); `left` is the time in between. `crossed` and `company` are histories that say when
daemons have met, or one that serves was taken for dead: any error of the dial counts as an answer of nobody
(server.go:111-116), and a live listener gives one when its backlog is full.

* An audit file or a directory that cannot be made ends the process before it has changed anything: `Crash` at
  `mkdir`.
* `systemctl stop` is not modelled: a unit that has exited may be started again at any time.
* What a death does to open calls and to memory is in `Server` and `Probe`.

### Transcript

A file is a sequence of lines: requests of the user, other entries, and lines too long for the scanner. `Read`
is the loop over the file, without a lock; `Pin` is the critical section that compares with what is pinned,
pins, and builds the answer. Requests are model values with a length; `Clip` (1500), `Room` (6000) and `Keep`
(8) are constants. `AppendLine` is agy, `Rewrite` anybody who edits the file.

* `Read` sees the file at one moment. A file that is only appended to and read to its end is read as it is at
  the end; one that is rewritten while it is read gives lines of both forms, which a `Rewrite` to just those
  lines before the `Read` gives too.
* A file that cannot be opened pins and shows nothing, whatever the error: the daemon then asks the judge
  without the user's requests. This is `NoTranscript`.

### Probe

`hwm` is the daemon's mark of a conversation; `ReadMark`, `Scan`, `Raise`, `Reply` and `Audit` are the steps of
`handle`. A step of the transcript has a number, its position, and either holds a pattern in tool output or does
not. Steps are numbered from 1, as in the tests. An answer may be written to a hook that agy has killed by then
(`unread`): the daemon ignores the error, and goes on to its audit line, which may fail to be written in the
same silence (`unwritten`). A scan may read any number of the steps there are: it stops without an error at a
line above 10 MiB, and reads none if the file cannot be opened.

### Paths

A path is the sequence of its components, with how it begins (`/`, a name, `~`, `~user`). The file system is a
fixed `Tree` and a few `Slot`s which hold a file, a link or nothing and change between calls. `Look` is one step
of a walk through it: the next name, which may be `..`, or a link, whose target goes before what is left; `Walk`
is the function of the steps a path can take. The kernel's walk and that of `filepath.EvalSymlinks` are the same
but for how many links they follow before they give up (`KernelLinks`, `GoLinks`: 40 and 255, 4 and 8 in the
runs). `realpath`, `resolve`, `classify` and `zoneOf` are those of the code. `realpath` recurses from the end of
the path towards its start until a prefix resolves; the module says the same without recursion, as the longest
prefix that resolves. `Opened` is the reference: the place the kernel would open, or would create in a directory
that exists. Of a path that cannot be opened or created, a link to nothing included, nothing is claimed.
`resolve` takes its slow way when a component is `..`; the code also does for a name that merely contains two
dots, which gives the same result. The roots of a run exist, and are reached in one way whatever the agent
changes (`RootAssumption`): `rootPath` resolves a root once. A call that names no directory is in the first
workspace directory as it is written, one that says `.` in its resolved form (`cwdOf`).

### Walker

`Walker` extends `Paths`: a call is a path (a file tool) or a script (`run_command`), and places change between
calls. A script is a tree of commands, and `Parts` says which commands `stmt`, `cmd`, `env` and `shell` come to
below one, in which order. The walk is the recursion of the code with its stack made explicit: `stack` holds a
call (`Call`) for each command the walker is in, with the directory it was in before and after every part it has
visited, and how deep it is. `Visit` enters the next part; `exec` is what its rule does to the walker, its
`env.cwd` and the shared result. `Return` leaves a command: `After` gives back the directory of a fork, or
forgets it after branches. `Refuse` is a nesting that is too deep. What names and flags of a command do to the
verdict is its `class` (`harmless`, `unknown`: a note for the judge, `denied`); commands that read, write or
change directory have a path, which may come from an expansion (`dynamic`), and the operand of an `rm` may end
in a slash, which makes it follow a last link. `linkZone`, `isRootOrAbove` and `rm` are those of the code; the
class of a `git` or of a build is what its subcommand, flags and configuration make of it (`changes`, `shows`,
`step`), and the rule adds the zone of the directory it runs in. `git -C` moves the walker before its command,
as `env -C` does.

`DecideScript` begins the walk; `Answer` ends it and, unless the script is denied, starts bash. The other
actions are bash, which is external: `todo` is what it has left to do, `wd` where it is, `pwd` the name it has
for that place (`$PWD`), `status` whether the last command succeeded. A command may succeed or fail. It is
started if the directory of the call exists (`Starts`), under the name of its place or the one it was given, and
repeats a loop as often as the condition holds. Its `cd` is `cd -L`, bash's default: `..` takes away the name
before it, in the path and in `pwd`, and only where that names a directory; if the names lead nowhere it goes
through links as the kernel does, and if that fails it stays. The walker's `cd` goes to the `realpath`
(rules.go:424), so the two part after a `cd` up from a link, which the history `climbed` notes, as `failed`
notes a `cd` that failed. `env -C` and `git -C` are the kernel's `chdir` on both sides. `walker.checked` is a
history of the commands with the directory each was judged in, so that the two can be compared at every step
bash takes.

* `Followed` holds of the scripts the walk is right about: no `cd` where bash can pass it by, repeat it or run
  it in the background; of the branches of an `if` at most one that moves, which is not an `elif`, with no path
  judged after it in the other; and nothing after an `env -C` or `git -C` (`Leaks`). `FollowedIsTracked`,
  `AllowKeepsPromise` and `RootsSurvive` are about these, until a `cd` fails or goes up from a link (`Trusted`);
  `CommandsChecked` is about all scripts. `policy_directory` shows why the first condition is needed, section 5
  why the second is.
* Constructs the module has no operator for come to those it has: a block or `time` to its command, `for` to a
  `while` whose condition does nothing, `case` to an `if` with `elif` parts, a command substitution to a
  subshell before its command, a redirection to a `write` or `read` before it, a coprocess to an unknown command
  and one in the background. All parts of an `if`, those of its `elif`s too, are one branch, as in
  shell.go:167-173.
* `Followed`, `Moves` and `Leaks` go down the parts of a command. They are constants, of which
  `FollowedAssumption` says what each is of a command, from what it is of its parts; the run defines them by
  recursion.
* `LinksAssumption`: where bash starts a path anew in the directory it is in, the walker follows the path of
  that directory too, so it needs as many links again; 255 are enough for twice 40.
* `PlacesAssumption`: the home and the scratch directories are no links; see section 5.
* A file tool's verdict is that of a script of one command, as in `decideRead` and `decideWrite`.
* `Removed` is the entry the kernel removes, or, after a slash, the directory that a recursive `rm` empties.
  `AllowKeepsPromise` says nothing of an `rm` without that slash whose path goes up, or that removes a link:
  `linkZone` takes `..` lexically and judges a link in a protected place, reached through another link, by its
  target (path.go:170-172). `RootsSurvive` has no such exception.
* Files stand still while a script runs. Functions, `cd` without an operand, `$PWD`, globs, here documents,
  assignments, `find`, `xargs`, `cp` and `mv`, and the paths among the arguments of `git` and of builds (one
  output path apart), are left out.

## 3. Runs

| Run | Bounds | Shows |
|---|---|---|
| `pool_safety` | 2 callers, 2 workers and a spare slot, 2 requests, recycle after 3, all faults | the pool's invariants |
| `pool_live` | 2 callers, 1 worker, recycle after 2, all faults, one of the two requests larger than the pipe | `Ask` returns for the other request, the pool heals unless a caller is stuck, `Judge` is implemented |
| `pool_bigwrite` | 1 caller, 1 worker | violated: a large request to a hung worker blocks for ever |
| `server_limits` | 4 calls of which one goes to the judge or is refused, limits 2 and 3, dry run, crashes | the counters are exact, escalation and termination follow them, the audit file keeps the real decision |
| `hook` | 2 connections of every kind, a total limit of 1, cache of 1, deadlines of 2 (hook), 3 and 1 (agy) ticks, a judge request that does not fit, a full disk, stops and crashes | hooks print in time, an allow is on record unless its line was lost, the counters keep up with what was shown; the cache is honest; `Gate` is implemented and every call answered whose request fits |
| `lifecycle` | the unit and 2 daemons started by hand, stops, crashes and dials that fail at any step | one daemon serves, at the path, unless starts cross, the unit exits beside another or a live listener is not reached; leftovers keep nobody from starting |
| `server_shared` | 2 calls | violated: the cache serves a verdict to a different request |
| `transcript_readers` | 2 readers, up to 3 lines, rewriting | consistent histories, pins that grow, the right window |
| `transcript_alarm` | 2 readers, appending only | violated: a slow reader reports tampering |
| `probe_scans` | 3 scans that may stop short, up to 3 steps, hooks that are gone, lines that are lost, crashes | marks never fall, no pattern is passed over, what is found is told if anybody listens, and a line is written |
| `policy_calls` | 225 paths and 461 scripts, 2 changing places, 5 entries, depth 1 | a path's zone is that of what the kernel opens, or of its protected name; a script the walk can follow is judged where bash runs it, while no `cd` fails or goes up from a link, an allowed one keeps to its places, and no recursive `rm` reaches a root |
| `policy_directory` | 4 scripts of a `cd` and a write | violated: after a `cd` that fails, a command is judged in a directory bash is not in |

Why these bounds are enough to be of interest. *Pool*: with two callers and two workers a late answer can meet
the next caller, a recycled worker can leave the pool empty, and both attempts of a caller can fail while the
other one competes; the spare slot lets a worker too many be started, so that room in the channel is no matter
of counting slots; one worker makes the callers queue, also behind one that is stuck for ever. A third use
before recycling (warm-up, then two requests) is the least that lets a worker go back at least once. *Server*:
with limits 2 and 3, four calls can break a run of denials and begin another, be stopped by the consecutive
limit alone, or reach both. `server_limits` has a single conversation; the theorems cover any number. *Hook*:
one denial and one `PostInvocation` are enough for a total limit of 1, which decides alone there; a cache of one
makes the second store a flush; with a deadline of 2 ticks a hook can give up before the judge answers, and
after, and agy's 1 tick for `PostInvocation` shows that it never waits. *Lifecycle*: with three daemons one can
listen between two steps of the second while the third stops. *Transcript*: three lines exceed `Keep` = 2 and
`Room` = 8, where two long requests do not fit and a short and a long one just do. *Probe*: three scans let one
overtake two others. *Paths*: the relative paths have up to three components, enough for a link, `..` and a
name, and two links can follow each other or form a loop. *Walker*: every construct holds a command that moves,
one that touches a file, or both, and is followed by one that is wrong in another directory; a loop is repeated
any number of times, and depth 1 lets one inner shell or wrapper be visited and refuses the second, of each kind
and of the two together. `rm` is given every path of up to two components, through both links, with a slash and
without, and every root; `git` and builds run in place and after each way to move. `CHECK_DEADLOCK FALSE` is
said in the server's, the hook's and the probe's runs because a call is used once: when all are answered the
system may stop; and in `pool_bigwrite`, where stopping is what is shown.

Fairness. A goroutine that can take a step takes it (the Go scheduler), so every handler and `startOne` step is
weakly fair; timers fire; a worker process that neither crashed nor hung answers; systemd restarts the daemon;
time passes when nobody can act, and a hook that has its answer, or whose deadline has passed, prints. Nothing
is assumed to make a call arrive, a process fail or recover, an answer beat a timer, or anybody start or stop a
daemon by hand. In `Server` the judge's `Finish` is fair because `Judge` promises it and `pool_live` shows that
`Pool` keeps the promise; for both this is so only of requests that fit a worker's pipe. A larger one may keep
its handler for ever (`pool_bigwrite`), and then the call has no answer of the daemon's (`CallAnswered`,
`MayHang`), though its hook gives up and denies. A daemon that is told to stop ends.

## 4. Proofs

The eight modules of proofs hold for every number of callers, workers, calls, hooks, daemons, readers and
conversations, every set of requests and inputs, transcripts and paths of every length, every file system, and
every value of the limits, from the named assumptions of the modules: worker slots, calls and cache keys are
finite sets, the limits are positive, `NumWorkers` is at most the number of slots, the hook's deadline is below
agy's for `PreToolUse`, and the model values that stand for "none" are not members of the sets they complete.
Those of `Paths` and `Walker` are named in section 2. A theorem about types is the bottom of each; these type
invariants are not checked by a run as well (but for `HookTypeOK`, which also says that a hook that is over has
printed).

*Pool.* The inductive invariant is built in three layers, each inductive relative to the one before. (1) `TypeOK
/\ HeldByOne`: exclusive ownership is what makes the steps of different callers touch different workers. (2)
`WorkersConserved`: every step moves a worker between owners or trades it for a `startOne`; with (1), whoever
holds a worker knows the channel is not full, which is `SendNeverBlocks`. (3) `PoolOwesNothing /\ OneExchange`:
a worker in the channel has empty pipes and one that was asked has one exchange open. Neither half is inductive
alone: that a worker comes back quiet follows from the single open exchange, and that only one is open follows
from its having been quiet when it was taken out. `ReplyIsOwn` is then what the reader finds at the head of the
pipe. `UsesBounded` has the invariant `UsesInv`, which follows a worker's count from its warm-up to the
comparison in `put`. The safety part of `ImplementsJudge` (`JudgeCorrect`) is a case split over the steps of a
caller: `Ask` is `Judge`'s request, a `Return` with its own reply, an error or a quota notice its answer, and
everything in between a stutter.

*Server.* (1) `Base`: types, plus `Bodies` (what a call in the judge's hands has asked is its own body) and
`Stages` (which kinds of call can be at which place of `handle`, with which local variables set). (2) `Sources`:
every cached and every decided verdict has an entry in `judged`, or is the policy's. From it `CacheHonest`,
`AuditTellsTruth` and the step part of the refinement of `Gate`. (3) `CountersInv`: a call is in `order` exactly
once, after its step `Count` and before the next death; appending one call changes `Denied` and `DeniedRun` the
way `Counted` changes the counters. From it `CountersExact`, and with it `EscalationEarned` and
`RunStopsAtLimit`. `CacheBounded` needs only `TypeOK`.

*Hook.* Every step of `HookSpec` is one of `Server` or leaves the daemon alone (`DaemonStep`), so `Base` and
`CountersInv`, proved of the daemon alone, hold here. On them rest three invariants. `Ages`: only a hook of a
call that waits for the judge has an age, and none passes the deadline, because no tick passes while a hook is
due; from it `InTime`. `Recorded`: a connection that is closed with an allow, and was not cut, has its audit
line or is in `unwritten`, because the line comes before the handler returns; from it `AllowOnRecord`. `Traced`
and `ToldTraced`: a denial on its way to the hook is in `order`; with `CountersExact` this makes
`ToldIsCounted`, and `StopsAsTold` its consequence at the next `PostInvocation`.

*Lifecycle.* `Orderly` says, until `crossed`, that at most one daemon is between `stat` and its exit, and that
after a failed dial the path names no listener; from it `OneInPlace`. `Lonely` says that a daemon without
company has its directory, and finds nothing at the path when it listens; from it `StartsUnlessMet`.

*Probe.* `Scanned` (what a scan covered and found), `Told` (a finding has been written once the reply is past)
and `Followed` (the mark a scan has read is still below the mark it will raise) give `Covered`: every step below
a mark was covered by one scan. The union of overlapping scans has no gap because each begins at a mark that
another had reached. From it `TriggersCovered`. `MarkNeverFalls` needs only the types.

*Transcript.* `RequestsGrow`: the requests of a file stay a prefix when a line is appended, a fact about
counting in sets of positions. `Pinned` (what a reader was shown is a prefix of what is pinned, and pins grow)
gives `ConsistentHistory`. `Honest` (without rewriting, pins and readings are prefixes of the file) gives
`AlarmHasCause`: of two prefixes of one file one is a prefix of the other. `ShownLongest` is about the loop that
chooses what the judge is shown, and needs no state but the types: `Rounds` is the loop as a function of its
rounds, `RoundsGood` what holds after each of them (what is taken is the newest requests, their length is what
was counted, and the loop has stopped only for a reason), and the longest run within the limits is then the one
the loop ends with.

*Paths.* The three invariants are about one call, so the invariant is only that the zone is that of the path;
the work is in `ResolveIsOpened`: where the kernel opens or creates something, `resolve` gives that place. Two
walks must be compared, and neither is the other's. For `realpath`: a walk that ends, ends at the same place
when it may follow more links (`MoreLinks`); a longest prefix that resolves leaves a rest that the walk could
not take, which is one missing name if the kernel could create something there; and whichever way its path is
written, and however many links it takes, a walk to that name comes to where it is missing (`ComesBy`, `Onward`,
`WalkEnds`). For the fast path, which follows no link at all: a walk only ever stands at places that are real,
each prefix of them a directory and no link (`WalkReal`); the root is such a place, so `lstat` sees what is at
each component below it (`LstatIs`), none of them is a link (`PlainIsLinkless`), and a walk of a path without
links and `..` stays on the path (`LinklessWalk`). Without `KernelLinks <= GoLinks`, which `TreeAssumption`
states, it does not hold. `KernelDecides`, `NameStaysProtected` and `NoNeedlessDistrust` follow by cases on the
order of zones.

*Walker.* The prover has no recursion over a tree of commands, and the model needs none: the walk is a stack
machine, and what it leaves in `walker.checked` is one entry for each command, which can be compared with those
of its parts. (1) `Walked` is the invariant of the walk: on the stack a command is a part of the one below it,
and each command that was judged was judged with all its parts, one from the directory the other led to, unless
the script is denied (`Closed`). (2) `Running` is that of bash: `todo` is made of commands that were judged, of
choices between such, and of ways back to directories that exist. With (1), an `Unfold` replaces a command by
parts that were judged too: `WalkerTypeOK` and `CommandsChecked` follow, for scripts of every shape and depth
and loops of any number of rounds. (3) `Following` relates the two: there is a sequence of beliefs, one before
each item of `todo` (`Good`), such that the first holds of the directory bash is in and each item leads from one
belief to the next, while the script is `Trusted`. It has one lemma for each construct (`ListLeads`, `IfLeads`,
`WhileLeads`...), which rests on what `IsFollowed` asks of that construct. For `cd`, bash's names and the
walker's links must lead to the same place: the walks of the two paths are followed name by name (`NamesLead`),
and where no `..` comes after a link, taking a name away is what the walk does. What is left is that bash walks
from the root along `pwd` and the walker along its belief, which come to the same directory from there on
(`FromPlace`). From it `FollowedIsTracked`. (4) What is judged, and what is opened, are the same path from two
directories: the one the walker believes in is written as the text of the script has it, with links and `..`,
and bash's is a real one. A walk through the first comes by the second (`ComesBy`), so both see the same thing
there (`SeenFinds`, and `RemovedFinds` for the entry `rm` removes, `EmptiedFinds` for what it empties).
`RootsSurvive` and `AllowKeepsPromise` are then the rules, case by case. For `rm` without `..`, to clean a path
is to leave out its dots (`CleanReached`), which is why `linkZone` is right there, and only there.

`WalkerImplementsPaths` says that a script changes no file and no zone in `Paths`, so its theorems hold of the
run `policy_calls`.

*Recursion.* What a loop computes is a recursive function on the numbers of its steps. The induction theorems of
the library take an operator as a parameter, so `Recursion` proves induction from the least number that is not
in a set: the numbers of which a fact holds are a set, and a set is a parameter the provers can instantiate.

Only model-checked: everything about liveness (`AskReturns`, `PoolHeals`, `CallAnswered`, `ServiceReturns`,
`WarningGiven`, the fairness parts of `ImplementsJudge` and `FailsClosed`), which is beyond the prover. That
`Followed`, `Moves` and `Leaks` exist is shown by the run, not proved: it takes recursion over a script.

## 5. Differences from the documents

Shown by a run (see `findings` in `PROJECT.json`): the blocking write (`pool_bigwrite`), the shared cache key
(`server_shared`), the false alarm (`transcript_alarm`), the lost directory (`policy_directory`). Seen while
modelling, and modelled as the code does it:

* ARCHITECTURE.md:109 says a replacement worker "is spawned first"; `put` closes the old one and then starts it
  (pool.go:88), so the pool can be empty for a warm-up.
* pool.go:42 says the pool "never hands out a dead worker"; one that died while it waited in the channel is
  handed out (pool.go:73) and costs the caller an attempt.
* ARCHITECTURE.md:118-119 has a malformed reply retried on another worker; `ParseReply` runs after `Ask` has
  returned (server.go:292-296), so it is denied at once.
* ARCHITECTURE.md:132-133 has the run terminated once `ESCALATED` was said; an allowed call in between resets
  the consecutive counter and `PostInvocation` lets the run go on.
* ARCHITECTURE.md:132 has every denial at a limit prefixed `ESCALATED`; the counters are read back in a second
  critical section (server.go:332), before which an allowed call may have reset them.
* shell.go:211 says `branch` forgets the directory "if f may have changed it"; it compares the directory before
  and after, so a last branch that returns there hides an earlier one that left.
* `env -C` moves the walker itself (rules.go:631), so what follows is judged in the directory of the command
  that has ended.
* ARCHITECTURE.md:131-133 counts "denials"; what is counted is what the daemon decided. A hook that finds no
  daemon, or gives up, denies on its own and this is never counted. If the verdict that comes too late is an
  allow, it resets the consecutive counter and is recorded as an allow, although the agent was shown a denial.
* ARCHITECTURE.md:118-119 has a timeout retried on another worker; the judge's timeout is 40 s and the hook's 55
  s, so the second attempt has 15 s before nobody listens.
* A daemon that lives can lose its socket in these ways: two that start together both find the old socket stale,
  and the second removes the first one's (server.go:109-116); the unit's exit removes the directory under a
  daemon started by hand; and a daemon that has lost its path unlinks, when it stops, that of its successor; and
  one whose backlog is full when another starts is taken for dead. `OneInPlace` says what holds until one of
  these happens.
* ARCHITECTURE.md:62 says the walk tracks the working directory through `cd`. After `cd link && cd ..` the
  walker is at the parent of the link's target (rules.go:424) and bash at the link's own, without a `cd` that
  fails. With a link `~/p` to a directory `~/w/d` of the workspace `~/w`, the walker judges what follows `cd
  ~/p; cd ..` in the workspace, and bash is in the home: `rm -r w` is allowed and removes the workspace.
  `Trusted` ends at such a `cd`; without its `~climbed`, `FollowedIsTracked`, `AllowKeepsPromise` and
  `RootsSurvive` are all violated by the scripts `Up2` of `policy_calls`.
* The comment at path.go:51 says bash resolves `dir/link/..` physically. The kernel does, for a path that is
  opened; for the operand of its `cd`, bash does not.
* A failing `PostInvocation` hook prints `{}`, so a run past its limits goes on while the daemon is down.
* A warning of the probe that is written to a hook agy has killed is never repeated: the mark is past it. The
  audit file has it (`WarningGiven`), if the line can be written.
* `git -C` outlives its command as `env -C` does, and git's showing commands are allowed where the walker has
  lost the directory (rules.go:1150-1156).
* `linkZone` cleans `..` away before it looks at links, and an `rm` of a link in a protected place that is
  reached through another link is judged by where that link leads (path.go:170-172).
* `isRootOrAbove` resolves the path it is given and compares it with the home and the scratch directories as
  they are written (path.go:196). A home that is itself a link is not recognised there; `PlacesAssumption`
  leaves it out.
* ARCHITECTURE.md:23 says one audit line per decision; the denial of an undecodable payload (server.go:183)
  leaves none, and a line that cannot be written, because the disk is full or `Stop` has closed the file
  (server.go:445), is missing without a sign (server.go:385, 248): the call is allowed all the same.
* server.go:109 checks for a stale socket, and takes every error of the dial for one (server.go:111-116).
* ARCHITECTURE.md:126 says the probe answers `{}` on any error; an undecodable `inv` payload is answered with a
  denial by the same line.
* `ReadTranscript` stops without an error at a line longer than 64 KiB (transcript.go:41), so requests after it
  are not shown.

## 6. Not modelled, and the plan

Done, in this order: `Judge`, `Pool`, `Gate`, `Server`, their proofs, `Transcript`, `Probe`, `Paths`, `Walker`;
then `Hook`, `Lifecycle`, the places of `rm`, `git` and builds in `Walker`; then the proofs of `Hook`,
`Lifecycle`, `Transcript`, `Probe`, `Paths` and `Walker`.

Could follow:

1. More commands of `Walker`: `cp` and `mv` (two paths), `find` and `xargs` (a command for each file), and
   globs, which the rules take as a directory of unknown names.
2. Commands that change the files while a script runs: the code resolves every path before bash starts.
3. `decideURL` and the workspace of the header.

Left out for good: the texts (prompt, reasons, audit format) and their parsing, the tables of names and flags in
`rules.go` (data), the JSON formats, the command line of workers, `agy-gate eval`. None of them holds state
another part depends on. An `Accept` that keeps failing, when no descriptors are left, is tried again at once
(server.go:134); descriptors are not modelled.
