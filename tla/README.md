# A TLA+ model of tg-focus

tg-focus is a daemon that reads a Telegram account through TDLib, runs every
incoming message through the user's *focus filters* and forwards what passes to
a TG-FOCUS chat it creates. The user steers it from a command line (`tgfocus
startup`, `focus-start`, `focus-stop`, `filters`, ...) and, from inside Telegram,
with `TGFCMD` messages posted in that chat.

The modules here model the parts of `src/src` that keep state and interact. All
are checked by TLC on small instances; the safety properties are also proved with
TLAPS for every value of the constants, and so is that the pipeline implements its
abstract specification.

## The system

| component | source | state | operations | talks to |
|---|---|---|---|---|
| collector pipeline | `worker/coll_*.cc`, `stat.cc` | turn flag `do_csm_mq`, `pause_do_csm_mq`, stop and success flags, queue `mq` with `mq_lock` | loops of initer, producer, consumer, switcher | TdCollector, user data, the control plane's flags |
| TdCollector | `td_coll.cc` | TDLib client, callbacks `__cb`, `is_auth`, `tried_c_tgfchat` | `fetch_updates`, `try_create_tgfchat`, `collect_msg`, `handle_tgfcmd` | Telegram, `mq`, user data |
| filter rules | `filter.hh`, `filter.cc`, `posix_regex.cc` | a list of filters of six pattern lists each | match, insert, remove, add, delete, parse, write | filters file |
| filters file | `user_data.cc`, `chatcmd.cc`, `tgfocus.cc` | the file, its temporary copy, a lock file | TGFCMD filter commands, `tgfocus filters`, `need_collect` | two processes and two threads |
| control plane | `worker/ipc_*.cc`, `worker/conn_listener.cc`, `ipc_*.cc`, `tgfocus.cc` | `coll_initer_up`, `tryshutwk::*`, queue of lazy messages | accept, start and stop the collector, report, shut down | clients, CollIniter, main |
| chat commands | `td_coll.cc`, `chatcmd.cc` | the chat itself, `pause_do_csm_mq` | recognise a command, pick its handler, run it, answer in the same chat | the user, forwarded messages, its own answers |
| startup and sockets | `tgfocus.cc`, `ipc_server.cc`, `ipc_client.cc`, `ipc_msg.cc` | two listening sockets, 64-byte messages | probe, fork, bind, listen, close; send and receive | other runs of the program |
| authorization | `td_auth.cc`, `tgfocus.cc` | a TDLib dialogue, TDLib's database | `auth`, `auth-cust-api`, `auth-reset` | user data, the collector |
| other user data | `user_data.cc` | chat id, authorization hint, API keys, language | byte-wise file reads and writes | everything |
| formatting, locale, logging | `tg_msg.cc`, `utfutils.cc`, `locale_conf.cc`, `log.cc` | none that others depend on | conversions | |

What is hard in this code is never one function. It is the turn that the
producer and the consumer hand each other through one flag, with a third thread
that raises it and the same flag used to break the consumer out of its wait at
shutdown; flags that start and stop threads, set by one thread and read by
another with nothing in between; a file that two processes rewrite and a thread
reads without a lock; small files that three processes truncate and rewrite; a
chat in which the daemon hears itself; sockets that two starts race for; and
32-bit indices made of what a user typed. The list
`hazards` of `PROJECT.json` has them by line, with the properties that watch
them.

What makes each component correct:

* pipeline: no message forwarded twice or lost without a stop; the queue is not
  touched while it is walked; chats are not created without need; threads of a
  session end before the session does; queued messages get processed.
* filters: the group decides as the README says; edits keep it well formed; a
  blacklist only takes away.
* filters file: always a whole text for those who hold the lock; never a group
  without filters; a decision is made with the user's filters and no others.
* control plane: one collector at most; an answer of success is true; a
  shutdown ends; no client hangs.
* chat commands: a text runs the command it names, once; what others write, and
  what the daemon answers, runs none.
* startup: one daemon serves, and a start that is alone ends with one that does.
* authorization: "logged in" on disk means that credentials and session are
  there; the dialogue ends.

## Modules

### CollPipeline

One variable per global of `stat.cc` that the four threads share, plus `pc`, the
place of each thread. Thread `initer` is `CollIniter`, with the four labels of
its waits; the actions `Producer*`, `Fetch*`, `Switcher*`, `Consumer*` follow the
loops line by line, and every access to an atomic, a plain shared flag or the
chat id on disk is a step of its own unless merging loses no outcome. What
`receive ()` returns is a choice among the responses that are possible: a new
message (any chat, or the TG-FOCUS chat, where it is a command), the
authorization state, the answer to a query that is outstanding. A query records
the chat it was sent to and whether the client was authorized, which is what its
answer depends on. `FetchUnmatched` is the outcome of the data race on `__cb`
that we model: the callback is not found. `ConsumerLock` needs no test of the
lock because the other two critical sections are single steps.

The chat id is opened, which empties the file, and closed, which fills it, in two
steps of the producer, or of another process that runs `auth-reset`; a reader in
between gets 0, which passes for a valid id.

The history variables (`fwd`, `dropped`, `moved`, `stray`, `n_create`, `n_fatal`)
are written and never read by the actions.

### Forwarding

What the pipeline promises, without threads: a message is received, then
forwarded once, passed over, or lost together with the whole queue when the
collector stops or the process exits. `CollPipeline!Promise` is the instance:
`Fates` and `Phase` are computed from the queue, the iterator, the producer's hand
and the history variables. `KeepsPromise` is checked by `coll_safety` and proved
in `CollPipelineProofs`.

### FilterMatch, FilterEdit

`FilterMatch` has the pure operators: `is_match`, the decision of a filter and of
a group, the four edits, parser and writer. A regular expression is a value;
which ones compile and which messages they hit are constants, so everything
holds for any regex engine. `U32` and `I32` are the conversions of the id, with
the word size a constant. `Parse` and `as_fsdata` are what happens to a text: it
is empty, not TOML, without the key, or a list of filters; a pattern that
contains a quote makes the written text unreadable. `FilterEdit` is a group
under any sequence of calls.

### FilterStore

The file, the temporary copy, the lock and the two writers: `chat`, the daemon's
producer thread inside a TGFCMD command, and `cli`, the process `tgfocus
filters`. A command is one step that reads, parses and edits, then
`set_filters` in four: lock, open (which truncates), write, unlock. The file
lock is `flock`, so a process that already holds it gets it again. `LockFails` and
`OpenFails` are the early returns: nothing is written, the command answers as if it
were, and after `OpenFails` the lock is still held; the process `cli` then ends,
which drops it (`LockAfter`), the daemon keeps it until its next write. The history
variable `leaked` says that it does. `need_collect` is the consumer's read. `OtherStart` is any other run of the program, whose
`UserData` constructor truncates the temporary copy. A text is taken to fit one
stdio buffer, so that reads and writes are whole; larger files only tear more.

### Daemon

The threads of the control plane with the flags between them; `main` is the
number of the flag it waits for. A client connects, its request stays in the
backlog until the listener accepts it, and the handler runs to its end in the
listener's thread. A collector is `start` (thread created, no store made),
`run`, `closing`, `gap` (success stored, `coll_initer_up` not yet cleared) and
`none` again. A handler reads `coll_initer_up` whenever it comes to it, also in
`start`, where the flag is still FALSE although a collector was started, and in
`gap`, where it is still TRUE although that collector has ended. Two history
variables record it: `window`, in which of the two the current request read the
flag, and `rushed`, that some focus-start or shutdown read it in `start`. `Detach`
takes any thread that is not in use.

How a collector gets from `closing` to `gap` is module CollPipeline's matter, and
`coll_stop` below shows that it need not: the module assumes nothing of it. A
handler that waits for a collector, and every client behind it, may wait for ever.

### ChatDispatch

The TG-FOCUS chat as `process_update` sees it: texts of the user, forwarded
messages and the daemon's own answers, in one stream. A text is a sequence of
words; of a word is kept what the code asks of it. `IsTgfcmd` is the test for a
command, `Dispatch` the chain of `find`s of `handle_tgfcmd`, one action per
handler with the checks of its arguments, and `Answer` what comes back. The group
of filters is FilterMatch's. `rawfilters` has no handler of its own in the model
because it has none in the program: the text contains `filters`, which is looked
for first.

### IpcMsg, Startup

`IpcMsg` has the messages, in four cells, the parser and `ReadInto`, the read
that always writes to the start of the buffer. `Startup` has runs of `startup`
with the daemons they fork, the two ports, a backlog and a listener for each
daemon, and runs of the other commands. A process may be killed wherever it is;
the kernel then closes its sockets in the order they were opened, which is also
the destructor's order. Any message may be cut in two by the stream. What a
request does to the collector is Daemon's matter; here it is done, or not. For the
two requests that stop a collector the handler may have to wait for it (stage
`wait`), and `Stopped`, the end of that wait, may never come.

### Account

`auth`, `auth-reset` and the start of a collector as three processes over the
files `id`, `hash` and `hint` and TDLib's directory. A setter is two steps, each
process may be killed between any two, and TDLib lets one process open its
database. Telegram's verdicts are choices. The history variables say when the
exceptions of the properties apply: `over` and `torn`, a login under a hint that is
already set; `crossed`, credentials that changed between two reads. `login` is the
login that `auth` is about to store and `fresh` the one for which it printed
"Logged in!": `real`, `void` when `auth-reset` had removed the database that the
dialogue had open, `none` when there is none or it was taken back since.

### Proof modules

`CollPipelineProofs`, `FilterEditProofs`, `FilterStoreProofs`,
`ChatDispatchProofs`, `DaemonProofs`, `StartupProofs` and `AccountProofs` extend
the module they are about. `FilterLemmas` says what the edits of a group do, for
the three that use FilterMatch. `MC*` modules only declare model values and name
small sets.

## Runs

| run | expected | what it shows |
|---|---|---|
| `coll_safety` | pass | one session, two messages, refusals, `exit (2)` and relaunch, an `auth-reset` beside it: no message twice, none sent to an id that is no chat, no queue moved under its reader; the pipeline implements Forwarding |
| `coll_live` | pass | two sessions, a command, a chat lost: queued messages are dealt with, the producer stops and fetches again after a restart, a pause lasts, no thread is left behind |
| `coll_stop` | violation | the consumer swallows the wake-up of the shutdown; `focus-stop` and `shutdown` hang |
| `filter_edit` | pass | any edits: well formed, never empty, README's rule, monotone blacklist |
| `store_safety` | pass | two writers, `fopen` and `flock` may fail: whole texts, never an empty group, truthful answers; both writers get through, unless `tgfocus filters` waits for a lock the daemon kept after a failed `fopen` |
| `store_torn` | violation | the consumer reads the truncated file and forwards what no filter accepts |
| `store_quote` | violation | a pattern with a quote: "success", and the file no longer parses |
| `daemon` | pass | two clients, all commands at any moment, a lazy message: one collector, true answers and a collector stopped before the daemon, except for requests read while `coll_initer_up` is wrong; the process exits and every client returns, with the exceptions below |
| `chat_safety` | pass | two texts, typed or forwarded, with their answers: forwarded texts run nothing, a command as documented runs once, one text edits the filters at most once |
| `chat_words` | violation | `filter.edit` with a pattern that spells `pause` pauses forwarding and edits nothing |
| `startup` | pass | two starts, one other command at a time, kills, cut messages: at most one daemon serves, a lone start does, "done" is true, commands end unless their daemon is half started, dies in an answer or waits for a collector that never stops |
| `account` | pass | any logins, resets, interruptions and collector starts: a set hint means a pair of credentials; "Logged in!" means usable, unless a reset came during the dialogue; the dialogue ends |

Each violation is listed under `findings` with the line of the repository it
contradicts. `coll_stop` and `store_torn` need a narrow window; `store_quote` and
`chat_words` are deterministic.

Several properties name an exception, and the exception is what the code gets
wrong or leaves open:

* `PauseHolds` speaks of a pause that is in force: a turn the switcher has given,
  or gives after it read the flag, is still used, and `focus-stop` wakes the
  consumer paused or not.
* `QueueDrains` excepts `ChatDenied`: after Telegram refused to create the chat,
  or the answer was lost with its session, `tried_c_tgfchat` keeps the program
  from asking again.
* `RestartFetches` and `ProducerStops` except a session that was stopped with
  `do_csm_mq` TRUE before TDLib was ever ready: the next producer waits for a
  consumer that never gets to clear the flag.
* `ChatKnown` excepts a batch during which the id is rewritten: `get_tgfid` reads
  it again for every message.
* `CreatesJustified` allows one more chat for each answer that declared the chat
  gone, late answers included: it bounds the chats by those, not their number.
* `StopIsStop` excepts a `focus-stop` that read `coll_initer_up` in the collector's
  `start`: it answers success and stops nothing. `StartIsStart` excepts a
  `focus-start` that read it in the `gap`: it answers success and starts nothing.
* `OneCollector` and `ShutdownStopsFirst`, and the two above, except what comes
  after a `focus-start` or a `shutdown` that read the flag in `start` (`rushed`):
  the first makes a second collector, the second stops the daemon with a collector
  alive. TLC finds each of these when its exception is taken out. They show that
  these windows are the only way to get there.
* `ShutdownStopsFirst` also excepts the dequer: for a shutdown that comes through
  the lazy socket it raises the daemon's flag without a look at the collector. No
  command of the program sends one there.
* `ShutdownEnds` excepts a `coll_initer_succ` that stays FALSE, on which main waits
  first: a `focus-start` handled behind the shutdown resets it, and a shutdown of
  the lazy socket never sets it. The process then stays.
* `ClientsReturn` and `CommandsEnd` except a collector that was told to stop and
  never ends, which is `coll_stop` seen from the command line: the handler waits for
  it, and everybody else for the handler.
* `WritersFinish` excepts a `tgfocus filters` that waits for a lock the daemon has
  kept since its last `fopen` failed.
* `LoneLazyTaken` is about one lazy message: of two that come together one stays
  until the next wake-up.
* `RunsBounded` counts the TGFCMD a text begins with: after `TGFCMD TGFCMD help`
  the daemon takes its own answer for a command, and since the help text spells
  `pause` it pauses.
* `StartupServes` excepts starts that overlap: each may get one port, then neither
  serves and both stay. `CommandsEnd` excepts clients of such a process, and a
  `status` whose daemon dies before the text is out.
* `DoneMeansRun` excepts messages that the stream cut: the second half is written
  over the first, the request becomes an Ignore and the answer is Success.
* `HintMeansCredentials` excepts a login under a hint that is set; killed half way
  it leaves torn credentials. `AuthEnds` then excepts the next `auth`, which fails
  with an empty API id and tries the same file again for ever.
* `CollectorReadsPair` excepts credentials that changed between the collector's two
  reads (`crossed`), or that were torn before.
* `LoggedInUsable` promises the hint and the pair, and the session too unless
  `auth-reset` removed the database during the dialogue: `auth` then prints "Logged
  in!" (`td_auth.cc:51`) over a database that is gone, the next collector reports
  corrupted information, and a new login mends it. Torn credentials are excepted.

Every property of a passing run has a mutant, an operator in the module that
changes one definition the way a slip in the code would; TLC finds the property
violated with it.

### Bounds

* CollPipeline: two messages make a batch with a rest; two sessions are what it
  takes for state to leak from one into the next, and one message of the TG-FOCUS
  chat is a command or an echo. `coll_safety` has the former with faults,
  `coll_live` the latter with a chat that is lost; the theorems have no bounds.
* FilterEdit: two filters and two patterns per list, ids in the group, past it
  and negative as an `i32`; one whitelist and one blacklist are edited, the
  others come from a loaded file. `Word` is 16: wrap-around at 16 is
  wrap-around.
* FilterStore: two filters, one pattern per list, ids -1 to 3; the editor leaves
  the copy as it is, empties the list, breaks the syntax or drops the key.
* Daemon: two clients, three requests, three collectors, one lazy message, which
  may be a shutdown: enough for a start, a stop and a shutdown in any order, and for
  a collector that is not seen beside two others. A probe and an Ignore are answered
  on the same path as `status`.
* ChatDispatch: two texts out of some thirty, with up to three TGFCMD in front;
  an answer is longer than its command, so the third one finds nothing new.
* Startup: two starts and one client, each as often as it likes; all four kinds
  of request.
* Account: one run of each command at a time, as often as the user likes, two
  pairs of credentials: two are enough to tell halves of different pairs apart.
  Those the user types are unknown to Telegram and get in only over a session
  that is logged in.

`CHECK_DEADLOCK FALSE` is there where the system may stop: a process that has
exited, or a user who types nothing more.

### Fairness

Threads of the process are weakly fair: the scheduler runs what can run, and
`atomic::wait` returns once the value differs. `ProducerWait` is strongly fair,
since the switcher sleeps five seconds between two turns. `Answer` is strongly
fair: TDLib answers every query. `Lock` is strongly fair, as the kernel queues
those who wait in `flock`. In Account a user who is asked again and again gives a
right answer some day, and TDLib opens a database that is free again and again
(strong fairness of `AuthParams`, `AuthOpen`, `AuthPhone`, `AuthIn`): without it a
login need not end. Nothing else is assumed of the user, of Telegram's messages or
of the editor; kills, cuts, failures of `fopen` and `flock` and interruptions may
happen and need not. Nothing is assumed of the end of a collector either: neither
`IniterSucc` of Daemon nor `Stopped` of Startup is fair.

## Proofs

Every safety property that a passing run checks is also a theorem, for every value
of the constants:

| module | theorems, with the property they state |
|---|---|
| `CollPipelineProofs` | `TypeCorrect`, `ForwardedAtMostOnce` (`AtMostOnce`), `CreatesAreJustified`, `SentToAChat` (`ChatKnown`), `TurnIsHalfDuplex`, `NoThreadOutlives` (`NoOrphans`), `BatchNeverMoves` (`BatchStable`), `DropsOnlyAtShutdown`, `PauseLasts` (`PauseHolds`), `PromiseKept` (`KeepsPromise`: CollPipeline implements Forwarding) |
| `FilterEditProofs` | `TypeCorrect`, `FilterRemains` (`GroupNeverEmpty`), `RuleAsDocumented`, `BlacklistMonotone` |
| `FilterStoreProofs` | `TypeCorrect`, `FilterRemains` (`GroupNeverEmpty`), `FileIsWhole` (`WholeUnlessWriting`), `AnswerIsTrue` (`AnswerNamesFilter`) |
| `ChatDispatchProofs` | `NoEndlessTalk` (`RunsBounded`), `EditedOnce` (`EditsOnce`), `OnlyUsersEdit` (`AnswersNeverEdit`) |
| `DaemonProofs` | `TypeCorrect`, `AtMostOne` (`OneCollector`), `StopAnswerTrue` (`StopIsStop`), `StartAnswerTrue` (`StartIsStart`), `CollectorFirst` (`ShutdownStopsFirst`) |
| `StartupProofs` | `OneDaemonServes` (`OneServes`), `DoneIsTrue` (`DoneMeansRun`) |
| `AccountProofs` | `HintHolds` (`HintMeansCredentials`), `CollectorGetsPair` (`CollectorReadsPair`), `LoginHolds` (`LoggedInUsable`) |

They rest on the named assumptions on constants: `ConstAssumption`,
`FilterAssumption`, `EditAssumption`, `StoreAssumption` (the ids are those an
`i32` can hold, which is what `atoi` returns), `DispatchAssumption` (texts are
sequences of words, the file at first holds a group with a filter),
`DaemonAssumption`, `StartupAssumption` and `AccountAssumption` (the value that
stands for nobody, or for an empty file, is not one of the others). TLC
evaluates each of them in the runs.

No theorem has a hypothesis besides these. Where a property has an exception the
theorem has the same one.

### CollPipeline

The inductive invariant of the pipeline, `IInv`, has six parts besides the
types. `ThreadInv` says which threads can be where: with no session there are
none, a switcher past `s_join_p` means a producer that has ended. Without it
`NoOrphans` is not inductive. `TurnInv` relates `stray` to the producer's place:
after one response in the consumer's turn it is back before its wait.
`CreateInv` bounds `n_create` more tightly: it is at most `n_fatal`, plus one if
`tried_c_tgfchat` is set. `BatchInv` says that the batch about to be thrown away
was walked to its end or given up at a stop. `ChatInv` says that the id on disk
is none, torn, or that of a chat, and torn only while somebody rewrites it.
`OnceInv` places each message: not
arrived, in the producer's hand, once in the queue, or gone; one that has not
arrived, or that the iterator has not passed, was not forwarded. Each part has
its own lemma, one step per action.

The refinement adds `CollectInv`: what the consumer is about to send was accepted
by the filters. `SameFates`, `OneTurns` and `QuietStep` say when a step leaves the
abstract state alone and when it moves one message; the steps of the four threads
are then told apart one by one, and most are stutters.

### Filters

In `FilterEditProofs` the invariant is the type and non-emptiness together: an
edit of a group is only defined when the group has a filter. The rule rests on
`FirstDecides` (a first filter that does not skip exists if any does, by
well-foundedness of the naturals), the monotonicity on `OneListChanged` and
`LongerBanNarrows`.

`FilterLemmas` has the facts about `ins_filter`, `rm_filter`, `add_one` and
`del_one` that all three modules use: the result is a group with a filter and only
patterns that compile (`InsertKeeps`, `RemoveKeeps`, `AddKeeps`, `DeleteKeeps`),
and the id they return fits a `u32` and names the filter that changed
(`NamesItsFilter`).

In `FilterStoreProofs` the properties are not inductive alone. `FilledInv` says
that no text on its way to the file, in a writer's hand or in the editor's copy,
parses to a group without filters: a text that does not parse is the filter that
accepts everything, a verified one has a filter. `LockInv` says that only the
holder of the lock is between `flock` and the unlock, so that `FileInv`, the file
is the last complete text or was truncated by a writer about to write, survives
the other process. `IdleInv`, an idle daemon has nothing to write, is what
tells a command that was refused from one that stored a group.

### ChatDispatch

The daemon reads its own answers, and `RunsBounded` says nothing about a message
that still waits. `Pending` does: a text that begins with k TGFCMD, after n
commands have run for its statement, stands for a statement that begins with
k + n; it is no command any more once an edit was done (an edit needs its name in
front, and so does not answer with a TGFCMD in front) and none when it was
forwarded. `OneInv` says that one message at most waits for each
statement, so that a run uses up what only that one was allowed. `Ran` bounds the
runs. That an answer never edits (`EditedByUser`) comes from counting words: a
`filter.edit` has exactly six, and in an answer of that length the TGFCMD of the
prefix stands where a number, a property or an action must.

### Daemon

The invariant holds until the first request that is `rushed`; `RushedStays` says
that there is no way back, so that the types and `rushed \/ CollInv` together are
inductive. `CollInv` has four parts. `UpInv` says exactly when `coll_initer_up` is
TRUE, `OneBusy` that one CollIniter is between its start and its last store, `FlagInv` what `coll_initer_succ` and the
stop flag say about it, and `HandlerInv` what the handler has found out at each
place: nothing runs where it spawns one, none runs any more where it answers a
stop, unless `window` says that the flag was read where it is wrong. The last is
needed because the collector's thread goes on between two steps of the handler.

### Startup

`OneServes` needs the ports alone: a port belongs to one process, and one that
serves has both (`PortInv`). `DoneMeansRun` needs the whole way of a request.
`StageInv` and `HeldInv` say that a connection is in one place, a backlog or a
handler, of the process it was made to, and open there. `RequestInv` says of a
client whose request was neither carried out nor cut that the message is still on
its way in one piece, or whole in the handler's buffer, also while the handler
waits for the collector, and that no answer has been written: the only answers it can read come after its request was run.

### Account

Each part of the invariant is about something remembered across the steps of
another process: `ApiInv`, the credentials `auth` works with; `StoreInv`, how far
it has written the three files, the hint last; `CollInv`, what the collector may
conclude from the hint it saw; `LoginInv`, that a login nobody took back has its
hint, and its TDLib directory if that was there when it was made. Killing `auth` between any two of its six writes
leaves a state of this kind, which is the point of the theorem.

### Only model-checked

Liveness, since fairness and ENABLED are outside the prover's reach: `QueueDrains`,
`ProducerStops`, `RestartFetches`, `WritersFinish`, `ShutdownEnds`,
`ClientsReturn`, `LoneLazyTaken`, `StartupServes`, `CommandsEnd`, `AuthEnds`. The
four violations are counterexamples and need no proof.

## Not modelled

* Locale: a search among the host's locales when the program starts.
* Logging.
* Layout of forwarded messages, except that they begin with a symbol;
  `get_decor_pos` is dead code, since `decorate_msg` returns before it calls it.
* The caches of chat titles and users, and the decoration of answers.
* The bytes inside a field of an IPC message; the bytes of a file between its
  truncation and its close, as the texts fit one stdio buffer. A filters file of
  exactly 4096 bytes, which `FileReader` reads as a dash, is therefore not covered.
* A process killed between `fopen` and `fclose` of the filters file: the file stays
  truncated, as `store_torn` shows it for a moment.
* A corrupted callback map: the race on `__cb` is modelled by its mildest outcome.
* The lazy socket's own connections beyond the queue they fill.

## Plan

Done: CollPipeline, Forwarding, FilterMatch, FilterEdit, FilterStore, Daemon,
ChatDispatch, IpcMsg, Startup, Account; the refinement; a theorem for every safety
property of a passing run.

Left:

1. The safety core of the liveness properties as theorems: that a wake-up of the
   dequer or of the producer is never lost is an invariant, although that it is
   acted upon is not.
2. IpcMsg: that a message which arrives whole is read as it was sent, as a lemma of
   its own.
