# TLA+ models of the DSLabs solutions

TLA+ specifications, TLC checks and TLAPS proofs for the distributed-systems
lab solutions in `src/labs`: the ping-pong of lab 0, the exactly-once client,
server and key/value store of lab 1, the view service and primary/backup service
of lab 2, and the transactions and shard mapping of lab 4. This file is the
inventory of the system, the guide to the modules, and the plan.

## The system

Every node is a class with message handlers and timer handlers. The DSLabs
framework (a jar) runs the handlers of one node one at a time, carries messages
over a network that may lose, repeat, reorder and delay them, and fires timers
after at least their time. Clients also have a worker thread that calls
`sendCommand` and `getResult`; all client methods are `synchronized`. Handlers
of different nodes interleave freely.

| Component | State | Operations | Hard parts | Correct when |
|---|---|---|---|---|
| `AMOApplication` (lab 1) | wrapped application; newest result and sequence number per client | `execute`, `alreadyExecuted` | repeated and late commands | a client's commands are executed once, in order |
| `SimpleClient`, `SimpleServer` (lab 1) | sequence number, `req_rcv`, last reply; an `AMOApplication` | `sendCommand`, `getResult`, `handleReply`, `onClientTimer`; `handleRequest` | loss, repetition, timers and replies of finished commands | clients see a sequential service that executes each command exactly once, and get every result |
| `ViewServer` (lab 2) | current and pending view, per-server counts and acknowledgements | `handlePing`, `handleGetView`, `onPingCheckTimer` | stale pings, view changes in the middle of a loop, pending views that age | views advance one at a time, each after its primary has acknowledged the last; dead members are replaced; silent servers are not promoted |
| `PBServer` (lab 2) | role, view, application, `cmd_list`, count of confirmed commands, flags | `handleRequest`, `handleViewReply`, `handleBackupRequest`, `handleBackupReply`, `onBackupTimer` | two primaries in different views, state transfer that races with forwarding, repeated and late confirmations, crashes between acknowledgement and transfer | one primary answers, the backup has what the primary answered, the backup takes over |
| `PBClient` (lab 2) | view number, primary, sequence number, `req_rcv`, `needNewView` | as lab 1, and `handleViewReply`, the `ViewServer` timer | answers of old primaries; a known primary that is dead or no longer primary; view requests that are lost or multiply | results are linearizable; a client that needs the view gets it |
| `PingClient`, `PingServer` (lab 0) | outstanding ping and its answer | `sendCommand`, `getResult`, `handlePongReply`, `onPingTimer`; `handlePingRequest` | pings without numbers: stale answers, timers left over from equal pings | every ping gets the answer to its value |
| `KVStore` (lab 1), `TransactionalKVStore` (lab 4) | a map | `execute`: Get, Put, Append; `run`: MultiGet, MultiPut, Swap | swaps of missing or equal keys; read and write sets that a partitioned store relies on | each key holds what its history says; a transaction needs and touches only the keys it names |
| `ShardStoreNode.keyToShard` (lab 4) | none | a function | 32-bit overflow, remainder of negative numbers | every key has a shard in range, the one its number names if that fits an int |
| Paxos (lab 3), shard master and shard store (lab 4) | - | stubs with no behaviour | - | not modelled |
| framework, tests, build, docs | - | - | - | external or not modelled |

Components meet in three places. `PBServer`s ping the `ViewServer` with the
number of the view they operate in; the answer, a `ViewReply`, drives their role
changes, and the ping with a new number is what acknowledges a view. `PBClient`s
ask for the view and send requests to its primary. The primary forwards a
request to its backup, and executes and answers it when the backup has confirmed.

## Modules

| Module | Models | Notes |
|---|---|---|
| `AtMostOnce` | `AMOApplication` | data types and pure operators used by both labs |
| `ExactlyOnce` | what lab 1 promises | abstract: invoke, perform, return |
| `ClientServer` | `SimpleClient`, `SimpleServer` | implements `ExactlyOnce` |
| `ViewServerCore` | the handlers of `ViewServer` | functions from a record of its fields to the next one |
| `ViewService` | what `ViewServer` promises | abstract: no pings, counts or timers |
| `ViewServer` | `ViewServer` among pinging servers | implements `ViewService` |
| `ViewServerProofs` | - | theorems about `ViewServer` |
| `WrappedApplication` | `AMOApplication` with the application it wraps, in the server of lab 1 | runs beside the log that `ClientServer` keeps in its place |
| `ClientServerProofs` | - | theorems about `ClientServer` and `WrappedApplication` |
| `AtMostOnceProofs` | - | lemmas about executing a command |
| `PrimaryBackup` | `PBServer`, `PBClient` | stands on `ViewService` |
| `PrimaryBackupProofs` | - | theorems about `PrimaryBackup` |
| `PrimaryBackupOrderProofs` | - | the order of commands, and what clients are told |
| `PrimaryBackupTimers` | the timers of `PBServer` and `PBClient`, and how a client asks for the view | implements `PrimaryBackup` |
| `PrimaryBackupTimersProofs` | - | theorems about `PrimaryBackupTimers` |
| `KVStore` | `KVStore` | pure operators on a partial map |
| `TransactionalKVStore` | `TransactionalKVStore` | a map under commands and transactions |
| `ShardStoreNode` | `keyToShard` | a function in `int` arithmetic, of keys that grow digit by digit |
| `ShardedStoreProofs` | - | theorems about `TransactionalKVStore` and `keyToShard` |
| `PingPong` | `PingClient`, `PingServer` | lab 0 |
| `PingPongProofs` | - | theorems about `PingPong` |
| `MC...` | - | instances for TLC |

`ViewServer` is shown to implement `ViewService`, and `PrimaryBackup` uses
`ViewService` in its place. For that to be sound the servers must in turn enter
views as `ViewService` lets its clients: only views that exist, and only forward.
That is `PrimaryBackup!ImplementsService`.

### How state and actions correspond to the code

`PROJECT.json` maps every definition to its lines. What needs an explanation:

* **At-most-once.** The wrapped application is abstracted to the log of commands
  it has executed, and a result to the log at that moment. An application is a
  deterministic function of that log, so two runs that agree on logs agree on
  every result. `WrappedApplication` shows that this is sound: there the server of
  lab 1 has an application beside the log (a state and `Apply`, any operator; the
  key/value store in the run), with an `AMOApplication` of its own that keeps the
  application's results, and `AnswersByLog` says that each result sent is the one
  that the log it stands for gives. `addr_seq` and `addr_result` are always written together and are
  one map; number 0 is "no entry".
* **Lab 1.** `net` is a set. Delivery leaves the message in place (it may arrive
  again), `Lose` takes it out, a retry puts it back. `results` is history: what
  `getResult` returned. `SendCommand` waits for the last result because a DSLabs
  worker does.
* **View server.** `ViewServerCore` keeps the order of the code: `handlePing`
  first fills a vacancy, then counts the ping, then may enter the pending view.
  A hash map's iteration order is the constant `FirstOf` (first key of a set), so
  theorems hold for every order. `Sweep`, the timer's second loop, visits only the
  primary and the backup it starts with; `Loop` is the whole loop, over the keys in
  any order of `KeyOrders`, and `SweepIsLoop` says that the two agree. In `ViewServer`, `sent[s]` holds every number
  server `s` has pinged with, and any of them may arrive at any time; `operating[s]`
  is the newest. `current_view` is derived (`CurrentView`). `GetView` changes
  nothing.
* **Primary/backup.** `net` only grows, so any message may arrive any number of
  times, in any order, or never. All views formed so far are in `issued`, and a
  server or client may learn of any of them. A `BackupTimer` is set whenever a
  `BackupRequest` is sent, and may fire at any time after it. `viewNum`,
  `sequenceNum` and `err` of the backup messages are read by no handler and are
  left out, and so are error `Reply`s: they only make a client ask for the view
  again, which a client may do at any time here. Where the code compares addresses with `!=` (`PBClient`, line 75;
  `SimpleClient`, line 95) the model compares them by value: the framework hands
  out one object per address, or nothing would ever be accepted.
  The view service may leave out any server, crashed or not, as timeouts let it. Only
  the three runs of it that end in a violation set `Accurate`, by which it removes crashed
  servers alone: what goes wrong there needs no wrong suspicion.
* **Primary/backup with timers.** `PrimaryBackupTimers` conjoins to each action of
  `PrimaryBackup` what the handler does to timers, and so decides which retries come.
  `timers[s]` is the queue of `BackupTimer`s that server `s` has set: all run for
  `BACKUP_RETRY_MILLIS`, so they fire in the order they were set. One that still
  applies sends its request and goes to the end of the queue, another is dropped.
  `asking[c]` holds `needNewView`, the number of `ViewServer` timers set, and whether
  a `GetView` is under way, which may be lost. A `Server` timer needs no state: one
  for the outstanding command is set as long as its result is missing, and one for
  an earlier command does nothing. A reply that the client does not believe, or one
  with an error, makes it ask for the view (`AskOnReply`); the model lets it come
  whenever the client has ever sent a request, which is more than the servers do.
* **Key/value store.** A key without a value is outside the map's domain. Strings
  are sequences of letters because `Append` concatenates. `execute` has no code for
  transactions (it throws); `RunTransaction` calls `run` as its comment (lines
  30-39) says it is called, with the keys of `keySet` only, so that a transaction
  that reads or writes others goes wrong in the model as it would on a partitioned
  store. `HistoryOf` is the reference: what each key holds after each command,
  looked up in what the keys held before it, where the code changes one map in place.
* **Shard mapping.** A key is its hash code and the digits it ends in, and grows by a
  digit at each step (`KeySpec`), so that the properties are invariants. The `int`
  arithmetic is exact, in two halves of 16 bits. The comment of `keyToShard` says
  the shard is given by the number; for numbers that do not fit an `int` the code
  wraps, and the model with it, so `ShardByNumber` is claimed for nine digits.
* **Ping-pong.** As lab 1, but `timers` counts the pending timers of each value: two
  pings with the same value are equal, and so are their timers.

## Runs

All with TLC, two workers. Bounds are constants with names and appear as guards.

| Run | Instance | Shows |
|---|---|---|
| `view_server` | 3 servers, 3 views, unbounded loss and delay, 1.7 million states | type invariant; no null is unboxed; a pending view stays legal; acknowledgements are real; the loop is order-safe; no silent backup is promoted; `ViewService` is implemented |
| `view_server_live` | 2 servers that may both crash, 5 views, one late ping of a crashed server | an acknowledged view with a dead primary is left; so is one with a dead backup, or with a vacancy and a live idle server, if its live primary has entered it |
| `client_server` | `WrappedApplication`: 2 clients with 2 commands each (append and get, append and put) on one key of a key/value store, fair-lossy network, 74 thousand states | exactly once, in order, while the client waits; what is sent is what the store answers when the commands are executed one after the other; a waiting client has a timer; every command gets its result |
| `primary_backup` | any server may be left out of a view; clients with 1 command each: 2 servers, 3 views, 2 clients, and 2 servers, 4 views, 1 client, both with lists of 2; 3 servers, 4 views, 1 client whose command arrives once and who is late with the views; 246 thousand states | what a backup holds is the beginning of what its primary holds, unless it came back with something else; no split brain; no confirmation counted for the wrong backup; the list a server would transfer holds all it has executed; `viewChange` is set only in a refusing backup; an answer is the history up to a command of the client it is sent to; results are linearizable as long as one server has led; servers enter views as `ViewService` assumes |
| `primary_backup_failover` | `PrimaryBackupTimers`: 2 servers, 3 views that may leave out a live server, 1 client, 2 `BackupTimer`s a server, 1 `ViewServer` timer; 1 crash and 2 commands as long as no live server is left out, then 1 command; 144 thousand states | no server executes a command twice; a primary that waits keeps a timer that will retry, except through two steps; a client that wants the view gets it, and turns to the newest primary |
| `ping_pong` | 1 client with 3 pings of 2 values | every result is the answer to its own ping; a waiting client has a timer; every ping is answered |
| `transactions` | 3 keys, 2 values, all sequences of 3 commands | every key and every answer by the history; transactions are local |
| `key_to_shard` | keys of up to 10 digits out of 0, 4, 9; 7 extreme hash codes; up to 7 shards | range, and agreement with the number |

Why the bounds are enough. A view server acts on the current and one pending
view, so three views are two complete changes, and the third server is what can
be idle while the other two hold the roles. Crashes are left out of `view_server`
because a crashed server is one whose pings are lost; they matter for liveness,
which speaks of them. In `primary_backup` too: where any server may be left out and
any message may be late for ever, one that takes no more steps need not be known to
have crashed. Its three instances are one run (`Scope`): all states of the three are
reached from one initial state, and the servers and clients that have moved decide
which bounds apply. Two clients, or a second request, are what it takes for an answer
to the wrong one of them, for histories to compare and for repeated requests; three
servers have every change of roles. Two servers, four views and lists of two include
a backup that comes back with commands of its own, and a primary whose backup
confirms more than it holds. Four views of primary/backup let a server lose a role and
come back to it under another primary, with a late message from each period. A
list of two is the shortest with a transfer that takes more than one message;
`primary_backup_failover` has it with two commands of one client, so that a command
may be requested again when a later one has been executed. With one server that may crash, two servers
give every change of roles that it can see (the theorems have no bounds). The first
primary is `s1` by name, since symmetry is not sound for liveness. Three pings of two values repeat one. Three
commands are enough for each key to be written, swapped and read. Ten digits pass
2^31 and 2^32.

Four runs end in a violation on purpose: each states what the lab's text or
tests say, and the trace shows how the code departs from it (see `findings`).

| Run | The text | The trace |
|---|---|---|
| `view_server_dead_idle` | "Dead idle server shouldn't become backup" | a pending backup that has gone silent is taken in |
| `primary_backup_lost_update` | "operations are executed linearizably" | the primary acknowledges view 2 before it transfers, answers a command executed in view 1, and crashes; its empty backup takes over |
| `primary_backup_order` | the backup sees every update "in the same order as the primary" | a late refusal resets the count, a repeated confirmation jumps over a forwarded command |
| `primary_backup_takeover` | "the `ViewServer` will promote the backup to be primary" | a backup that was never sent a command refuses for ever |

Deadlock checking is off where a bound ends the model: workloads are finite, and
so is the number of views. It is on for the safety runs of the view server, whose
timer always runs.

Each property of a passing run was tried against a plausible mistake in the code,
the definitions introduced by "Slip:" in the modules (`mutants` in `PROJECT.json`),
and fails with it.

### Fairness

* `ViewServer!FairSpec`: the timer re-arms itself (weak fairness of `PingCheck`);
  a live server pings every `PING_MILLIS` whether or not earlier pings arrived,
  so its newest ping gets through again and again (weak fairness: the ping stays in
  `sent`). That a server enters the newest view is not assumed: a promoted backup
  may refuse it for ever (`PBServer`, lines 160-162), and then the view is never
  acknowledged and never left, whoever crashes or is idle. `primary_backup_takeover`
  shows that. So `DeadBackupReplaced` and `VacancyFilled` speak of views that their
  primary has entered, and `DeadPrimaryReplaced` of acknowledged ones. Fairness is asked of
  nothing that belongs to a crashed server.
* `ClientServer!FairSpec`: workers and timers run (weak); the network is
  fair-lossy, so a message that is sent again and again arrives (strong fairness
  of delivery, since `Lose` disables it).
* `PingPong!FairSpec`: as `ClientServer`.
* `PrimaryBackupTimers!ClientFairness`: the timers of a client run (weak fairness),
  and a `GetView` that is sent again and again is sometimes answered (strong, since
  it may be lost each time). Nothing is assumed of the servers or of requests:
  they may stop, and the client must still find the newest primary. That the asking
  ends (`AskingEnds`) does not bound the `ViewServer` timers that are set until then:
  the code has no bound, and the model caps them (`MaxAsks`).
* `PrimaryBackup!FairSpec`: as `ClientServer`, for every server and client. It is used for
  the counterexample to `PrimaryTakesOver`, which therefore is not one in which
  somebody simply stops.

Liveness is claimed below the bound on views only (`BelowBound`); at the bound the
model stops forming views, which the code does not.

## Proofs

The assumptions of all theorems are those of the modules: `Null` is no server and
no client, `FirstOf` picks a member of each non-empty set, `KeyOrders` lists every
server once and of any set first the one `FirstOf` picks, `KEY_NOT_FOUND` and what
commands carry are strings, `HashCodes` are integers and `Digits` decimal digits,
the bounds are numbers. No theorem assumes `Accurate`.

Some proofs need induction, over the positions of a list. The library's induction
rules take a predicate as a parameter, which no prover here can instantiate; but
that every non-empty set of numbers has a least member is a fact about sets
(`LeastNatural`, from the well-foundedness of `<`), and with it `UpTo`: a set that
has 0, and with n also n + 1 up to m, has all of 0..m. The set is then the numbers
for which the claim holds. In the same way a recursive function is first shown to
exist, and so to satisfy its equation.

### Client and server

`ClientServerProofs` proves, for any clients and workloads and whatever the network
does, `TypeCorrect`, `InOrder`, `Retry`, and `Implements`, that `Spec` implies the
abstract `ExactlyOnce`. The refinement needs three things of a step: a command that
is executed is the one its client waits for and is not in the log; a result that is
returned is the log up to its command; and a client sends a command only when all
before it have returned. So the invariant `IInv` says how far each client and the
server can be apart (`ClientsOK`: the server has executed all of a client's commands,
or all but the one it waits for), that no command in the log is newer than the newest
result of its client (`LogBounded`, without which `ExecutedInOrder` is not
inductive), and that stored and travelling results are answers (`ResultsOK`,
`NetOK`): the log when the command had been executed, which stays a prefix of the
log for ever (`AnswersStay`). An old request that arrives late has a number not above
that of its client (`NetOK`), and unless it is the one awaited `ClientsOK` says that
it was executed.

`AnswersOfApplication` proves `AnswersByLog` for any `NewState` and `Apply`, without an
assumption on them: that the application is deterministic is that `Apply` is an
operator. `WrappedSpec` implies `Spec` (`WrappedIsServer`), so `IInv` holds, and the
rest is `WInv`: the application is where the log has taken it, and the results it has
given are those of the logs that `addr_result` holds in `ClientServer`. No induction is
needed, since `states` records each state that the application has been in; an
executed command adds one and changes none, so that what a result stands for is
settled when it is given. With `WrappedImplements`, each client sees the application
execute its commands once, in one order, while it waits. Lab 2 uses the same
`AMOApplication` on each of its servers, and what its properties compare are logs and
their beginnings; for that, the argument is the one of `AnswerAgain` and `AnswerAnew`,
which look at `execute` alone, and is not repeated.

### Ping-pong

`PingPongProofs` proves `TypeCorrect`, `Matched` and `Retry`. `AnswersMatch` says how
many results there are and what each is, and is kept because a pong is taken only
with the value of the last ping (`LastAsked`). `TypeOK` bounds the timers of a value
by the pings of a workload, which holds since none has more timers than pings were
asked (`TimersBounded`): a retry sets again the timer that fired, never another.

### View server

`ViewServerProofs` proves, for any set of servers, any order of the hash map, any
set of servers that may crash and any bounds, what `view_server` checks for three
servers: `TypeCorrect`, `NullSafe`, `PendingLegal`, `AcksReal`, `PromotionIsLive`,
and `Refinement`, that `Spec` implies the abstract `ViewService`.

The argument. `Refinement` needs that a view is left only when its primary operates
in it, and the code knows of that only by `ack_list`. So the invariant `IInv` says
that acknowledgements come from `sent`, which never runs ahead of `operating`, which
never runs ahead of `view_num` (`PingsAreHonest`); that the fields are `Sound`
(known servers have both entries, a started view has a primary, a pending view may
legally follow and names only servers that have been heard of); and that a pending
promotion is of a backup whose count has not run out (`PendingIsLive`), without which
`handlePing` could promote one that is silent. None of the checked invariants is
inductive alone: `PendingIsLegal` breaks when a view is formed unless the servers of
that view are known, and `AcksAreReal` does not bound `operating`.

The lemmas follow the calls. `ChangeKeeps` and `MakeNewViewKeeps` treat the two
helpers that form views; `MakeLegalView` and `MakeNoView` are the two ways they are
called. `handlePing` fills a vacancy before it records the ping, so between the two
it may have a primary that is not known; `RecordFirst` shows that the other order
has the same effect, and `HandlePingKeeps` uses that order, in which the invariant
never breaks. `OneViewPerSweep` is why the timer's loop cannot form two views: the
second would need an acknowledgement of a view that did not exist before it.

`LoopIsSweep` is `SweepIsLoop`, for any number of servers and any order of the keys.
A visit gives a role only to servers that have one already or are live (`RolesFrom`), and a
visit to a server that is live, or has no role, changes nothing (`VisitOther`). So the
loop does nothing until it meets the first of the two servers the view starts with,
nothing else until the second, and nothing after that (`AfterVisits`, whose steps are
those of the loop, `OneMoreVisit`). `LoopVisits` carries this along the positions of the order,
by induction; `OrderFacts` says where in the order the two servers stand.

### Primary and backup

`PrimaryBackupProofs` proves, for any servers and clients, any views the view
service may form, any crashes, and messages that arrive late, repeated, out of order
or never: `TypeCorrect`, `OneActive`, `Confirmed`, `ListComplete`,
`ChangeOnlyInBackup`, and `Implements`, that the servers enter views as
`ViewService` lets them. With `Refinement` of `ViewServerProofs`, whose servers
ping with ever newer numbers of views that exist, this closes the loop between the
two halves of lab 2: each is proved against the same abstract service.

The invariant `IInv` has four parts beyond types and the properties that are
inductive as they stand (`ListHoldsLog`, `ViewChangeOnlyInBackup`):

* `ViewsOK`, `RolesOK`, `LeftViewsEntered`: the views form one chain, each led by a
  member of the one before; a server's role is the one its view gives it; and the
  primary of every view that was left has entered it. `OldPrimaryRefused` puts them
  together. An old primary p never leads a later view, since it would have entered
  it; so the view after p's is led by p's backup, which has entered that view or a
  later one, in which p is not the primary, and so it refuses what p sends.
* `NetBacked`: a forwarded command is within the list of its sender, a confirmed one
  within the lists of both. Lists never shrink (`cmd_list.clear()` is commented out
  at both its places), so a message stays backed for ever, however late it arrives.
* `CountsBacked`: a server's count is within the list of the backup it counts for,
  in every role, because a server that is no longer primary may become one again.
* `OutstandingOK`: a client that waits has a command to repeat.

`ConfirmedIsHeld` is not inductive alone: a confirmation that is still on its way
must be known to be backed. The lemmas follow the two kinds of steps: `HandlerKeeps`
is for handlers that lengthen a list, execute or count, `EnteringKeeps` for those that
enter a view, `SendingKeeps` for those that only send. Each action then has a lemma
of its own that shows it to be of its kind.

### The order of commands

`PrimaryBackupOrderProofs` proves `Follows`, whatever views are formed and whoever is
left out of them: what a backup holds is the beginning of what its primary holds, and
every step keeps it so, but for a server that has been in an earlier view
(`Returned`). Such a server may have executed commands as primary, or stored some,
that its new primary never heard of, and the code does not compare the two lists: a
number that it holds is confirmed unseen (line 315), and commands are lost. So
`BackupFollows` lets its list differ, but only from the step by which it comes
back: if it begins as its primary's does, no later transfer, retry or late message
makes it differ. `OrderInv` adds to `IInv`:

* `HeldSince` and `NoLoneBackup`: a server that holds commands has been in a view,
  since before that nobody sends it any. A backup that is in its first view came to
  it with nothing.
* `Following`: such a backup follows the primary of its own view, whether or not
  that server is still in it. It is a prefix that is kept, never a length: the
  primary appends, and the backup appends what `NetListed` says, that a forwarded
  command is the one its sender holds under that number.

The step itself needs no more: a backup takes from its primary alone (`Rejects`) and
only the next number (`LeavesGap`), so a list that is a prefix before the step is one
after it, returned or not.

The same module proves what clients are told, whatever views are formed and whoever
is left out: `OwnAnswers` (`AnswersAreOwn`), `OnceOnly` (`ExecutedOnce`) and
`LinearizableLed` (`LinearizableUntilTakeover`). None of the three is inductive. The
invariant `AnswersInv` says:

* of every server's application (`Sane`): no command is in the log twice or after a
  later one of its client, none is newer than the newest result of its client, and
  each stored result is the log up to the command it answers. `ExecuteSane` shows
  that `execute` keeps this of any command, repeated or old ones included, and that
  what it returns answers the client of the command;
* of every message (`ToldIn`): a forwarded command is the one its sender holds under
  that number and names the client that sent it, unless it is transferred; a
  confirmation names the client of the command that its receiver holds under that
  number; and a `Reply` is a beginning of the log of its sender, which has led a view;
* that clients were given only results that were sent.

Lists and logs only grow at their ends (`Grown`), and the numbers in messages are
within the lists (`NetBacked`), so what a message says stays true however late it
arrives (`StaysTold`): no argument about views is needed. The numbers do the work: a
confirmation is matched by its number alone, and its number and its client belong
to the same command. `LinearizableLed` then follows because replies come from
servers that have led a view, so from one, and two beginnings of one log are
comparable. It cannot be had for a second leader: that is `primary_backup_lost_update`.

### Timers

`PrimaryBackupTimersProofs` proves `TimedImplements`, that `PrimaryBackupTimers`
implements `PrimaryBackup`, so that every theorem of `PrimaryBackupProofs` and
`PrimaryBackupOrderProofs` holds with timers as state. What it needs is `TimersSent`: a timer holds a request that
its server has sent, which is what lets `PrimaryBackup` resend it.

`Retried` is `RetriedUnlessRefused`, whatever views are formed. A primary that waits
for its backup *retries* if it has a timer that will send a request when it fires
(`Retries`). The code does lose all such timers, and the primary then serves nobody
until the next view; the theorem says that exactly two steps do it:

* A reply that is no confirmation by the backup, a late one of an earlier backup or a
  refusal, resets `able2Execute` and the count (line 370), and a count of zero may
  ask for commands whose timers were let go long ago.
* A backup that came back with more commands than its primary has confirms beyond the
  primary's list (line 340, `Overtaken`). The next request gets a number that
  counts as confirmed already: its timer is dropped when it fires, and its
  confirmation is not taken.

In every other step that makes a primary wait it sets a timer for a command after
those confirmed, and one that counts another confirmation either waits no longer or
sets the next timer. `FireBackupTimer` keeps it since a timer that applies is set
again.

### Key/value store and shards

`ShardedStoreProofs` proves `TypeCorrect` and `Local` for any keys, letters
and values. `Local` is proved of every map and transaction (`LocalIn`), from the
definitions of `Run` for each kind; reachability is used only for the map's type.

`HeldIsHistory` and `AnswersAreHistory` are about sequences of commands of any
length. The history of the log is a recursive function; a longer log has the same
history up to its last command, since each entry looks only at the command and at
the entry before (by `UpTo`), so a step adds one entry and leaves the others alone.
What is left is one step, for each command and transaction: if the map holds what the
last entry says, the map after it holds what the next entry says, and the answer
tells what those two say of its keys. Answers given earlier stay right because their
entries stay.

`KeysInRange` and `KeysByNumber` are about keys of any number of digits.
`ShardOfInRange` gives every `int` hash a shard in range, negative ones included. The
loop over the digits yields an `int` after each of them, whatever has overflowed
(induction); as long as there are at most nine, what it yields is below 10^n and so
the number itself, whose remainder is that of `NumberMod`, digit by digit (induction).

### Only model-checked

All safety properties that the passing runs check are proved. Liveness is only
model-checked: `ENABLED`, on which fairness stands, is out of the prover's reach.
The four properties of the violation runs are false.

## Not modelled

* Paxos, shard master, shard store: handlers are stubs.
* `handleBackupWholeAppRequest`, `handleBackupWholeAppReply`,
  `onBackupWholeAppTimer`: no code sends the first message.
* When a server answers a client with an error: any reply that is not believed may
  come at any time.
* Real time: a timer may fire at any moment, so nothing depends on the intervals,
  except that `BackupTimer`s fire in the order they were set.
* The framework, the tests and the visualiser.
* `src/doc`: javadoc's output. Its search scripts, jQuery and jQuery UI are the only
  JavaScript in the repository and no part of the program.

## Plan

Done: lab 0 with its invariants proved, lab 1, with any application behind its server,
and the view server with their refinements proved, the primary/backup protocol over
the abstract view service with its refinement, invariants, the order of commands and
what clients are told proved, its timers as state with the refinement proved, the
key/value stores and the shard mapping with all their properties proved for any
history and any key.

1. Liveness of the service: with servers that run and a network that loses nothing
   for ever, every command is answered unless a refusal stops the primary.
