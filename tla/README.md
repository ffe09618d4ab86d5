# A formal model of the Meshtastic agent bridge

The bridge connects a Meshtastic LoRa node to an agent behind an
OpenAI-compatible HTTP API: a text that arrives over the mesh becomes one turn
of the agent, and the agent's reply is sent back over the radio; an agent may
also post a text of its own. This directory holds TLA+ modules of the program
in `bridge/`, TLC configurations that check them on small instances, and proof
modules checked by TLAPS. `PROJECT.json` maps every definition to the lines of
the source it models.

## 1. Inventory

### 1.1 Threads and how they meet

| Runs | Code | Shares |
|---|---|---|
| main coroutine on the event loop | `MeshtasticBridge.run`, `start`, `stop` | `_shutdown_event`, the components |
| one task per inbound message on the loop | `_forward_to_agent` | `AgentClient._session`, `_retry_delay`, the radio |
| one handler per HTTP request on the loop | `BridgeHTTPServer._handle_*` | the radio |
| executor threads | `transport.open`, `sendText`, `transport.close` | `MeshtasticRadio._interface` |
| reader thread of the meshtastic library | `_handle_receive`, `_on_packet`, `_on_receive` | `_pending_acks`, the packet counters, the loop |

Coroutines interleave only at an `await`; the reader and the executor threads
interleave with everything. No lock is used anywhere.

### 1.2 Components

| Component | State | Operations | What makes it correct |
|---|---|---|---|
| radio, sending (`radio.py:99-197`) | `_pending_acks`, the deadline and sleep of each waiting send | `send_text`, `_confirm_delivery`, the routing part of `_handle_receive` | a verdict rests on an answer to that very packet; timely answers are reported; every send ends, in bounded time |
| radio, life (`radio.py:61-97, 260-288`) | `_interface`, `_connected`, `_reconnect_delay` | `connect`, `disconnect`, `reconnect` (no caller), `is_connected`, `my_node_id` | the flag tells the state of the link; the own id is known when packets are handled |
| agent client (`http_client.py`) | `_session`, `_retry_delay` | `start`, `stop`, `ask` (`_request`, `_post`), `check_health` | a reply that was received is not lost; what is returned fits the budget; every ask returns in bounded time, sharing one backoff with the others |
| orchestrator (`main.py`) | `_shutdown_event`, `_packet_count`, `_own_packet_count`, `_last_packet_at`, `_rejected_logged` | `start`, `stop`, `run`, `shutdown`, `_on_packet`, `_on_receive`, `_forward_to_agent`, `_send_to_radio`, `_get_health` | only solicited replies go on the air, once, to the sender; the agent never talks to itself; a signal ends the process |
| HTTP server (`http_server.py`) | the runner and its handlers | `start`, `stop`, `POST /send`, `POST /callback`, `GET /health` | up only while the radio is; each accepted text is transmitted at most once |
| text (`text.py`) | none | `truncate_bytes` | within the budget, no split character, as much of the beginning as fits, word boundary preferred, the cut is marked |
| node identity and policy (`config.py:70-175`) | the configuration | `normalize_node_id`, `is_broadcast_id`, `is_allowed`, `is_ignored` | two spellings compare equal exactly when they name one node |
| configuration (`config.py:178-286`) | the configuration | `load`, `validate` | `--check` and the start agree on what both have read |
| environment file (`environment.py:71-165`) | `/etc/meshtastic-bridge/.env` | `seed`, `capture`, `set-key`, `expand` | re-runs keep what the operator set; a crash loses nothing |
| transports (`transport.py`) | the interface | `build_transport`, `prerequisites_met`, `prepare`, `open`, `close` | what is registered, tested and opened is the same connection |
| installer, revert script, unit (`deploy/`) | files and the service | eight steps, re-runnable; restarts | idempotent; a bridge that runs is found; what fails comes up again |
| scripts (`scripts/`) | counters of the sniffer | verification, sniffing, listening | the verdict follows from what was heard |
| command line (`main.py:276-412`) | none | `cli`, `check`, `main` | the exit codes tell systemd and the operator what happened; `--check` predicts the start of a service that reads the same |

### 1.3 What is hard to test here

The list, line by line, is in `PROJECT.json` under `hazards`. In short: the
reader thread against the loop on `_pending_acks`; the timeout racing a late
answer; the window in `connect()` in which packets arrive before the own node id
is known; the node's echo of the bridge's own texts; shutdown with tasks, HTTP
handlers and executor jobs in flight, and a `sendText` that runs on after its task
was cancelled; a link that is lost without notice; one backoff shared by all
requests; a rewrite that fails after the first reply came; node ids in many
spellings; counters that `/health` reads while the reader writes them; clients of
`/health` that are less patient than its handler; checks that are made in another
place than the start they predict; and the edges of byte-wise truncation.

## 2. The modules

| Module | Models | Used by |
|---|---|---|
| `DeliveryContract` | what `send_text` promises, without threads or time | `Delivery` (refinement) |
| `Delivery` | `send_text`, `_confirm_delivery`, the routing part of `_handle_receive`, `disconnect` | `MCDelivery`, `Delivery_proofs` |
| `Delivery_proofs` | theorems about `Delivery` | |
| `AgentClient` | `ask`, `_request`, `_post`, `stop` | `AgentClient_proofs` |
| `AgentClient_proofs` | theorems about `AgentClient` | |
| `NodeIds` | `normalize_node_id` and the documented spellings of a node id | `Bridge`, `NodeIds_proofs` |
| `NodeIds_proofs` | theorems about numerals and `normalize_node_id` | `Bridge_proofs` |
| `Pipeline` | what the bridge promises for each message | `Bridge` (refinement) |
| `Bridge` | `run`, `start`, `stop`, the reader's callbacks, `_forward_to_agent`, the policy, the POST handlers, `connect`, `disconnect` | `MCBridge`, `Bridge_proofs` |
| `Bridge_proofs` | theorems about `Bridge`, its refinement of `Pipeline` among them | |
| `Startup` | `cli`, `--check`, `load`, `validate`, `main`, `start` under systemd | `Health` |
| `Health` | the counters, `/health`, `verify_bridge.sh`, the poll of `install.sh`, `mesh_sniffer.py` | `MCHealth`, `Health_proofs` |
| `Health_proofs` | theorems about `Health`, with `Startup` in it | |
| `Text` | `truncate_bytes` | `Text_proofs` |
| `Text_proofs` | theorems about `Text` | |
| `EnvFile` | `seed`, `capture` and `set-key` as `deploy/install.sh` runs them | `MCEnvFile`, `EnvFile_proofs` |
| `EnvFile_proofs` | theorems about `EnvFile` | |
| `Induction` | induction and recursion over the natural numbers | `NodeIds_proofs`, `EnvFile_proofs`, `Text_proofs` |

`MCDelivery` only adds the symmetry set for TLC; `MCBridge` also the allowlists,
`MCHealth` what may be read, `MCEnvFile` the names and the template;
`AgentClient` and `Text` are checked as they are.

**Composition.** `Bridge` contains a call of the agent and a `sendText` as one
await each. Their insides are `AgentClient` and `Delivery`, whose liveness
properties (`EveryAskReturns`, `EverySendReturns`) are what `Bridge` assumes in
its fairness, and whose results are what it lets those awaits return. The
product of the three would be far beyond TLC and would add no interaction: the
three share only the calls, `_connected`/`_session` (each module has the life
cycle that changes the one it needs), and the interface. `Startup` and `Health`
take the same program from the operator's side: the start in the detail of what
can be wrong with it, over and over, and the counters write by write, where
`Bridge` has one run and the messages. `Health` extends `Startup`: its counters and
requests die with the process (`Follows`).

### 2.1 Delivery

One record of state per call `s` of `send_text`. The library gives each packet
its own id, so a packet's id is the call that sent it.

| Variable | Code |
|---|---|
| `stage` | where the coroutine stands: not called, awaiting the executor, in the loop of `_confirm_delivery`, before its `finally`, returned |
| `job` | the `sendText` call in the executor |
| `confirm` | `request_ack` |
| `pendingAcks` | `_pending_acks`: absent, `None` ("pending") or a reason |
| `left`, `nap` | `deadline - now`; what is left of `asyncio.sleep` |
| `reader` | the packet for which the reader has done the test of line 195 and not yet the write of line 197 |
| `report` | the return value and the log line |
| `link` | progress of `disconnect()`, including a `close` that raises |
| `heard`, `margin` | history: what the reader had handled before the report, and how long before the deadline it was recorded |

Each access to the dictionary is a step, so the reader's test and write, the
poll, and the `pop` interleave as they can under CPython. The mesh delivers any
answer to a transmitted packet, any number of times, in any order, or never.
Cancellation (which `asyncio.run` does to every task at exit) may strike a send
wherever it awaits.

`DeliveryContract` has three actions: a send begins, an answer arrives, a verdict
is given once. `ContractSpec` is that specification under the mapping `verdict`
and `evidence`, its fairness included; TLC checks it in `delivery_timing`, and
its safety part is proved.

### 2.2 AgentClient

A step is what a coroutine does between two awaits. A reply is its length. `Post`
reads the session when the attempt starts, as `_post` does; the outcomes of the
post are `Reply`, `FinalFailure` (no retry) and `TransientFailure` (retry while
`attempt < max_retries`), each with the whole continuation up to the next await:
the reset of the backoff, the choice between returning, rewriting and
truncating. `elapsed` is a history variable that counts the ticks an ask took.
The agent may never answer; the session's total timeout then ends the post.

### 2.3 NodeIds, Pipeline and Bridge

`NodeIds` has node ids as numbers and texts as sequences of digits; what is
stripped before the digits are looked at (blanks, case, `!`) is left out.
`Normalize` decides as the code does, by the length of a decimal text alone, and
`Spellings` is what its docstring accepts.

`main` is the point the main coroutine has reached; from it follow `_connected`,
`_interface` and whether the HTTP server is up. `Hear` is one call of
`_handle_receive` with `_on_packet` and `_on_receive`: counting and scheduling in
one step, because the reader is a single thread and the loop sees only the
scheduled task. A message becomes a task that is dropped by the policy, asks the
agent, and sends the reply; a handler reads its body and sends. `air` is the
history of what the node was handed, with its cause; the interface may echo any
of it back (`HearEcho`), which is how the program learns its own texts.
`Unplug` is the loss of the link, which nothing in the program notices.

A task that is cancelled while `sendText` runs in the executor leaves the call
running: its stage is "abandoned", and it may still put its text on the air, after
the process has begun to exit.

`Pipeline` is the promise to the mesh: a message is taken, gets at most one reply,
to its sender, and is dropped, answered or given up. `PipelineSpec` is that
specification under the mapping `fate`, `asker` and `recipients`, its fairness
included; TLC checks it in `bridge_lifecycle`, and its safety part is proved.

### 2.4 Text

A text is a sequence of characters of which the width in bytes and the kind of
white space matter. `HardCut` is the slice of the encoded bytes decoded with
`errors="ignore"`. `int(budget * 0.8)` is `(4 * room) \div 5`, the same number
for every budget below 5000 bytes. `Sizes` are the sizes of all beginnings of a
text.

### 2.5 EnvFile

The file is a sequence of lines, each a name with a value or a comment, because
an operator may leave several lines for one name and systemd takes the last.
`Upsert` drops every line of the name and appends one. `Capture` goes through the
whole list of names and skips those that are not exported. `Abort` ends the run at
any step, as `set -e`, a signal or a full disk do; every write but the copy of
the template is an atomic replacement, so only `Copy` can be left half done. The
history variable `wanted` holds the values a name may have by what the operator
asked for: one after a complete run or an edit, more after a run that failed.

### 2.6 Startup

A process reads its configuration once, when it begins: a file, and the variables
of its own environment, in which the agent's key is and from which `load` fills the
placeholders. The service has the variables of its `EnvironmentFile`, `--check` those
of the shell it is run from, and the operator may edit the file, the
`EnvironmentFile` or the shell at any time. So each process has a reading of its own,
any of `Settings`, chosen when it reads (`Load`, `Check`): a connection and a set of
`Mistakes`, those of the environment included. `loaded` and `checked` are what the
service and the last `--check` have read; a restart reads anew.

`Acceptable` is the order of tests of `load`, `main` and `validate`, `Check` that of
`--check`; they test the same things in different functions, and differ in the log
level and in how they spell the connection (`Validates` compares the name as written,
`BuildsTransport` its canonical form). Each failed start ends the process with 1,
and systemd starts it again (`Restart`), unless the operator stopped it. The node
may be there without answering, the agent may refuse or hang, and the HTTP port
may be taken. `AgentFor` is what is met at the URL that was read: without an agent
host the placeholder stays in it, and nobody answers there.

### 2.7 Health

`age` is `_last_packet_at` as the time since then, capped at the age from which
`verify_bridge.sh` no longer calls a packet recent. `Stamp` and `Count` are the two
writes of `_on_packet`; `AgentAsked`, `ReadLast`, `ReadCount` the reads of
`_get_health` after `check_health` has returned, and what is left of them belongs
to the answer. A tool is run by one operator, one at a time, because none of them
changes what another sees, but for the sniffer, which holds the port, and the
installer, which restarts the service. `probe` and `polls` are the requests as the
client counts them.

`mesh_sniffer.py` handles packets in a thread of the library, from the subscription
on, so also before it has learnt its own number, and handles each in two steps: it
counts it (`Sniffs`), then compares the sender (`Recognises`). The verdict is
computed in the main thread at any point between, in one step: CPython 3.10 and later
do not switch threads between the two loads of `total - own`. `sniffed.others` and
`sniffed.early` are history: the packets of other nodes, and own ones that were
compared with no number; `sniffed.between` is an own packet between the two steps.

## 3. The runs

| Run | Bounds | Shows |
|---|---|---|
| `delivery_races` | 2 sends, timeout 2, poll 1, no lateness | verdicts are earned and entries have waiters in every interleaving of two coroutines, their jobs, the reader and `disconnect` |
| `delivery_timing` | 1 send, timeout 6, poll 2, lateness 1 | timely answers are reported, the wait is bounded, the call returns, the contract is refined |
| `agent_client` | 2 asks, budget 2, replies of 2 and 3 bytes, 1 retry, timeout 2, backoff 1 to 2 | the first reply survives, replies fit, asks end in bounded time whatever the agent and `stop()` do |
| `bridge_messages` | 2 nodes, 2 messages, no posts, 2 packets, allowlists in every spelling | what is transmitted is one reply to an admitted message, and no admissible message is dropped |
| `bridge_lifecycle` | 1 node, 1 message, 1 post, 2 packets, no allowlist or one of the bridge itself | no feedback loop, no request without a radio, others' packets are never taken for own ones; every message concludes, as `Pipeline` promises; a signal ends the process |
| `text` | up to 7 characters, limits 1, 5, 8, with and without a marker | the four facts about `truncate_bytes` |
| `env_file` | 2 runs, 2 edits, 2 captured names and the key, 2 values | exported values win, the others are kept, whatever fails |
| `operation` | 11 readings, chosen anew by each process, 2 packets per run, 2 polls, the times 1, 2 and 4 for 2, 5 and 8 seconds, packets distrusted from age 2 | `--check` and a start that read the same agree; whatever failed comes up again; verdicts follow from what was heard |
| `delivery_unconfirmed`, `delivery_entry`, `bridge_unplugged`, `installer_poll` | the smallest instance | disagreements between the code and its documents or tests, section 5 |

**Why the bounds are enough.** Sends meet only in the reader, which holds one
packet: two sends show every cross-talk, and the proofs cover any number. A
timeout of two polls contains a first poll, a nap in which an answer may come,
and the deadline; six ticks with a poll of two and a lateness of one make the
deadline fall within a nap and before a late wake-up. Two asks are needed for the
shared backoff, one step from 1 to 2 reaches its cap, and the reply sizes are the
two sides of the budget. Two messages and two packets allow a message, the echo
of its reply, and the message that echo becomes. In `text`, limit 1 has no room
for the marker, limit 5 leaves two bytes, limit 8 leaves five, of which a word
boundary has to use four; a character of three bytes can straddle each cut.

In `env_file` one captured name is in the template and one is not; two edits make
a duplicate line and change one of the two, and a failed run is followed by a
complete one.

With ids of two digits, node 5 needs a leading zero, the decimal 171 is longer than
the id `!ab` and reads as hexadecimal if it is not told apart, and all 256 numbers
can be gone through: `MCBridge` has TLC evaluate `SpellingsAreRead`, which is proved
for ids of every length, for every pair of them. In `operation` the three times keep the order of a poll (2 s),
the agent's timeout (5 s) and the patience of `verify_bridge.sh` (8 s), and the
loop's lateness is one unit: the properties depend on which of two timers comes
first. Two packets are one whose two writes a report falls between and one that is
over, and, for the sniffer, one of its own and one of another node; an age of 2
has a packet that is fresh, one that is no longer, and none. Of the eleven readings
two are acceptable, and the others have the mistakes that end a start or a check at
each of their tests; more mistakes in one reading only fail earlier. Two polls (three in `installer_poll`, of thirty) show a poll that
fails and one that follows.

In `bridge_lifecycle` both allowlists admit the bridge itself, because what could feed
the agent its own words is the echo that is let through; what stops it there is that
only direct messages are answered. `NoFeedback` proves the property for every
allowlist.

The bounds in guards are `MaxPackets` (`Bridge`, and in `Health` for one run of
the bridge or the sniffer), `MaxLength` (`Text`), `MaxRuns` and `MaxEdits`
(`EnvFile`). Deadlock is not checked: a run ends when every call has returned or the process
has exited, and in `Text` when the text has its full length.

**Fairness.** In `Delivery`: the executor runs a queued job (its pool is not
filled by jobs that never end), the loop resumes a coroutine whose await is over,
time passes. In `AgentClient`: the same, and a post ends when its total timeout is
over. In `Bridge`: the main coroutine goes on when what it awaits is over (the
drivers' `open` and `close` return or raise), `ask` and `send_text` return, and
`asyncio.run` and the HTTP runner cancel what is left. In `Health`: the process and
systemd go on with the start (`StartUp`); no tool is assumed to finish, no packet
to come. In `Pipeline`: a message is concluded. All of it is weak fairness
of single activities. Nothing is assumed of the mesh, the agent, HTTP clients,
signals, cancellation or the link.

Each property of a passing run has a mutant in `PROJECT.json`: a definition
changed as a plausible bug would, kept in the module just before the original,
with which TLC finds the property violated.

## 4. The proofs

`Delivery_proofs` proves, for any set of sends and any timeout, poll interval
and latency that satisfy `TimingAssumption` (naturals, the poll interval not 0):

| Theorem | States |
|---|---|
| `TypeCorrect` | `Spec => []TypeOK` |
| `Invariance` | `Spec => []IInv` |
| `Earned` | `Spec => []ReportsAreEarned` |
| `Entries` | `Spec => []EntriesHaveWaiters` |
| `TimelyAnswer` | `Spec => []TimelyAnswerIsReported` |
| `InTime` | `Spec => []ConcludesInTime` |
| `KeepsContract` | `Spec => Contract!Init /\ [][Contract!Next]_(Contract!vars)` |

**Argument.** None of the safety properties is inductive alone. A verdict is
read from the dictionary, so it is earned only if every reason in the dictionary
was put there by the reader for that id while the send was open; that in turn
needs the entry of a send that has not registered yet to be absent, which needs
what the reader holds to have passed the test. `IInv` says this, per send: the
stage, the job, the entry, the verdict and the evidence agree. `InitInvariant`,
`NextVerdicts` and `NextTiming` show that it is inductive, with one step per
action. The timing theorems rest on the part of it that bounds `left` from below
by the nap and the latency: a waiting send is never past its deadline by more
than a nap, and a recorded answer is read at the next poll, at most a nap and the
latency later. `StepKeepsContract` maps each action to a contract action or a
stutter, using `Earned` for the step that gives the verdict.

`AgentClient_proofs` proves, for any set of asks, any budget and sizes, any number
of retries and any times that satisfy `BudgetAssumption` and `RetryAssumption`:

| Theorem | States |
|---|---|
| `TypeCorrect` | `Spec => []TypeOK`, which bounds the backoff and the retries |
| `ReplyKept` | `Spec => []FirstReplyIsNotLost` |
| `Fits` | `Spec => []AnswerFits` |
| `AskedOnce` | `Spec => []NothingIsAskedTwice` |
| `InBoundedTime` | `Spec => []AnsweredInTime` |

**Argument.** `FirstReplyIsNotLost` needs that an ask that is still making its
first request has no reply, which is `NothingIsAskedTwice`, and that answers come
last. The bound on time rests on `TimeInv`, on top of `IInv`: a request that has
made `k` attempts is at most `Spent(k)`, that is `k` timeouts and `k` capped
backoffs, after the moment it began, plus the timeout of the attempt under way.
That the backoff is shared does not matter, because `TypeOK` caps it whoever
doubled it. `SpentAtMost` is the arithmetic.

`Bridge_proofs` proves, for any nodes, messages, requests, allowlists and number of
packets that satisfy the assumptions named in `Bridge`:

| Theorem | States |
|---|---|
| `TypeCorrect` | `Spec => []TypeOK` |
| `SendingHolds` | `Spec => []Sending` |
| `SentOnce` | `Spec => []EachSendIsOneTransmission` |
| `RequestsServed` | `Spec => []RequestsFindTheRadio` |
| `Counted` | `Spec => []OthersAreCounted` |
| `PolicyHolds` | `Spec => []Policy` |
| `Solicited` | `Spec => []RepliesAreSolicited` |
| `Justified` | `Spec => []DropsAreJustified` |
| `NoFeedback` | `Spec => []AgentNeverAnswersItself` |
| `BridgeKeepsThePromise` | `Spec => Promise!Init /\ [][Promise!Next]_(Promise!vars)` |

**Argument.** `Sending` relates the stage and the outcome of each call to what is on
the air: a text is there only if its call has come past the radio, each call has at
most one, and what was reported sent, or awaits its confirmation, has one. A handler
runs only while the main coroutine is between the start and the end of the HTTP
server, so a request finds the radio. `Policy`, on top of it, follows a message from
the policy to the air, in terms of what the allowlist names and not of how it is
spelled (`AdmitsIsExact`). `NoFeedback` needs `OwnTextsAreEchoes`: an own text that
is asked about echoes one on the air, which is either a request's, or the reply to
an own text that was asked about before, and so on back to a request.

That the policy reads the allowlist as it was meant is `EverySpellingIsRead` of
`NodeIds_proofs`, below; `Solicited`, `Justified` and `NoFeedback` hold for every
list in the documented spellings (`AllowlistsAssumption`).

`BridgeKeepsThePromise` maps every step to a step of `Pipeline` or a stutter. A
step of a task changes the fate of its message from pending to an end, once,
because only what is over has an outcome; `AirWasSent` and `SentIsOnAir` give what
`Pipeline` wants of an end, that a dropped message has no reply and an answered one
has. A transmission is the reply of its message, and its first, because the call
has not been on the air before. The life cycle, the counters and the handlers
stutter. The replies are those texts on the air whose cause is the message, which
`RecipientsOf` gathers by recursion: `RecipientsOfAppend` says that one
transmission adds one recipient to one message.

`Induction` has what the proofs about recursive definitions need: a set of natural
numbers that has 0 and every successor is `Nat` (`Induct`), a bounded set has a
greatest element (`Greatest`), and a function that is defined from its previous
value exists (`RecursionExists`). The library's own theorems on this take a
predicate or a step operator, which the provers cannot instantiate; here they are
sets and functions. Every recursive function of `NodeIds`, `EnvFile`, `Text` and
`Bridge` is met once, in a lemma that says what it is at 0 and at a successor
(`ReadingFollows`, `SizesFollow`, `RecipientsFollow` and so on), and from then on
only through that lemma.

`NodeIds_proofs`, `EnvFile_proofs` and `Text_proofs` use it:

| Theorem | States | For every |
|---|---|---|
| `NumeralsAreReadBack` | `ValueOf(Digits(n, base, least), base) = n` | number, padding, in decimal or hexadecimal |
| `EverySpellingIsRead` | `SpellingsAreRead` | `IdDigits`, 8 included |
| `EnvFileInvariant` | `Spec => []IInv` | names, template, values, runs, edits |
| `ShellWins` | `Spec => []KeptOrExported` | the same |
| `NoDuplicates` | `Spec => []ExportedHasOneLine` | the same |
| `FileIsThere` | `Spec => [](exists \/ step \in {"idle", "seed"})` | the same |
| `CutTextsFit` | `Spec => []FitsTheLimit` | text, limit above 0, with and without the marker |
| `CutTextsBeginAlike` | `Spec => []KeepsTheBeginning` | the same |
| `CutTextsUseTheRoom` | `Spec => []UsesTheRoom` | the same |
| `CutTextsEndAtWords` | `Spec => []EndsAtAWord` | the same |

**Argument.** *Numerals.* The digits of a number are the remainders of what is left
of it after dividing by the base again and again; read from the front they rebuild
what was left, step by step, up to the number. An id has enough digits for every
node number, so `normalize_node_id` neither pads nor cuts differently for two
spellings of one number, and equal digits are equal numbers. What makes the third
spelling work is that a decimal text which is longer than an id is told by its
length.

*The environment file.* `KeptOrExported` alone is not inductive: an `Upsert` must
write a value that is wanted, which needs `Granted`; the copy of the template must
not undo what was asked for, which needs `Fresh`, that no value is ruled out before
the file is filled; and the last step settles the wanted values by what was exported, which
needs that the capture is complete. `Progress` says what a run has written when it
has come to a step: every captured name is still to be looked at, or has its line,
and one only. `FileIsThere` means that the early return of `capture_from_shell` for
a missing file, which would leave the exported names unwritten without an error, is
not taken in any run, so a run that ends normally has written them
(`NoDuplicates`).

*The cut.* Whatever `truncate_bytes` returns starts with so many characters of the
text (`HardCutIsABeginning`, `RStripIsABeginning`, `TrimmedIsABeginning`), so all
four properties compare the sizes of beginnings of one text, which grow with their
length (`SizesGrow`). `Kind` collects what is known of the number of characters that
are kept. `EndsAtAWord` is the delicate one: if a space that leaves enough of the
room used is at the very end of what fits, it is stripped and the text ends there;
otherwise it lies inside, so the last space inside is at it or behind it, and what
stands before that space is large enough to be taken.

`Health_proofs` proves, for whatever is read, with any combination of mistakes
and anew by each process (`SettingsAssumption`), any number of packets and polls, and any times that satisfy
`TimesAssumption`:

| Theorem | States |
|---|---|
| `TypeCorrect` | `Spec => []TypeOK` |
| `Invariant` | `Spec => []IInv` |
| `Predicted` | `Spec => []CheckPredictsTheStart` |
| `ReportsOfOneMoment` | `Spec => []ReportsAgree` |
| `Answered` | `CheckTimeout + Lateness < VerifyPatience => (Spec => []VerificationIsAnswered)` |
| `VerdictFollows` | `Spec => VerdictIsTrue` |
| `SnifferFollows` | `Spec => SnifferIsRight` |

**Argument.** `StartIsConsistent` says that a process which got past its tests had an
acceptable reading, that one which ended with the configuration had not (and that the
failure of an earlier process is forgotten before the next one reads), and that the
verdict of `--check` is what its own tests, `Rejects`, make of its own reading.
`Predicted` is what remains when the two are compared for one reading; of a service
that has read something else nothing follows, and nothing is claimed. A report is right because of the order of two writes and
two reads: there is no count without a stamp (`StampFirst`), and a handler that read
"no packet" has seen at least one packet begin for each that it will count, the one
whose count is still to come included (`ReportSoFar`). `StampIsOthers` says that the
stamp is that of a packet of another node unless an own one was taken for it, and a
report keeps what it read. `SniffedIsCounted` accounts for every packet the sniffer
counted: it was recognised as own, is still being looked at, was looked at too early,
or is of another node. So a total above the own packets has one of the last three
behind it (`SnifferFollows`); that own packets are recognised once the number is known
is the step that keeps the equation. `Answered` needs `ProbeInTime`, the bound on a request;
its hypothesis is the one relation between the two timeouts that the scripts rely on
(8 s against 5 s), and the run
`installer_poll` shows what becomes of the installer, which waits for less. The
run checks one mistake at a time; the theorems have all of their combinations.

**Only model-checked:** liveness (`EverySendReturns`, `EveryAskReturns`,
`EveryMessageConcludes`, `SignalEndsTheProcess`, `RestartsUntilItRuns`, the fairness
of `ContractSpec` and of `PipelineSpec`), which needs `ENABLED`. Every safety
property of a passing run is the statement of a theorem, or, for the two
refinements, has its initial states and its steps proved. What the theorems
cannot say is that the models are right about the code; that is for the reader who
compares them, and for the mutants.

## 5. Where code and documents disagree

* **"No routing ACK" does not mean that there was none** (`delivery_unconfirmed`).
  The reader may handle the acknowledgement before the loop has registered the
  id (`radio.py:165`), or during the last sleep before the deadline, which is
  tested before the dictionary is read (`radio.py:168`). The guides read the
  warning as "the handset never acknowledged". What does hold is
  `TimelyAnswerIsReported`.
* **An entry may outlive its send** (`delivery_entry`): the reader's test and write
  (`radio.py:195-197`) are not atomic with the `pop` (`radio.py:186`). It costs one
  dictionary entry each time; `ReportsAreEarned` shows that no later verdict is
  affected as long as ids are not reused.
* **`serial: true` with the node unplugged** (`bridge_unplugged`): `_connected` is
  cleared at shutdown only, and `reconnect()` is never called.
* **The installer gives up on a bridge that runs** (`installer_poll`): it polls
  `/health` with a patience of two seconds (`deploy/install.sh:219`), and `/health`
  waits up to five for an agent that does not answer (`http_client.py:307`). With
  such an agent every poll fails, although an agent that cannot be reached is to be
  a warning only. `verify_bridge.sh`, which waits eight seconds, is answered
  (`VerificationIsAnswered`).

Some more are plain in the code and have no run:

* packets that are handled between the subscription and the end of `connect()` find
  no own node id and are counted as inbound (`main.py:115-125`); the other direction
  holds (`OthersAreCounted`);
* posts are cut to the constant `LORA_MAX_BYTES`, not to `max_message_length`
  (`http_server.py:23`);
* a `log_level` that `logging` does not have passes `--check` and ends the start with
  an exception (`main.py:282`); `CheckPredictsTheStart` excepts it;
* `verify_bridge.sh` says that no packets were heard when the last one is two minutes
  old, whatever the count says, and passes an unplugged bridge with a warning;
* a node number of eight digits or fewer that is written as a text is taken for a
  hexadecimal id (`config.py:89`); every other spelling is read right
  (`SpellingsAreRead`);
* `--check` has the environment of the shell it is run from (`main.py:342`,
  `config.py:197`), while the service has that of its `EnvironmentFile`. `docs/SETUP.md:207-211`
  and `.agents/skills/meshtastic-bridge/SKILL.md:90` run it without the latter: a
  deployment in order is then rejected for its missing key, and, from a shell that has
  the key, one passes whose `EnvironmentFile` lacks it. `CheckPredictsTheStart` is
  about equal readings for this reason;
* `SKILL.md:152-158` and `references/troubleshooting.md:131-134` of the same skill have
  `/health` report `serial: false` for some seconds after a restart. It cannot: the
  HTTP server is up only after `connect()` has returned (`RequestsFindTheRadio`), and
  until then there is no answer at all;
* `references/hermes-api-server.md:77` says that the bridge cannot serve until the
  agent's `/health` answers. The start does not ask the agent, and `docs/SETUP.md:30`
  says so;
* `references/troubleshooting.md:156-158` and `PLANS.md:77` still miss a sender
  allowlist, which the configuration has (`is_allowed`, `DropsAreJustified`);
* `environment.py:48-53` speaks of the semantics of the shell's `:-` for a variable
  that is set and empty, and has those of `-`.

## 6. Not modelled

`reconnect()` has no caller. `_log_rejection` only limits log lines. Prompts,
headers and the parsing of the agent's answer are data: an answer that cannot be
parsed or is empty is `FinalFailure`. A reply that cannot be encoded (lone
surrogates) is not among the replies of `AgentClient`. The search path of the
configuration file is left out, and of the expansion of its placeholders all but an
unset agent host, as is a service whose `EnvironmentFile` does not exist. In `EnvFile` a
value is the same in the operator's environment, in the line and after systemd has
read the line: values with quotes, backslashes or line ends, which would differ, are
left out. The drivers
behind the transports, the wake pulse, the mesh and the agent are the environment of
the models. A seed that is cut short leaves a truncated file that no later run
repairs; `EnvFile` has that behaviour, and no document denies it, so it is listed as
a hazard only. Of the installer, the package installation and the file copies are
left out, the revert script is straight-line, and `mesh_listen.py` only prints. The
probe send of `verify_bridge.sh` is a POST as `Bridge` has it.

## 7. Plan

What is left, in this order:

1. A cut in `AgentClient` is a length, and `Truncated` is what `CutTextsFit` proves
   of `truncate_bytes`; the two could be joined by one theorem.
2. Invariants of `Startup` by itself, for starts and stops under systemd without the
   tools of `Health`.
3. `reconnect()` and the driver's reports of a lost link, once the program uses them.
