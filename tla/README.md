# MNotify in TLA+

MNotify is a Windows tray program. It keeps an IMAP session open, counts unread
mail, and shows a toast when the count changes. These modules model its logic, TLC
checks them on small instances, and TLAPS proves for every value of the constants all of
the safety properties that hold, and the refinements.

Paths below are relative to `src/src/` unless they say otherwise.

## 1. The system

| Part | State it keeps | Operations | Modelled in |
|---|---|---|---|
| Main thread (`mnotify.c`: `WinMain`, `WindowProc`) | `EmailCount`, `GlobalHasErrors`, the tray icon, the toast | one handler per message, the idle timer's callback, Show Log, Exit | `WindowProc` |
| Background thread (`mnotify.c`: `ImapBackgroundThread`, `ImapPerformIdle`, `ImapPerformPolling`) | `GlobalImapIdleClient`, `GlobalImapIdleClientWasReset`, its local `Imap`, and `EmailCount`, which it writes as well | probe, idle loop, polling loop, error paths, recovery timer | `BackgroundThread` |
| Windows messages and timers (external) | posted messages, timers by identifier | `PostMessage`, `SendMessage`, `SetTimer`, `KillTimer`, `GetMessage` | `Win32`, `Globals` |
| IMAP client (`imap_client.c`) | `CommandNumber`, `HasIdle`, the line buffer, its read flag | `imap_init`, `login`, `examine`, `idle`, `idle_listen`, `done`, `search`, `destroy` | `ImapClient` |
| IMAP server and network (external) | mailbox, commands and lines under way | replies, unsolicited news, refusals, broken connections | `ImapServer` |
| Line reader (`imap_read_line`) | `LocalBuffer`, the caller's `Line` | cut a byte stream into lines | `LineReader`, abstractly `LineQueue` |
| Response parser (`imap_parser.c`) | none between calls | line to response record | `ResponseParser` |
| Tokenizer (`tokenizer.c`) | the place in the line | next token | `Tokenizer` |
| TLS socket (`tls.c`) | credentials, security context, socket, receive buffer | `tls_connect`, `tls_read`, `tls_write`, `tls_disconnect` | `TlsConnect`, `TlsRead`, `TlsWrite`, abstractly `ByteStream`; outcomes in `Globals` |
| Toasts (`WindowsToast.h`) | notifier, notification objects | create, show, release, callbacks | one flag in `WindowProc` |
| Log, configuration (`mnotify.c`) | a file, constants | append; read once | the failing append in `WindowProc`; the rest left out |
| Startup (`mnotify.c`: `WinMain`) | `EmailCount` | thread creation, then the count's initial value | `WindowProc` (`EnterLoop`) |
| `imap_fetch` | none | disabled by `#if 0` | left out |

**How they interact.** The background thread tells the main thread about mail with
two posted messages: `WM_MNOTIFY_EMAIL_CLEAR` sets the count to zero and
`WM_MNOTIFY_EMAIL_MESSAGE` sets it to the new value. It reports errors with
`SendMessage(WM_MNOTIFY_ERROR)`, which blocks it until the main loop has handled the
message. Two timers on the same window connect them the other way. The idle timer
calls back on the main thread, which closes the connection under the background
thread's blocking read. The recovery timer, set as the last act of a background
thread, makes the main thread start another. `EmailCount`, the shared connection and
the reset flag are plain globals that both threads read and write without a lock.

**What is hard.** The interleavings of the two threads; two timers with one number;
the flag and the close that are two steps; the race on `EmailCount`; error paths that
leave a connection as it is; lines that arrive several to a read in a buffer that
every call empties; replies told apart by tags, except that of `IDLE`, which only
`DONE` brings about; a receive buffer in which ciphertext and plaintext share the bytes
and records come in any pieces; a handshake whose messages do, too; buffers searched
with string functions although bytes of earlier reads are still in them; a recursive
parser whose returns must meet the token their caller expects. `PROJECT.json` lists
each hazard at its line.

**What makes each part correct.**

- Threads: never two background threads at once; a blocked read always has something
  that will end it; a thread that ended is started again; a report always gets through.
- Count and icon: the count only rises by an announcement; the warning triangle says
  whether there are unseen errors.
- Connections: each one is released before its variable is connected again.
- Client: a call takes its own command's reply and no other; a search returns what the
  server found; no reply is thrown away; unread mail is found and news is heard; IDLE is
  only used where the server has it.
- Line reader: a read returns exactly one line, from inside its buffers.
- Parser: a response is understood as what it is; every line ends the parser, and in a
  defined way as long as it keeps the limits that the code does not test.
- TLS socket: each direction is a byte stream; an end or an error is reported only when
  there is one; whatever was acquired is released once.

## 2. The modules and the code

```
 Win32 --> Globals --> WindowProc ------+
                  \--> BackgroundThread +--> MNotify --> MCMNotify
                                        |         \--> MNotifyProofs
                             Watcher <..+
 ImapServer --> ImapClient --> MCImapClient          ImapClientProofs
 Tokenizer --> ResponseGrammar --> ResponseParser --> MCResponseParser
                                                     ResponseParserProofs
 LineReader --> MCLineReader   ..> LineQueue         LineReaderProofs
 TlsConnect --> MCTlsConnect                         TlsConnectProofs
 TlsRead --> MCTlsRead         ..> ByteStream        TlsReadProofs
 TlsWrite --> MCTlsWrite       ..> ByteStream        TlsWriteProofs
```

`-->` is EXTENDS; `..>` is a refinement: the abstract module is instantiated and its
specification is a property of the detailed one. A module of proofs EXTENDS the one it is
about; those on the right also EXTEND `DataLemmas`, the lemmas about numbers and
sequences that several of them need.

The layers rest on each other. `MNotify` takes a client call as one step with every
outcome; `ImapClient` shows what such a call does with lines; it reads lines as
`LineQueue` says, which `LineReader` implements on bytes; the classes of lines it tells
apart are what `ResponseParser` makes of them; and the bytes come as `ByteStream` says,
which `TlsRead` and `TlsWrite` implement on records.

**`Win32`** has `posted`, the queue of posted messages, and `timers`, indexed by
identifier. Both timer numbers are 1 in the code (`MNOTIFY_TIMER_RECOVER` line 41,
`RESTART_IMAP_IDLE_TIMER_ID` lines 55-57), so `TimerId` has one element and each
timer replaces the other. A full queue drops a message, as `PostMessage` does when
its result is ignored.

**`Globals`** has the shared variables and the program counters of both threads. A
connection is `unset`, `open`, `broken` (ended by the peer, nothing released),
`closed` or `reset` (released, by the thread or by the timer's callback). `broken` and
`open` are both results of a successful `tls_connect`, which returns 0 also when the
peer hangs up during the handshake (`tls.c:184`). `AfterFailure` says what a failed
client call leaves: `imap_command` disconnects when its write fails, a failed read
leaves the connection.

**`WindowProc`** has an action for each handler. Those that touch state which the
background thread also writes are cut where the code does it: the callback is
`CallbackKillTimer`, `CallbackSetReset`, `CallbackDestroyClient` (lines 373-375), and
`WM_MNOTIFY_EMAIL_MESSAGE` is `HandleCount`, which stores the count, and `ShowCount`,
which reads it again. Sent messages come before posted ones, posted ones before timers.

`EnterLoop` is the end of `WinMain`: the thread already runs when the count is set to
zero. `RecoverTimer` starts the next thread, and `ThreadCreated` says whether
`CreateThread` may fail, which the code does not look at. `NewThread` takes a fixed one of
the slots that are free: they differ only by name.

`HandleErrorFatal` is `WM_MNOTIFY_ERROR` when the log cannot be opened: the flag is set, the
icon not yet drawn, and `MessageBox` (line 117) does not return before the user dismisses it.
The sender's program counter becomes `unanswered`, and while one is, `FatalBox` holds. The
box's own message loop dispatches what `WinMain`'s does, so the other actions go on;
`DismissFatalBox` ends the process.

**`BackgroundThread`** has an action for each statement that has an effect the main
thread can see. A client call is one step with every outcome the client has.
`Check` and `Decrement` are the two halves of `if (EmailCount > 0) --EmailCount`;
`Decrement` itself may use the value read before or a fresh one, since the code does
not say which load the build makes.

**`MNotify`** composes the two and states the properties of the whole program.
`Thread` is a set of slots: a slot that is `dead` may be used by the next thread.

**`Watcher`** is what the program keeps of its promise to watch the mailbox: it watches,
or a retry is due. What else may happen has a step of its own. `Kill` is the `KillTimer` of
an idle timer that elapsed before the thread ended (`killing`), and takes the retry with
it; `Refuse` is a thread that is not created; after both the mailbox is `forgotten`. In
`halted` the fatal box is shown. `MNotify` implements it, with its fairness. The promise
itself, that an exited thread is started again, is `ExitedThreadRestarts`, and violated.

**`ImapServer`** is a mailbox with two queues of commands and lines. During IDLE it
tells its news at once. Otherwise it may put one line of news, or an untagged OK,
before a reply. `Faults` lists what may go wrong: the peer breaks the connection, a
write fails, a command is refused, a line is garbled.

**`ImapClient`** follows the sessions of a thread. `mode` is the part of the thread that
makes the calls: the probe, then `ImapPerformIdle` or `ImapPerformPolling`, as
`HasIdle` decides; `Following` and `FollowingError` are the order of the calls in each.
A call is `WriteCommand` or `WriteFails`, then reads that end it (`ReadAccepted`,
`ReadRejected`, `ReadFails`) or not (`ReadMore`). One `tls_read` returns any number of
the lines under way: the first is the result, the others go to `LocalBuffer`.
`ClearBuffer` stands for the flag that makes a call's first read empty that buffer.
`imap_read_capabilities` finds IDLE among the capabilities a greeting or a reply to the
login may name. `Reset` is the idle timer's callback: `armed` from just before the
first IDLE on, also while a later session is set up, until it elapses or the recovery
timer replaces it.

**`LineReader`** is `imap_read_line` on `Line` and `LocalBuffer`. Their bytes are places
of the server's text, so a byte of an earlier read is told from one of this one, and
`LineEnds` is what `StrStrA` finds, stale bytes included. `NewCall` is the first read of
a call, with both buffers zeroed; `NextRead` a further one. A copy that leaves a buffer
or a search that does not end is the state `undefined`.
**`LineQueue`** is what `ImapClient` assumes of it. A line is named by the place of its end
in the text.

**`Tokenizer`** gives the type and the end of the token at a place of a line, whose
characters are members of `Char`. Comments are those of the code: it passes over one
character more than the two that begin one (`tokenizer.c:239`, 250), so `/**/` does not end,
and `//` takes the CR behind it.
**`ResponseParser`** is `imap_parse_response` as a machine over the tokens of one line:
the recursion of `imap_parse_response_data` is the counter `lists`, and a return is
`ReturnToList`, `ReturnToCode` or `ReturnToData`. `InfoToken` is a turn of the loop that
copies the free text, `OutLength` its variable. What the code copies, stores or calls without
a test is a step to `undefined` when it does not fit: a tag (`LongTag`), a word
(`LongAtom`), a text (`InfoToken`), a datum (`Store`), a list too deep for the stack
(`DeepList`), what a literal leaves in `Content` (`LiteralEnd`), and a code without a name
(`ReturnToCode`). The sizes are constants.
**`ResponseGrammar`** is the reference it is compared with, and no code: `StandsFor` says
which response a line of tokens is, by counting words and parentheses, with nothing read
from left to right. `KeepsLimits` says of any line of tokens, well formed or not, that
what is copied fits, that lists are not too deep, and that there is no literal and no
code without a name. In the run the lines are written character by character for a response
(`MCResponseParser`), or are any short sequences of characters; `LinesAssumption`, that the
tokens of each line stand for its response, is checked on all of them.

**`TlsConnect`** is `tls_connect` with each resource it acquires (`held`), each error path's
`Release`, and the handshake loop with its buffer: `Step` takes the complete messages of
a flight out of `incoming`, what is behind them is `SECBUFFER_EXTRA`. **`TlsRead`** is
`tls_read`: `Block` and `Receive` fill the buffer, `Decrypt` opens the record at its
front, `TakeAll` and `TakeSome` copy and shift. **`TlsWrite`** is `tls_write`: a message is
cut into records, a record sent in pieces. A byte of the wire is a symbol that says
where in which record it stands, and `Decrypted` is the plaintext of the complete records
on it, in order. **`ByteStream`** is one direction of a socket: bytes in
order, none lost or repeated, none after an end.

### Abstractions

- `KillTimer` followed by `SetTimer` with the same identifier is one step (`Arm`), and
  so are the two `PostMessage` calls of an announcement.
- The popup menu is one step: its own message loop dispatches the same messages as the
  main loop, and only `ShowLog` clears what it depends on.
- Exit removes the icon, kills the timer and ends the process in one step.
- `tls_disconnect` on a released connection has no effect in the model; the code calls
  it twice on a reset and after a failed write.
- `SetTimer` and `KillTimer` act on the main thread's window from either thread, as the
  code relies on when the background thread calls them.
- A callback that is late and closes the next connection between its two steps is in
  `MNotify`; `Reset` in `ImapClient` is one step.
- The configuration is a constant. `LoadConfiguration` and `CreateNewFile` show the same box
  as a failing log and end the process; that is before the state the models start in.
- A line is a record of its class, its tag and its number of mails. What the parser
  makes of a line, including its failure, is one of these classes.
- In `ImapClient` lines arrive whole, and an attempt to connect that fails is a greeting
  that cannot be read. Which capabilities a server names, and where, is its choice.
- Schannel is external: `DecryptMessage` takes the record at the front of the buffer and
  reports what is behind it; `InitializeSecurityContext` takes the complete messages at
  the front, as far as the flight it waits for. The in-place decryption overwrites a
  record with its plaintext; the model keeps the symbols and computes the plaintext.
- The streams of `TlsConnect` are whole handshake messages one behind the other, each of
  which fits in the buffer (`Sequenced`). With these the test for a full buffer at
  `tls.c:173` never holds: that is `RoomLeft`, a part of `NeverStuck`, and it lets `Block`
  leave the failing branch out. A message longer than the buffer makes the call fail there.
- In `ResponseParser` names are spelled with few letters; a character stands for its
  class. Of `Info`, the free text of a line, there is the length: no caller reads it.
  What is stored behind a literal is an earlier datum or `Garbage`, any other
  content of the stack that fits. The depth of lists the stack has room for is a
  constant, `MaxLists`.
- Each of `LineReader`, `ResponseParser`, `TlsRead`, `TlsWrite`, `TlsConnect` is one
  connection or one line: nothing of them is shared by the threads but `LocalBuffer`,
  and `SingleWatcher` says that there is one thread to use it.

## 3. The runs

| Run | Result | What it shows |
|---|---|---|
| `mnotify` | holds | in every interleaving of both modes, whether or not `CreateThread` succeeds and the log opens: one background thread, guarded reads, a warning icon that tells of errors, a count an EXPUNGE raises only in the race with the main thread; reports are delivered unless the fatal box is shown, no read in the IDLE loop lasts, and the program implements `Watcher` |
| `mnotify_restart` | violated | the callback of an idle timer that has elapsed kills the recovery timer of a thread that ended: it is not started again |
| `mnotify_reset` | violated | a late callback closes the next connection, and the thread reports its own reset as a loss |
| `mnotify_release` | violated | the shared connection, and that of each polling iteration, is connected again although it was never released |
| `imap` | holds | replies go to their commands, no reply is lost and a call that reads is owed its answer (`RepliesKept`), a search is exact, IDLE goes only to servers that have it, and no call waits forever for a reply of a server in service |
| `imap_heard` | violated | an EXISTS that came in the same read as another line is thrown away |
| `imap_unread` | violated | mail that is unread when a session starts is not searched for |
| `line_reader` | holds | the first read of a call returns its line whatever the records; with records that end with lines every read does, and the reads are those of `LineQueue` |
| `response_parser` | holds | each response the grammar writes, within the sizes, is understood; each step brings the parser nearer to the end of its line (`MovesOn`), so every line ends it; and nothing undefined happens on a line that keeps the limits (`Defined`) |
| `tls_read` | holds | the reads are a `ByteStream`; they block only for more, and not before every record that has arrived whole is returned (`BlocksOnlyForMore`), end and fail only for a reason, and deliver everything |
| `tls_write` | holds | whole records in order on the wire; a call that returns 0 has sent everything |
| `tls_connect` | holds | every error path releases what was acquired; the buffer has room whenever more is read, and with whole messages the call never waits for a server that waits for it (`NeverStuck`), and completes; data behind the handshake stays for the first read |

A violated property states what a comment or `README.md` of the repository says; the
finding in `PROJECT.json` quotes the line. One of them deserves a word: `imap_unread`
assumes that the idle timer elapses, so that sessions do restart; the new session, like
the first, goes to IDLE without a search.

**What the properties had to leave open.** Some conditions in the properties that hold
are there because the code does something else without them. No run reports these, but
a reader who drops the condition sees it.

- `Watcher` has the state `forgotten`, for a retry that an idle timer kills, which
  `mnotify_restart` reports, and for one whose `CreateThread` fails.
- `ReportDelivered` and `WarningIcon` except the time the fatal box is shown: its user may
  let it stand for ever, with the reporting thread blocked and the icon without its triangle.
- `ExpungeRaisesOnlyByRace` does not say that the race on `EmailCount` (`mnotify.c:426`) does
  no harm: it says that without it there is none.
- `NeverStuck` and `HandshakeCompletes` hold for messages that come whole: on
  `SEC_E_INCOMPLETE_MESSAGE` the code drops the part it has (`tls.c:110-118`), as there is
  no `SECBUFFER_EXTRA`.
- `NothingLeaks` is about what is acquired. When the first `InitializeSecurityContext`
  fails the error path also deletes a security context that was never made
  (`tls.c:197`), whose value is whatever was in memory.
- A handshake that the server hangs up on returns 0 like one that is complete
  (`tls.c:184`): the state `hungUp`, and `broken` in `Globals`.
- `InBounds` has two parts. `FirstReadInBounds` is about texts of which every line fits in
  the buffer together with a record (`LinesFit`): a read is offered the size of the whole
  buffer although part of it is filled (`imap_client.c:102`), and writes past it on a longer
  line. `WholeLinesInBounds`, like `ImplementsLineQueue`, is about records that end with
  lines: otherwise a further read of the same call may take the end of a line from stale
  bytes.
- `FirstReadExact` is about calls that start where a line does. When a record ends in the
  middle of a line, `LocalBuffer` has its beginning, and the next call throws it away.
- `Defined` is about lines that keep limits the code nowhere tests: a tag of 127
  characters (`imap_parser.c:329`), words of 255 (106, 130), a text of 255 (261), 128 data
  (136), a depth of lists the stack has room for (111), no literal (85) and a name in each code
  (229-242). It says that nothing else goes wrong, and that none of these does in a line
  that seems to keep them.
- `Understood` is about lines within the same sizes, and about the flags and atoms of the
  grammar, without the flag `\*`: the tokenizer makes it two tokens and the line is refused. Numbers with a fraction
  (`tokenizer.c:307`) stay outside the grammar as well.
- `imap_search` reports success and no mails when its command cannot be written, and
  fails on any data line in front of the reply; `SearchExact` is about open connections.

### Bounds and why they are enough

- Threads: `SingleWatcher` needs two slots to be violated and has them. A new thread takes a
  fixed free slot, so the run needs no symmetry. The violated runs on the restart and the
  reset have one slot, which each new thread reuses.
- `MaxMails = 1` and `CountModulus = 3` give the counts 0, 1 and the wrapped value 2:
  equal, lower, higher and wrapped counts all occur.
- `QueueLimit = 2` holds one announcement; behind one message that is not yet retrieved a
  `CLEAR` is queued whose `MESSAGE` is dropped.
- `Imap`: `MaxCommand = 6` is login, examine and two rounds of idle and search, so a
  stale reply of one round can meet the next; any number of sessions follow each other.
  One mail distinguishes a search that found something from one that did not or was
  missed. `MaxInFlight` bounds only unsolicited lines, so replies always fit. The two
  violated runs use one round. A session that has used up `MaxCommand` can only wait to
  be reset or broken, as a long one does.
- `LineReader`: three lines of up to five bytes in records of up to seven, so that
  a record holds a line and a half, and a line comes in several records. The buffer has
  room for the longest line and a record together, as 32768 bytes have for any line
  of up to half of that; a record has at most 16384 bytes of plaintext.
- `ResponseParser`: a data line has up to two items behind its name, each an atom, a
  string or a list in a list. The sizes are small, so that each is reached and exceeded: a
  tag has up to two characters, a text four, a word five, there are three data and lists
  to a depth of two (`LongLines` have one more of each). Arbitrary lines have
  three characters of every class at each place where the parser can be: at the
  start, in data, in a code.
- `TlsRead`: three records of every kind, the longest as long as the buffer (4), and
  reads shorter and longer than a record. `TlsWrite`: two messages of up to
  three records. `TlsConnect`: two flights of up to two messages, a buffer in which the
  longest message just fits, and no fault or all of them.

### Fairness

- The main loop keeps dispatching what it has, and an armed timer elapses
  (`WF(MainStep)`): this is what `GetMessage` and the system's timers do. The user's
  choices, the dismissal of the fatal box among them, and the failing log are not fair.
- A background thread takes its next step, unless that step is a network call that only
  the server can end (`Waiting`). So the model never assumes that a server answers:
  a silent one may block the probe, the setup or the poll forever, as in the code, and
  inside the IDLE loop it is the timer that ends the read.
- In `ImapClient` the client runs, and the server of an open connection answers and
  tells its news: `CommandAnswered` is about the client's matching of replies, for a
  server in service. `TimedSpec` adds that the idle timer elapses.
- `TlsRead`: a caller reads on (`WF(Call)`) and what was sent arrives; a stream may end
  without a close, and then a read blocks. `TlsConnect`: the handshake proceeds as long as
  there is something to do or to receive. `ResponseParser`: the parser runs; it waits for
  nothing. `LineReader` and `TlsWrite` have only safety properties.

## 4. The proofs

`MNotifyProofs` proves, for any set of threads, any `MaxMails` below any
`CountModulus`, any queue limit and any `IdleSupport` and `ThreadCreated` (the assumptions of
`Win32` and `Globals`, nothing else):

| Theorem | Statement |
|---|---|
| `TypeCorrect` | `Spec => []TypeOK` |
| `OneWatcher` | `Spec => []SingleWatcher` |
| `ReadsGuarded` | `Spec => []ListenGuarded` |
| `WarningShown` | `Spec => []WarningIcon` |
| `ExpungeLowers` | `Spec => ExpungeRaisesOnlyByRace` |
| `WatcherRefined` | `Spec => W!Spec`, with `W` the instance of `Watcher` |

**`TypeCorrect`.** One lemma per thread, one step per action. Its only arithmetic is
`DecType`: the decrement of 0 wraps and stays an unsigned int.

**`OneWatcher`.** `SingleWatcher` is not inductive: nothing in it prevents a recovery
timer from elapsing beside a live thread. `WatcherInv` adds `WindowTimerMeansDead`: a
recovery timer exists only while no thread lives. Then `RecoverTimer` starts the
only thread, and `Exit`, which sets the timer, was taken by the only live one. That the
two timers share an identifier does no harm here: `Arm` can only replace a recovery
timer that `WindowTimerMeansDead` says is not there.

**`ReadsGuarded`** needs `WatcherInv`. `Exit` replaces the idle timer by the
recovery timer, which would leave another thread's read unguarded; there is no other.
A connection that becomes `open` does so in `connect`, outside the inner loop, and
again no other thread is inside. `InnerLoopStep` collects what one step of
a thread can do to the loop and the connection.

**`WarningShown`** is inductive: each handler that draws the icon gives it
`GlobalHasErrors`, and each that changes the flag redraws the icon, but for the one that
ends in the fatal box. The box is there until the process ends.

**`ExpungeLowers`** needs `LoadedAboveZero`: a thread at the decrement has read a count
above zero. If the count is still the one it read, it does not wrap.

**`WatcherRefined`** is the refinement without its fairness: `WatchState` maps a state to
one of `Watcher`, `killing` is the callback in front of its `KillTimer`, and each step maps to
a step or a stutter. `WatcherInv` does the work. When a thread ends no other one lives, and
its `SetTimer` is the same step, so `watching` becomes `retrying` and nothing else. An idle
timer elapses only while a thread lives (`CallbackTimerMeansLive`), so it is always one from
before the retry that kills it. A recovery timer elapses only in `retrying`, and since
only a thread sets it, what is `forgotten` stays so.

The other modules of proofs have these theorems. Each invariant follows from the `IInv` of
its module, which names the strengthenings that it needs.

| Module | `Spec => []...` | Refinement |
|---|---|---|
| `ImapClientProofs` | `TypeOK`, `InSync`, `SearchExact`, `RepliesKept`, `IdlesOnlyIfSupported` | |
| `TlsReadProofs` | `TypeOK`, `PointersInRecord`, `BlocksOnlyForMore`, `EndIsReal`, `FailureIsReal` | `ByteStream` |
| `TlsWriteProofs` | `TypeOK`, `WireFramed`, `ZeroMeansAllSent` | `ByteStream` |
| `TlsConnectProofs` | `TypeOK`, `NothingLeaks`, `LeftoverKept`, `NeverStuck` and its part `RoomLeft` | |
| `LineReaderProofs` | `TypeOK`, `FirstReadExact`, `InBounds` | `LineQueue` |
| `ResponseParserProofs` | `TypeOK`, `Defined`, `Understood`; and `Spec => MovesOn` with its bound | |

Four of these are the safety halves of liveness properties that only TLC checks: `RepliesKept` of
`CommandAnswered`, `BlocksOnlyForMore` of `AllDelivered`, `NeverStuck` of `HandshakeCompletes`
and `MovesOn` of `Stops`. They leave to fairness only that what can be done is done.

**`ImapClientProofs`.** `InSync` and its companions are about one moment of a call each and
none is inductive. `SyncInv` says where the exchange of a command and its reply is: nothing
under way (`Quiet`), the command sent and every line silent (`Asked`), or the reply in one
of the two queues with only silent lines behind it (`Answered`). The two queues are seen as
one, `Pending`: a read moves lines from one to the other and takes the first. IDLE is the
exception the protocol makes: its tagged reply comes when DONE is answered, so `Idling` lets
one command be open while another is asked. With this a call that ends has taken the line
that ends its exchange, what is left is silent, and the next call may empty its buffer. A
call that reads is in `Asked` or `Answered`, so its reply is still to come (`RepliesKept`).
`CapabilityInv` carries through the queues that no line names IDLE and no command asks for
it where the server does not have it. The assumption is that of the bounds.

**`TlsReadProofs`.** `Window` says that the buffer is the part of the stream in front of
`arrived`, and starts where a record does: with it what `Decrypt` opens is a record of the
server's, whatever piece of the next lies behind it. `PointerInv` relates the three values
that say where the plaintext is, `ToldInv` has the reason of an end or an error, and
`DeliveredInv` counts: what the calls have returned and copied is the plaintext of the stream
up to a place that `front` and `decrypted` determine. When a call waits nothing is copied and
that place is `front`; a record that had arrived whole behind it would be `Complete`, so all
such records are in front of it, which is `BlocksOnlyForMore`. A step then either copies what
comes next or leaves that prefix as it is, and that is a step of `ByteStream` or a stutter.
The streams are those of a server (`Framed`): records of a legal size behind each other.

**`TlsWriteProofs`.** `OpenInv` says that until a call fails the wire has whole records, all
bytes up to those of the record at hand in order, and the first part of that record.
`Decrypted` picks symbols by counting those in front of them; the lemmas under "Counting"
show that a list of a set in ascending order is the only one (`Enumeration`), so what is
decrypted is the list of the bytes sent.

**`TlsConnectProofs`.** `HeldInv` has what is acquired at each place of the call; each error
path then has only to release that. `ProgressInv` follows the handshake: all that has left
the buffer was taken and a message of the expected flight comes next (`Intact`), or the
first part of a message was dropped and the rest can never be taken (`Broken`). What is
behind the last message of a flight is not touched, which gives `LeftoverKept`; and as every
message fits in the buffer (`Sequenced`), a full buffer would hold a complete one, which
gives `RoomLeft`, the first part of `NeverStuck`. `ServedInv` is the case of whole messages
and no faults (`Undisturbed`): the handshake is then always `Intact`, each receive brings
whole messages, and the one that comes next is either in the buffer or under way, its flight
having been asked for by the token sent before. This is the other part of `NeverStuck`.

**`LineReaderProofs`.** `FreshInv` says that the first read of a call has in its buffer the
text from its origin, zeros behind it and no end of a line before it returns.
`WholeInv` says that with records that end with lines `LocalBuffer` has whole lines, the
last that arrived, in front of any stale bytes; so the search finds an end of line before it
gets to those. For the refinement, the lines of a piece of the text are those of its parts one
after the other (`OnlyConcat`): a record is its first line, which is returned, those kept,
and the rest of the text is still to come. The assumptions are the sizes of the
buffers and that the server sends no LF without CR.

**`ResponseParserProofs`** is about lines of any text. It shows that the tokenizer's
recursive functions have a value everywhere and that each token ends behind its start; then
that the parser stays within two tokens of the end (`AtInv`), which is what
keeps `Peek` defined. The assumptions are that NUL is no character of a line, as in a
string of C, that no status begins another, and that the sizes are not zero.

`Defined` is not inductive. `LimitInv` says for a line that keeps the limits what they come to at
the place of the parser (`InItems`): the lists open are the `Depth` of that place, the
data stored at most one more than the spaces passed over, a code has no data only at
its first token, and the text copied together with the one left (`TextLength`) fits. The
counts of tokens are those of `ResponseGrammar`, and the lemmas under "Counting" say how
they rise from one token to the next.

`Understood` is proved for lines of any length, within any sizes. A response of
the grammar is a set of facts about counts of tokens, the parser a walk over them, and
`MeaningInv` joins the two: at every place `Follows` says that the parser is where such a
response allows (`InPlace`), that its open lists are the `Depth` of that place, and that the
data stored so far are the words counted up to it (`Partial`). For a code the name is first
among the data and is taken out at the end, so its line is followed with one word more
(`AllWords`). `LinesAssumption` relates a line to its responses on the level of tokens. That
the characters of a well-formed line give those tokens is checked by TLC on the lines of the
run, not proved.

`StepsBounded` gives the parser a variant: `StepsLeft` is a natural number, starts at
4n + 12 for a line of n tokens, and each step lowers it.

**Induction over data.** The library's induction theorems take an operator, which the
provers cannot instantiate. `DataLemmas` goes round this: a set of numbers has a least one
(`LeastNumber`, from the well-foundedness of `<`), so a statement about all numbers holds
when there is no least exception; and `RecursiveFunction` shows in that way that a
function defined from later places of an interval exists.

**Only model-checked.**

- The liveness properties (`ReportDelivered`, `NoReadHangs`,
  `CommandAnswered`, `AllDelivered`, `HandshakeCompletes`, `Stops`) and the fairness of
  `Watcher`: fairness and `ENABLED` are beyond the prover.
- That a line written for a response has the tokens `ResponseGrammar` asks for
  (`LinesAssumption`): TLC evaluates it on the lines of `MCResponseParser`.
- The violated properties.

## 5. What is not modelled, and the plan

1. The announcement as two steps (two `PostMessage` calls), and the popup menu's own
   message loop; then the proofs about `MNotify` again.
2. The step from the characters of a well-formed line to its tokens, as a lemma.
3. The proofs about `TlsRead` and `TlsWrite` share the arithmetic of records; what is common
   belongs in `DataLemmas`.

**Toasts.** Of `WindowsToast.h` the model has what `WM_MNOTIFY_EMAIL_MESSAGE` does with it:
a notification is created and shown, the one before released. The rest of the header is
calls of the Windows runtime one after the other, a failure of any of which ends the
process, and tables of functions the runtime calls back, in an order the source does not
say. A model of it would be one of the runtime.

Left out for good: the contents of the log, the configuration file, which is read once
before any thread runs, the check for a running instance, icons and menus as pictures,
`imap_fetch`, which is compiled out, and the cryptography behind `tls.c`, which is the
system's.
