# Verification of rpi_tcp_listener

This directory holds TLA+ models of the MP3 server in `src/`: a Raspberry Pi
program that takes one text command per TCP connection and plays sounds.  The
models are checked with TLC on small instances (`runs` in `PROJECT.json`); the
theorems are proved with TLAPS for every value of the constants.  A `Mutant:`
comment marks a deliberately broken variant of the definition after it, used to
see that a property notices the bug.

## The system

| Component | Code | State it keeps | Operations | Modelled in |
|---|---|---|---|---|
| MP3 player | `src/src/mp3` | state object (Stop, Play, Pause), mpg123 handle, volume, play thread, auto-stop thread, three mutexes and a condition variable | Play, Pause, Resume, Stop, SetVolume, GetState, destructor; DoPlay and DoStop threads | `Mp3Player`, `PlayerCalls`, `AtomicPlayer`, `Mp3PlayerRefinement` |
| Message parser | `communication/msg_parser` | nodes of the last message, its command | ParseMsg, GetMsgCommand, GetMsgStrAt | `MsgParser` |
| Communication | `communication/communication` | the command, the player, a copy of the configuration | handleCommand and eight handlers | `Communication` |
| TCP server and client | `tcp_connection` | listening socket, client socket, the buffer of `main` | Server: Connect, Accept, Receive, Send, Disconnect; Client: Connect, Send, Receive, Disconnect | `TcpConnection`, and the server's side in `Listener` |
| Configuration manager | `config_manager` | sounds, autoplay, network settings | ParseConfigFile, GetConfigFromFile | `Listener`, `Communication` |
| main, signals, restart script | `app_rpi_tcp_listener`, `additional_files` | stop and reboot flags | start, autoplay, server loop, exit, reboot, restart | `Listener` |
| Logger | `utilities/logger` | `log.txt`, the stored logs, line and file count | constructor, Log with its rotation, destructor | `Logger` |
| Message queue | `utilities/message_queue.h` | a queue, its mutex and condition variable | enqueue, push, dequeue, pop, empty, wait | `MessageQueue` |
| Zip | `utilities/zip` | none | ZipCompress, ZipUncompress | `Zip` |
| Time | `utilities/time` | the system clock | GetTime, SetTime | the answer in `Communication`, the clock in `Logger` |

How they interact.  The restart script starts the program.  `main` reads the
configuration file, decodes the sounds into RAM, opens the server, plays the
autoplay sound through the same `handleCommand` that serves clients, and then
loops: accept, one `read`, parse, handle, one `write`, close.  Handlers call the
player, whose two threads run beside the main thread.  `TCP_SET_CFG` rewrites
the configuration file, which is read at the next start only.  `TCP_RESET` and
the signals set flags that the loop reads between two clients.

Where it is hard: the three threads of the player with a join under a mutex and
a condition variable; the play thread closing and reopening the decoder without
the mutex; a playback that ends between two calls; the parser's hand-written
loop with a length-delimited part; a file rewritten in two steps; a process that
can die at several places and is started again; a log directory that has to stay
bounded whatever fails or is killed in the middle of a rotation; clients that
share one server thread, with messages in segments and resets.  `hazards` in
`PROJECT.json` lists each with its line and the property that watches it, or a
note why none does.

## Modules

**`Mp3Player`** has one action per method of a state class, or two where the
method waits in `join` (`StopPlayThread`, then `PlayStatePlay`,
`PlayStatePause` or `PlayStateStop`), one per step of `DoPlay` and `DoStop` that
another thread can observe, and the destructor in four steps.  A method that
runs under `state_mutex_m` and touches nothing that a running thread touches is
one step.  `handle` is the mpg123 handle as it is between `mpg123_delete` and
`mh_m = nullptr` (`dangling`) too.  Using it then is undefined: the model lets
the write go nowhere, or the process die (`crashed`).  `playPc = "lost"` is a
play thread that could not reopen its file.  A file name stands for a file
that exists, opens and decodes; `files` changes at any time.  `SetVolume` loads
`mh_m` (`LoadHandle`) and calls `mpg123_volume` with what it loaded
(`UseHandle`) in two steps, and the handle it holds may be freed between them
(`loaded`).  Thread ids are handed out in any way, since the standard allows the
id of a joined thread to be given again; `reused` records that the playing
thread got the id that still waits in `thread_id_to_stop_m`.

**`PlayerCalls`** says what each call does alone, as operators from a player and
a call to a player and an answer. **`AtomicPlayer`** makes a specification of
it: calls answered in one step, and a playback that may end.
**`Mp3PlayerRefinement`** maps the threaded player to it: every call takes
effect in the step that returns, except `SetVolume` on a playing player, which
takes effect when `volume_m` is written.  `Communication` uses the same
operators, so that what the listener relies on is what the player was shown to
do.

**`MsgParser`** translates the loop of `ParseMsg` round by round as a recursive
function on sequences of symbols: `"NL"`, `"CR"` or a word.  Sizes count
symbols, and so does `BufferSize`.  A size that is too large makes the code read
on after the message: zeros, which end no node, as far as the buffer goes, and
then whatever is behind it.  A negative size wraps around in `size_t`.  One that
reaches back into the message passes the check, and the copy leaves the memory
(`overrun`, which ends the process).  One that reaches back before it leaves the
position outside the buffer; there the code reads one symbol (`stray`: a line
end or another, every one of `Strays` being tried), and the process may die of
it (`astray`).  And one size, `-(offset + 1)`, leaves the position at
`SIZE_MAX`, from which the `++` of the loop starts the message again, until
there are too many nodes and the command of the message before stays.  So a
message is read twice at most: `Parse` runs `2 * Len(m)` rounds.  The
reference, `Meant` for the command and `GivesUp` for the messages refused with
`TOO_MANY_NODES`, describes messages by their lines and knows nothing of the
loop.

**`Communication`** has one action per handler.  `TellState` is the second step
of the handlers that print the player's state, because a playback may end in
between; `WriteCfg` is the second step of `TCP_SET_CFG`, after `fopen` has
emptied the file.  Nobody looks at what its `fwrite` and `fclose` return: it may
leave any beginning of the text.  Replies are records.

**`Listener`** adds `main` (`phase` is the place in it), the server, the start
from the configuration file, the restart script and the surroundings: clients
that connect, leave or reset, signals, one kill, files in RAM that disappear.  A
kill may be a loss of power, after which the machine boots with empty RAM.
`config` keeps the sounds and the autoplay number; the network settings only go
to the kernel.  The message and its nodes are forgotten once it is answered; the
program keeps them until the next read clears them.  The end of `main` is three
steps, in the order of the code: the server disconnects, the player is stopped
and its threads joined when `communication` goes out of scope, and the machine
is rebooted if asked.  `PlayerHangs` is the circular wait of the player as
`main` sees it: a call, or the destructor, that never returns (`died = "hung"`).
The script does not help then, because the process is still there.

**`TcpConnection`** looks at the sockets from both ends: `Server` in the loop
that `main` runs, any number of `Client`s, and the kernel between them, which
queues connections (`backlog`), cuts a message into segments (`arrived`), and
resets what is closed with unread bytes.  A message is known by its client and
its size.  `buffer` is the buffer of `main` with what the next `strlen` would
take for the message: `more` says that other bytes follow before a zero.
`Listener` has the same server with one anonymous client and full messages that
arrive whole or not; here the subject is who gets which reply.

**`Logger`** has the log directory as a function from names to the lines in each
file, and one action per system call that can fail or be the last one before a
kill: list the directory, remove one file, open `log.txt`, rename it, write a
line.  A line that cannot be written, which `Log` does not notice, is counted
all the same.  A stored log is named by the second and `file_count_m`; `clock`
moves either way, because `TCP_SET_TIME` sets it.  `faults` bounds the failures
and kills of a run, nothing else.  `dropped`, `unwritten`, `orderly`, `complete`
and `missed` are history the properties speak of: `missed` counts the `log.txt`
opened since a rotation last listed the directory and removed what it wanted to.

**`MessageQueue`** has one action per method, which is atomic under its mutex;
`dequeue` may wait on the condition variable (`waiting`, then `woken`), and a
`wait` with a timeout is one action per round of its loop, with other threads
between the rounds.

**`Zip`** is the block loop of the encoding, one action per block, run once to
compress and once to uncompress.  **`MCConversions`** sweeps it and the parser
over all small inputs in one run.

The modules named `*_proofs` hold the theorems about the module before the `_`;
`MCConversions_proofs` holds those about `Zip` too.

## Runs

| Run | Instance | Question |
|---|---|---|
| `player_safety` | 2 clients, 1 file, 2 thread ids, loops of 2 plays, volumes 50, 100, 101 | types, thread and handle lifetime, volume, answers, and the refinement of `AtomicPlayer` |
| `player_live` | 1 client, 2 thread ids, volume 50 | calls return, a finished playback is cleared, and no other is taken unless its thread has the id of the finished one |
| `player_id_reuse`, `player_circular_wait`, `player_lost_file` | 1 client | three disagreements, below |
| `conversions` | all messages of at most 7 symbols out of 7, in a buffer of 9; all files of at most 9 bytes out of 2, in blocks of 4 | the parser agrees with the protocol wherever a size sends it, and no command is cut short; a sound that is encoded and decoded is what it was |
| `listener` | 18 messages, 2 configurations, 1 waiting client, 1 kill, full disks, a player that hangs | the properties of the whole program |
| `listener_refused_message`, `listener_get_cfg` | the same without the kill | two disagreements, below |
| `tcp_connection` | 2 clients, a queue of 1, messages of at most 3 bytes, a buffer of 2 | a client gets the reply to its own bytes, no connection is forgotten, and everybody is answered or told, unless a silent client is being waited for |
| `logger` | 3 files of 2 lines, 5 lines, 4 seconds, 2 failed calls, unwritten lines or kills | the directory stays bounded, the count is right, the oldest lines go first, nothing else goes |
| `message_queue` | 3 threads, 3 messages, timeouts of at most 2 rounds or none | no lost wake-up, first in first out, waiters are served, a wait returns |

Why the bounds are enough.  Two clients are the least that contend for
`state_mutex_m` while a third party, the auto-stop thread, holds `cv_mutex_m`.
Two thread ids let an id be given again or not.  A loop of two plays goes once
through closing and reopening; further rounds repeat it.  Client symmetry and id
symmetry are used in the safety run only.  Seven symbols hold a complete
`TCP_SET_CFG` with one symbol of text, a `TCP_SET_VOLUME`, and a message with
too many lines; of the two negative sizes one sends the loop back to the start
after a short second line, the other goes one symbol further, out of the buffer.
The listener's configurations are one that plays at the start and one whose
number is out of range, with one of the two sounds not decodable.  The messages
hold every command, numbers at and past the limits, a size past the message, one
that makes the copy leave the memory and one that starts the loop again, a
message cut short, and one with too many lines.  One waiting client is enough
because the loop takes one at a time; one kill puts a crash at every step.

In `tcp_connection` two clients are one that is served and one that waits; a
message of 3 bytes does not fit the buffer, one of 2 fills it and leaves no
zero, one of 1 leaves room for what was there before.  Nine bytes in blocks of 4
are two full blocks and an odd byte in a third.  Three files and five lines of
two to a file make the logger rotate twice, with a removal; two faults let a
failed call be followed by another, or by a kill.  Three threads are the least
for a message whose waker, woken thread and thief are three.

Fairness.  `Mp3Player!Fairness`: every thread takes its next step (weak); a
thread that wants a mutex gets it if it is free again and again, and a file has
an end (strong).  Nobody is obliged to call and no spurious wake-up is owed.
`Listener!Fairness`: the single thread of `main` takes its next step, the script
keeps looking, and an accepted client sends or closes.  The last is an
assumption about clients: nothing in the code ends a `read` of a silent one.
`TcpConnection!Fairness` does not make it: the server's loop goes on, a segment
that was sent arrives, and a reply is read; `Answered` names the silent client
as the only excuse.  `MessageQueue!Fairness`: a woken thread gets the mutex, and
the sleep of `wait` ends.  `Logger` and `Zip` state no liveness.

## What the checks show

They hold: the play thread exists exactly in the Play state and always has a
handle; a stopped player holds no stream; a `SetVolume` can use a freed handle
only in a looped playback that has been played once; outside a loop the volume
in effect is the last one set; `Play` answers what happened; all calls look
atomic, with a playback that may stop at any moment.  That it had ended is for
`AutoStopsFinishedOrReused` to say: the auto-stop thread takes finished
playbacks, or one whose thread was given the id of a finished one, and no other.
Calls return unless the circular wait closes.

The parser takes exactly the right messages when its loop runs to the end, and
what it cuts short, or reads outside its buffer for, is no command.  The program
runs the command that was sent, or none, except for the messages the parser
gives up on: for these it runs the command of the message before, which rewrites
the configuration file if that was a `TCP_SET_CFG`.  Otherwise the file changes
only while a `TCP_SET_CFG` is served, and then to a beginning of the text sent:
`OK` says that it was opened, and nothing of a full disk.  After any start with
a configuration that parses the program gets to wait for clients on a listening
socket, unless it is stopped or `Connect` failed, which nobody notices.  It
leaks no client socket, never throws from autoplay, ends when told to (with the
help of at most one client) unless it hangs in the player, and reboots when
asked unless it dies first.  A client is answered with the reply to the bytes
that were read of its own message, and bytes beyond it are taken in only if it
fills the buffer.

The log directory holds at most `max_log_files` files, and one more for each
rotation in a row that could not list the directory or remove a file; the next
one that can makes up for all of them, and kills, failed renames and failed
opens add none.  `log.txt` holds the last `line_count_m` lines but those that
could not be written.  A line is gone before an older one only when the clock
was set back, a removal failed, it could not be written, or it was in a
`log.txt` that a kill or a failed rename left.  The queue loses no wake-up and
keeps its order.  The encoding of the sounds undoes itself for odd and even
sizes.

They do not, and `findings` has the lines: an id that is handed out again lets
the auto-stop thread stop a new playback; a circular wait between client, play
thread and auto-stop thread; a looped sound whose file is gone leaves the player
in Play for ever; a message refused for its number of nodes runs the previous
command;
`TCP_GET_CFG` always returns nothing.

Two more disagreements were met while reading and have no run of their own.
`Play` on a paused player stops it and answers that the file is missing, whether
it is or not (`PauseStatePlay`, `player_pause_state.cpp:23-34`), although the
log line in it says that the new file is played: `PlayReplyTellsState` holds
because answer and state agree.  A field that is missing in the configuration
file overwrites its default with an empty text (`config_manager.cpp:69-71`),
although `config_manager.h:15` says that default values will be taken; these
fields are not modelled.

A consequence for the listener: the player answers every call, as `player_live`
shows, but for the circular wait; a call caught in it blocks `main` as well, and
that is what `PlayerHangs` stands for.

## What is proved

Every theorem is stated for all values of the constants, from the assumptions
the modules name.  Where an invariant is not inductive the proof strengthens it;
each proof has one step per action.

`Mp3Player_proofs`: the safety properties of the player for any clients, files,
volumes, thread ids and number of plays (two different thread ids, `None` and
the auto-stop thread are nobody else, at least one play).  `IInv` adds: who
holds `state_mutex_m` (exactly the caller that is in a join or applies a volume,
or the auto-stop thread in its join), so that no two steps of a call interleave
with another call's; what the handle is at each step of the play thread; that a
joined thread leaves nothing running; what the auto-stop thread holds at each of
its steps; what a caller at each step may be calling; and when the handle a
`SetVolume` has loaded is still the player's (`CrashBounded`).  `AutoStopSafe`
holds for ids handed out in any way: a playback the auto-stop thread stops has
finished, or its thread was given the id of the finished one.  The run
`player_id_reuse` shows the second case.

`Mp3PlayerRefinement_proofs`: `Mp3Player` implements `AtomicPlayer`.  The
mapping needs two more invariants than `IInv`: a thread outside a call has none,
and a stopped player has forgotten its file and mode.  Each step that returns is
an `Invoke`, a `Respond`, a `Finish` or a change of the files; all the others
stutter.  The answers are compared case by case with those of `PlayerCalls`.

`MsgParser_proofs`: what `Parse`, `Verified` and `Meant` make of a message of
any length over any alphabet with a line end.  An invariant of the rounds
(`LoopInv`) says how the node, the position and the line ends passed go
together, and is shown for every round by a least counterexample: the library's
induction theorems take an operator as a parameter, which the provers cannot
instantiate, but the order of the numbers is well-founded and `WFMin` gives the
first round that fails (`LeastElement`, `InductionUpTo`).  The position is any
integer, since a size may lead it anywhere; a second reading begins with three
nodes, so that its first two lines make too many; nothing is assumed of what is
read outside the buffer.  `ParsedLines` reads the invariant at the last round:
the loop has ended, and each node is the text of its line, with the one
exception of the text of a `TCP_SET_CFG`, which is as long as its second line
says.  `ParsesWhatIsMeantForAll` compares that with the protocol for messages
that fit in the buffer, `TooManyIsGivenUp` shows that `TOO_MANY_NODES` is
returned for exactly the messages `GivesUp` describes, and `ConfigRead` says
which text the handler of `TCP_SET_CFG` gets.

`Listener_proofs`, in two layers, for any messages that are sequences of words
and any configurations.  `NoSocketLeaked`, `RebootIsLast` and
`ReplyShowsOutcome` assume nothing of `Parse`.  Their invariant, `IInv`, says at
which places of `main` a socket is open and a handler runs, that the player is
never paused, and what the handler that is about to print the state has done.
The second layer, `JInv`, rests on the theorems about the parser: `TypeOK`,
`OkMeansWritten`, `OnlyCommandsThrow` and the action properties
`RunsTheCommandSent` and `ConfigFileOnlyBySetCfg`.  It says that the nodes are
those of the message being served (`Origin`) and the command is the one verified
from them (`Current`), what the configuration and the autoplay command may be
(`Configuration`, `AsConfigured`), which handler is in its second step
(`Writing`), and what the file holds from the answer of `TCP_SET_CFG` to its
sending (`Kept`).  `Frames` says once which action touches which variable.

`TcpConnection_proofs`: types, `OpenIsHeld` and `ReplyIsOwn` for any clients,
buffer, queue and message sizes.  The invariant relates the queue, the client
being served and the state of each connection, and follows a reply from the
buffer over the wire to the client.

`Logger_proofs`: all of `Logger`'s properties, for any limits, clock, lines and
faults.  `Room` is the bound in the middle of a rotation: what is still to be
removed makes place for the next `log.txt`, as long as nothing has failed in
this rotation; if something has, `missed` counts the file it adds.
`OldestGoFirst` and `RemovesOnlyExcess` follow from `Rotation`: `log.txt` holds
the newest lines (`NewestInLogTxt`), the stored logs are in the order of their
names as long as the clock is (`NamesInOrder`), a `log.txt` that is not open is
given up (`LeftIsDropped`, which matters because it is the first name in the
set), and what is listed for removal stays first by name and in excess while it
is removed (`FirstNames`, `InExcess`).

`MessageQueue_proofs`: types, `NoLostWakeup` and `Fifo` for any finite set of
threads.

`MCConversions_proofs`: `PairsReversed` and `RoundTrip` for any even block
size, by an invariant on what has been written after each block, and
`ParsesWhatIsMeant` and `NothingValidIsCutShort` for any symbols and any length
up to the size of the buffer, from the theorems about the parser.

Assumed of the constants beyond what a theorem needs to make sense: a line end
is no number, a number is an integer and the size of the buffer a natural number
(`NumberAssumption`); messages are sequences of words that fit in the buffer,
and a configuration file holds a list of sounds and an autoplay text
(`ListenerAssumption`).

Left to TLC: liveness, because fairness and `ENABLED` are beyond the prover
(`Answered`, `ServesAgain`, `StopIsSeen`, `RebootHappens`, and those of the
player and of the queue); and the disagreements, which are violated.

## Not modelled

Decoding and audio output (libmpg123, libao), XML (pugixml) and the tests
(googletest), which are other people's code under `src/src/ext`; the kernel's
network settings (`ChangeIp`, `SetRoute`); the text of replies, log lines and
times, and with it the conversions of `GetTime` and `SetTime`, the memory that
`Log` clears with a wrong size (`logger.cpp:255`), and the state name that lacks
a comma (`mp3_player_interface.h:53`); failures of the file system in `zip.cpp`;
functions that change nothing or that nobody calls (`size` and `poke` of the
queue, `SaveConfigToFile`, `Clear`).  In the program only `Communication` calls
the player, and never `Pause` or `Resume`; the model of the player lets any
number of threads call all of it, as its mutex allows.  Nothing in the program
uses the message queue or `Client`: they are modelled as the tests use them.

## What could follow

- A composition of `Listener` and `Mp3Player`, in place of the argument that
  the one relies on `PlayerCalls` and the other implements it: the product of
  the two is beyond TLC at the present bounds.
- A refinement of an abstract log (a sequence of lines that loses a prefix) by
  `Logger`, where the names are in order.
