# AndroidExample in TLA+

AndroidExample is an Android study project with two bodies of logic of its own.
One is the native live player of the module `libraLive`: a demuxer, two decoders, a
video renderer and an audio output, each on a thread of its own, tied together by
blocking queues and stopped and freed by an activity's life cycle. The other is the
module `okhttp3-java`, a copy of OkHttp the author keeps, builds and annotates as
part of the project; its concurrent and its persistent state are in the dispatcher,
the connection pool, the HTTP/2 connection and the disk cache. The rest is screens, network configuration
and third-party code. This directory models both, model-checks them with TLC and
proves most of the safety properties with TLAPS, for every value of the constants.

Paths of the player are relative to `src/libraLive/src/main/`, paths of OkHttp to
`src/okhttp3-java/src/main/java/okhttp3/`.

## 1. Inventory

| Part | State | Operations | Works with | What makes it correct |
|---|---|---|---|---|
| `message_queue` (`cpp/common/message_queue.h`) | mutex, condition, `queue`, `state` | `push`, `pop`, `sync`, `clear`, `gotoWork`, `backWork`, unlocked `size` and `empty` | every channel has two | every pointer has one owner; no lost wake-up; `backWork` frees the blocked consumer; FIFO |
| `Looper` (`cpp/looper`) | list, two semaphores, worker thread | `postMessage` (with flush), `quit`, destructor, `loop` | its posters | no deleted message is read; every message is handled or flushed; `quit` returns |
| `BaseChannel`, `VideoChannel` (`cpp/player`) | `isPlaying`, packet queue, frame queue, locals of two threads | `start`, `stop`, `decode`, `doFilter`, `render`, destructor | fed by `NiubiPlayer`, reads the audio clock, shows frames through the window | packets and frames are freed exactly once and not used afterwards; order; bounded queues; `stop` returns |
| `AudioChannel` | as above, OpenSL objects, `out_buffers`, `swrContext` | `start`, `stop`, `decode`, `init_start`, `getPcm`, `bqPlayerCallback` | fed by `NiubiPlayer`, called back by OpenSL | the callback has a frame, owns the buffer, keeps itself going; `stop` returns |
| `NiubiPlayer` | `isPlaying`, `callHelper`, channels, `formatContext`, three threads | `prepare`, `start`, `stop`, the three `init_*` thread bodies, destructor | channels; JNI | nothing is freed in use; a stop is not lost; everything is freed; the queues stay bounded and the media is played to its end |
| JNI entry points, native window, `LibraLivePlayer`, `PlayerActivity` | `playerHandle`, the window and its mutex | `prepare`, `start`, `stop`, `release`, `setSurface`, the render callback | Android's life cycle | the handle refers to a living player; the window is there while it is drawn on and is released once |
| `JavaCallHelper` | global reference | `onError`, `onPrepare` | Java, from the prepare thread | called through a valid pointer |
| OkHttp `Dispatcher` | ready and running calls, per-host counters, limits | `enqueue`, `execute`, `finished`, `promoteAndExecute`, setters, idle callback | the executor, `RealCall` | counters exact, limits kept, no call forgotten, idle reported |
| OkHttp `DiskLruCache` and `Cache` | journal and its backup, clean and dirty files, `lruEntries`, editors, `size`, sequence numbers | open and recover, `get`, `edit`, `commit`, `abort`, `remove`, `evictAll`, `flush`, `close`, trim, rebuild | the file system, the cleanup executor | whole entries after any crash; nothing leaked; size exact; what is committed stays |
| OkHttp connection pool, `Transmitter`, `ExchangeFinder`, `RetryAndFollowUpInterceptor` | connections, their transmitters, `noNewExchanges`, idle times, the cleanup thread; a call's connection and `connectingConnection` | find, connect, put, check, exchange, release, retry, follow-up, `cancel`, `evictAll`, cleanup | sockets | no connection closed in use; handed on clean; every connection closed in the end |
| OkHttp HTTP/2 (`Http2Connection`, `Http2Stream`, `Http2ExchangeCodec`) | the map of streams, `shutdown`, windows and unacknowledged bytes of connection and streams, settings, what a stream has buffered | `newStream`, writing and closing a body, `takeHeaders`, `read`, `close`, the reader's handlers, settings, timeouts, closing the connection | calls, the reader thread, the writer executor, the peer | no byte of a window is lost; nobody waits in vain; a finished stream leaves the map |
| OkHttp HTTP/1 codec, web sockets | | | | see section 6 |
| filter graphs, GL helpers, logging, JNI exercises | | set-up, one call after another | | |
| `VideoGLRender`, `NativeRender`, `NativeImage`, EGL classes, `UdpManager` | GL and EGL objects, a shared image; a socket | | nobody: the application makes none of them | |
| `H264DeCodePlay`, `SingleLiveEvent`, view models, activities, Retrofit set-up, camera preview | UI state | | Android | |
| third-party: FFmpeg, librtmp, glm, breakpad | | | | out of scope |

What is hard in the player is concurrency. Seven threads work on one playing
player (UI, prepare, demux, two decoders, render, OpenSL; an eighth joins when it
stops), `isPlaying` and the queue sizes are read without a lock, frames and
packets change hands through queues that are halted at any moment, and stopping is
asynchronous while deletion is not. Failures come from the media: a decoder
refuses a packet, a stream is missing, OpenSL cannot be set up, the network
answers after the user has left. In OkHttp it is what happens between two sections
under a monitor (dispatcher, pool, HTTP/2), and what a crash or a failing file operation
leaves behind (cache). `PROJECT.json` lists the hazards line by line, each with the
properties that would catch it.

## 2. Modules

| Module | Models |
|---|---|
| `QueueSpec` | what a queue promises: an indivisible FIFO of owned pointers that can be opened, closed and emptied |
| `MessageQueue` | `message_queue.h`, one step per pthread call |
| `MessageQueueProofs` | its theorems |
| `LooperSpec` | what a looper promises: a mailbox handled in order, with flush and quit |
| `Looper` | `Looper.cpp`, one step per semaphore call and per turn of the flush loop |
| `LooperProofs` | its theorems |
| `BaseChannel` | the queue operations as operators, indivisible as `QueueSpec` promises |
| `VideoChannel` | `VideoChannel.cpp` and the demuxer as its feeder |
| `VideoChannelProofs` | its theorems |
| `AudioChannel` | `AudioChannel.cpp`, OpenSL and the demuxer as its feeder |
| `AudioChannelProofs` | its theorems |
| `Pipeline` | playback as a whole: the demuxer and both channels, whose threads may die |
| `Player` | what `NiubiPlayer` and `Pipeline` share: the kinds of channel and `isPlaying` |
| `NiubiPlayer` | the life of a player object across its threads |
| `LivePlayer` | extends `NiubiPlayer` with the native window, its mutex and the drawing thread |
| `PlayerProofs` | the theorems of `Pipeline`, `NiubiPlayer` and `LivePlayer` |
| `Dispatcher` | `Dispatcher.java` and what `RealCall` does to it |
| `DiskLruCache` | `DiskLruCache.java`, and `Cache.java` as its client |
| `OkHttpProofs` | the theorems of `Dispatcher` and `DiskLruCache` |
| `ConnectionPool` | `RealConnectionPool.java` and the calls that find, carry and release connections |
| `ConnectionPoolProofs` | its theorems |
| `Http2Connection` | `Http2Connection.java` and `Http2Stream.java` of a client, and the calls that use the streams |
| `Http2ConnectionProofs` | its theorems |
| `MC...` | instances for TLC |

The player's modules are stacked by what they promise to each other. `MessageQueue` is
shown to implement `QueueSpec`; the channels use the operations of `QueueSpec`
(through `BaseChannel`) as indivisible ones. The channels show that their `stop()`
returns; `NiubiPlayer` uses a channel's `stop()` as one step, and `Pipeline` takes the
queues as counters. The OkHttp modules stand side by side: the dispatcher decides when
a call runs, the pool what a running call does with connections, and `Http2Connection` what
its exchange does on a shared one.

### How state and steps correspond to the code

*MessageQueue.* `mutex`, `waiters`, `state` and `queue` are the members; `pc[t]` is
where a thread is inside a method, `hand[t]` the pointer it owns, `live` the heap.
A method is a lock step followed by what it does under the mutex; `pop` may give the
mutex up in `pthread_cond_wait`, can be woken by a signal or for no reason, and has
to get the mutex back. Producers test `size()` unlocked before they allocate and push.

*Looper.* `list` is what `head` leads to, `data` and `protect` are the semaphores. A
flush deletes the messages one by one while `head` still points to them; the new head
is assigned afterwards. The four overloads of `postMessage` differ in payload only.

*VideoChannel.* A packet or frame is a number that stands for its address, given out
in order, so that order and reuse are visible; `livePackets` and `liveFrames` are the
heap. `cpc`, `dpc` and `rpc` are the controlling thread (start, demuxer, stop,
destructor: they follow one another), `decode()` and `render()`. Each access to shared
state is a step of its own: the loop test of `isPlaying`, the pop, the test after the
pop, the push, the release. `backlog` is what the decoder holds back. Decoder answers
and the comparison with the audio clock are choices. `late` remembers which frames
were judged late; no action reads it.

*AudioChannel.* `cb[x]` and `frame[x]` are the callback and its local on each of
the two threads that run it; `queued` counts the buffers with OpenSL; `player` is the
player object. OpenSL is external: it calls back on its own thread when a buffer has
been played, and `Destroy` waits for a running callback. `silent` remembers that a
conversion yielded no samples; no action reads it. The test of `isPlaying` in `getPcm()`
and the calls of `swr_get_delay` and `swr_convert` are steps of their own. If `stop()` frees
the resampler between them, the process ends (`ConvertFreed`), or an earlier call that is
under way gets through in memory nobody has reused yet; so it ends when a result of the
OpenSL set-up is used that was not checked (`SetupCrashes`). Nothing happens after `Crashed`.

*Pipeline.* The loop of `init_start`: the wait for room in both packet queues, the read,
the four polls of the queues at the end of the media, each a step because all of them
are unlocked, and the two joins. `dec[k]` and `out[k]` are the decoder and the output of
a channel; each can die the way its code can (a refused packet, an OpenSL that cannot be
set up, a conversion without samples). `cause` says why the demuxer left its loop.

*NiubiPlayer.* `ui`, `pre`, `play` and `stp` are the four threads, `handle` is the
Kotlin field. `start()` runs on the prepare thread, inside the `onPrepare` callback.
`fault` is set when a null pointer is used, which ends the process; an access to the
deleted player may end it or may work on memory that is still intact, so both happen.
`codec[k]` is the `AVCodecContext` of a stream: a turn of the loop in `init_prepare` may
end before it is made, or after it without a channel. A stream that is neither audio nor
video (`"other"`) gets a codec context and no channel.
`pthread_join` of a thread that was never created returns at once (`pid_play` is 0).

*LivePlayer.* `window` and `refs` are the global pointer and the references on what it
points to, `mutex` the global lock, `draw` where `renderFrameCallBack` is, `gone` whether
the activity has released it. A failed `ANativeWindow_lock` releases the window from the
drawing side. The player's steps are those of `NiubiPlayer`.

*Dispatcher.* `ready` and `runningAsync` are the deques, `counter[c]` the `AtomicInteger`
a call shares with the other calls to its host, named after the call that brought it. A
turn of the loop in `promoteAndExecute` is a step; `lock` is who is in it and `owed` who
has left its section and still has to promote: `enqueue` and `finished` release the
monitor in between. `idleDue` remembers that the dispatcher has become idle and the
callback has not run.

*DiskLruCache.* Every method holds the monitor, so methods do not interleave; `method` is
the method under way, `step` the file operation or the turn of a loop it comes to next, `key`
and `nth` the file it is at. A crash may come between any two, and each may fail, which goes
on at the handler that catches it; a rename deletes its target first, and may stop there.
`readJournalLine` is one step for each line, `nth` the next one. The
content of a file is the number of the edit that wrote it. `buffer` holds journal lines
the sink has not written; a crash may cut them anywhere, a line in the middle included.
`detach()` swallows the failure of a deletion (`DeleteDirtyFails`) and leaves the temporary
file to whoever edits the entry next. `pub`, `durable`, `torn` and `leaked` are history: what
the last commit published, which commits must survive a crash, which keys had a commit or a
rollback split by a failing operation or a commit that published a leaked file, and which
temporary files are leaked, each with its key, its value and its edit.

*ConnectionPool.* One action per section under the pool's monitor; closing a socket
happens outside, so a section leaves what it must close in the thread's hands and a later
action closes it. `call[c].mine` is `connectingConnection`, which stays set when a connect
fails (`Failed`). Sockets may fail at any time. `due` counts the idle connections whose
keep-alive is over. `wire` is where an HTTP/1 exchange on the connection stands.

*Http2Connection.* One action per section under a stream's or the connection's monitor.
`st[s]` is a stream with the thread of its call: `pc` is where the thread is, `asleep` the
monitor it waits on, `hand` the bytes it has taken from one window and not yet reported to
the other. `reader`, `settle` and `closer` are the reader thread, the executor's job for a
SETTINGS frame and `close()`, each between two of its sections; `killer` is a timeout or
`cancel()` that has failed the stream and not yet removed it. `credit` and `peerWin` are the
windows as the peer knows them: history, which no action of the client reads. A frame of the
peer is chosen when it is received, within the windows it has, so a WINDOW_UPDATE counts as
soon as it is handed to the executor, and the executor's delay is part of the peer's. A frame
is stored whole; the peer sends headers once; trailers are an end without data. A timeout
strikes a thread that waits, not one in the middle of a section.
A call can give up while the connection lives: its request body, or what is between the
headers and the body of its response, throws (`Abandon`), a write of its headers, its data or
the flush after them throws (`HeadersFail`, `DataFails`, `FlushFails`), or its thread is
interrupted in one of the waits (`Interrupt`). It ends "left", "unsent" or "unflushed", and
its stream, its windows and what it has buffered stay as they are.

## 3. Runs

| Run | Properties | Shows |
|---|---|---|
| `queue` | `OneOwner`, `WakeupsCoverEntries`, `BoundedOvershoot`, `ImplementsQueueSpec`, `StopReleasesPop` | two producers, two consumers, one controller: ownership, wake-ups, bounds, refinement of `QueueSpec`; `backWork` gets a consumer out of `pop` |
| `looper` | `NoDeletedRead`, `EveryMessageCounted`, `ImplementsMailbox`, `QuitReturns` | two posters, any flushes, a racing `quit`: no deleted read, no stranded message, refinement of `LooperSpec`; when no post races with `quit`, it returns with everything handled and deleted |
| `video_channel` | `ChannelInv`, `DecodingOrder`, `StopReturns` | ownership of packets and frames, the bound of the frame queue, order on the screen, `stop()` returns |
| `audio_channel` | `ChannelInv`, `CallbackChainAlive`, `StopReturns`, `QuietWhenStopped` | ownership, a frame for every conversion, one user of the buffer, a live callback chain; if the process lives, `stop()` returns and leaves no thread in the channel, none that can come back to it, and nothing in anybody's hand; the freed resampler is met by OpenSL's thread only, before `Destroy` has waited for it |
| `player_lifecycle` | `WindowInv`, `NothingFreedInUse`, `StopReleasesMedia`, `StoppedBeforeDeleted`, `StopAfterStartReturns` | nothing freed in use, no running channel deleted, the format context and every channel with its codec context gone after `init_stop`, at most one other codec context of an audio or video stream left, a stop after start carried through, the window there while it is drawn on and released once |
| `pipeline` | `PipelineInv`, `EofCutsOffLittle`, `PlaysToTheEnd`, `StopEndsPlayback` | bounded queues whatever has died, hardly anything cut off at the end of the media, playback ends unless a stage has died, a stop ends it in any case |
| `dispatcher` | `DispatcherInv`, `NothingForgotten`, `HostLimitKept`, `CallsGetThrough` | exact shared counters, the limit per host, no call waiting without a reason and no idle callback missed, every call gets through |
| `disk_cache` | `CacheInv`, `WholeEntries`, `CommittedSurvive` | after any two crashes or failing file operations, with the exceptions below: whole entries, nothing leaked, exact size; what was committed whole and recorded is there |
| `connection_pool` | `PoolInv`, `CleanReuse`, `EveryConnectionClosed`, `IdleLimitRestored` | no connection closed in use, clean hand-over, the cleanup thread is there when needed, every connection is closed in the end, the idle limit is restored |
| `http2` | `Http2Inv`, `WindowsAgree`, `WaitersAttended`, `OnlyLiveStreams` | what the peer may send plus what it has sent and nobody has given back is always the window, and what nobody *will* give back is in the buffers of calls that gave up, or found their stream failed or gone, before they could close the response; what a stream may send is what the peer expects; nobody waits for what has happened or cannot happen any more; a stream that is closed, or whose call came to its end, leaves the map, but for one whose last flush failed |

A property named `...Inv` is the module's type invariant together with the facts that
belong to it; the parts are named and commented in the module. The type invariants of
`MessageQueue` and `Looper`, and `FrontExists`, `ClosedQueueWakes` and
`OnlyFlushDiscards`, are proved (section 4) and need no run.

Deadlock is not checked where the system may really stop: in `looper` (a flush posted
after `quit()` deletes the quit message and leaves the owner in `pthread_join`, which is
what the code does), in `pipeline` (with a dead stage everybody waits until the user
stops the player; afterwards nothing runs), in `connection_pool` and `http2` (all calls
are through and all connections closed).

Two runs expect a violation. Each states what a comment of the program says, and
shows a behaviour of the code that contradicts it:

| Run | The code says | What happens |
|---|---|---|
| `player_lost_stop` | the start thread is made to end (`NiubiPlayer.cpp:259`) | `start()` sets `isPlaying` after `stop()` cleared it; the join never returns |
| `cache_stale_snapshot` | a snapshot gives no editor when its entry has changed since (`DiskLruCache.java:822`) | an entry read from the journal and the first entry committed after opening both have sequence number 0, so the test passes (`DiskLruCache.java:581`) |

### Seen in the models, without a run

The properties of the passing runs hold with all of these in the model.

In the player:

- the demuxer reads a packet's flags after it has pushed it (`NiubiPlayer.cpp:212`), when
  `decode()` may have freed it (`VideoChannel.cpp:130`);
- a late frame is overwritten and leaks, and its successor is thrown away
  (`VideoChannel.cpp:304`), where the comment says that superfluous frames are (`:301`);
- `swr_free` comes before `Destroy` waits for OpenSL's thread (`AudioChannel.cpp:382`, `:388`):
  a callback that has passed the test of `isPlaying` (`:228`) then calls `swr_get_delay` or
  `swr_convert` (`:237`) with the freed context (`ConvertFreed`); `QuietWhenStopped` shows
  that no other thread does, and this one not after `stop()`;
- the codec context made at `NiubiPlayer.cpp:93` leaks when `init_prepare` returns at `:104` or
  `:111`, and so does that of a stream that is neither audio nor video; `StopReleasesMedia`
  shows that of audio and video it is at most one, and then nothing was played;
- the results of `CreateAudioPlayer`, `Realize` and `GetInterface` are not checked
  (`AudioChannel.cpp:343`), and the null interface is called (`SetupCrashes`);
- `stop()` takes `callHelper` away from a prepare thread (`NiubiPlayer.cpp:250`) that the
  comment says it waits for (`:256`), and overwrites the pointer `init_stop` means to delete;
- a refused packet ends `decode()` where the comment says retry (`VideoChannel.cpp:125`);
- media with one stream end in a null channel (`NiubiPlayer.cpp:217`, `:240`,
  `VideoChannel.cpp:275`); `StopAfterStartReturns` shows that media with both do not;
- `native_release` deletes the player under its threads, as the TODO at
  `app_liveplayer.cpp:55` says, and the `onPrepare` callback can call `native_start(0)` before
  `native_prepare` has returned the handle (`LibraLivePlayer.kt:54`);
- a packet of a stream nobody takes leaks (`NiubiPlayer.cpp:209`);
- the time to sleep before a frame is cut to whole seconds (`VideoChannel.cpp:292`), which
  the model leaves out with all other timing.

In OkHttp:

- a call enqueued while a web socket's opening call to its host runs takes over the counter of
  that call and waits for it, although web sockets "do not count against this limit"
  (`Dispatcher.java:115`); calls before it share another counter, so that together they can be
  more than `maxRequestsPerHost`. `HostLimitKept` is therefore about the hosts no web socket
  goes to, and `WaitsOnlyForLimits` counts a web socket among the calls to its host. The
  `dispatcher` run gives the web socket a host of its own; the proofs cover shared hosts;
- a commit whose second rename fails leaves a readable mixture with its editor stuck; so
  does an edit of a readable entry that cannot open one of its files and gets a black
  hole in its place; `close()` gives up when one abort fails, and leaks what a stuck
  commit left. `torn` exempts these keys from `WholeEntries`, `NoLeak` and `SizeExact`,
  and so the keys of a commit that published a leaked file: the promise is kept for
  crashes, not for every failing file operation. A file that `detach()` could not delete is
  exempt from `NoLeak` as long as it lies there, and only that file;
- such a file ("potentially leaked", `DiskLruCache.java:877`) is published by the next commit of
  its entry that does not write the value itself, as an update of the metadata does not write
  the body (`:559`), although values "default to their previous value" (`:72`);
- a `notifyAll` between the cleanup thread's section and its wait wakes nobody; the
  idle limit is restored when the wait runs out, as `IdleLimitRestored` shows;
- an HTTP/1 exchange given up by an exception that is not the socket's leaves its
  connection in the pool with half an exchange on it (`CleanReuse` exempts it, `wire`);
- when computing a follow-up throws, the connection stays acquired until the garbage
  collector clears the reference (`Leak`);
- `connectingConnection` keeps a connection that failed to connect, so that a `cancel()`
  meanwhile closes nothing (`Failed`);
- between acquiring a connection and starting an exchange, `cancel()` closes the socket of
  an established connection, on which other calls may be (`Transmitter.java:359`), where the
  comment speaks of a connection that is being established (`:342`);
- an exchange that is given up without closing its body (a request body that throws, a 204
  with content, an interrupted wait, a failing write) leaves its HTTP/2 stream in the map with
  the window its unread bytes take up. Nobody reports these bytes (`Lost`), and the window of
  the connection can stay at 0 for the other streams, the risk `Http2Stream.java:450` speaks
  of. Such a stream may still be open; `OnlyLiveStreams` shows that nobody leaves a *closed*
  one, except the call whose `flush()` fails after it has closed its sink
  (`Http2Stream.java:666`);
- in the same way the bytes stay that `emitFrame` or `takeHeaders` leaves in the buffer when
  it throws because the stream was reset (`Http2Stream.java:607`, `:684`); `WindowConserved`
  says where such bytes can be and that there are no others;
- a write that fails has taken its bytes from both windows (`DataFails`), and `WindowsAgree`
  counts the share of the stream;
- after the ACK of a smaller initial window, a stream may still send by the larger one until
  the executor gets to it (`WindowsAgree` counts the difference);
- a write that gets its share of the connection's window and then finds the writer closed
  does not give it back (`WriteData`); the connection is closed, so nobody misses it.

### Bounds, and why they are enough

- *Queue:* `MaxSize` 1 for the code's 100. The code compares with it once; with 1 the
  queue is empty, at, and over its limit. Four pointers fill the queue beyond its limit
  and still leave one in each consumer's hand. Two consumers are one more than the
  player has, so the wake-up properties are not a matter of having only one.
- *Looper:* three posts by two threads: a flush over a list of two, a post behind
  it and one in parallel. Beyond that the list is only longer.
- *Channels:* `PacketLimit` and `FrameLimit` 1, five packets (video) and four
  (audio): both queues exceed their limit and are waited for, the decoder holds
  packets back, and there are still frames to drop, to show and to find at `stop()`.
- *Pipeline:* limits 1, up to five packets in any mix of the two streams and others:
  enough to fill one channel while the other starves.
- *Player:* one object, streams from all subsets of video, audio and one other, at most
  one of a kind. There is no counter to bound; the demuxer loops for ever if it wants to.
- *Dispatcher:* four calls, one synchronous and one for a web socket, on two hosts, three
  on one of them; limits 1 and 2, changed once: both limits are reached, the queue holds
  calls that one limit blocks and the other does not.
- *Disk cache:* two keys, two edits, journals of four lines after the header, two faults: a
  crash in the recovery from a crash, eviction by another key's commit; 2 million states.
  The stale snapshot takes one key, three edits and seven lines, without faults.
- *Pool:* two calls, two connections, one idle connection allowed, one retry or
  follow-up, one call that may be canceled: sharing over HTTP/2, losing the race to
  connect, reuse after each way an exchange can end, and one idle connection too many.

- *HTTP/2:* two streams, one with a body of two bytes and a response of two, one without
  bodies; a receive window of four, so that WINDOW_UPDATEs are held back until two bytes are
  read; a connection window of one, a stream's of one or two, so that a writer waits for each;
  two faults before the second stream is opened, one with it: a reset against `close()`, a
  timeout against GOAWAY, an interrupt against a reset, settings against a new stream. The
  response has its two bytes of data while there is one stream (`MaxReply`); with two, the peer
  answers without data. 1.1 million states.

Symmetry is used in `disk_cache` only, for the keys; that run checks no liveness.

### Fairness, and why the code justifies it

A thread that can run does run (weak fairness of each thread's steps; the scheduler
is preemptive and no thread spins under a lock). A thread that waits for a mutex or a
semaphore gets it if it becomes free again and again (strong fairness of the lock
steps, the release of the window included; critical sections are short and no thread
re-locks in a tight loop for ever). OpenSL plays what it is given. Calls and exchanges
end, because their sockets have timeouts; the keep-alive of an idle connection runs out,
because it is a time; the garbage collector gets to a dropped call. Nothing is assumed of
the user: no run relies on a packet being fed, on `stop()` being called, on a post, a call
or a cancellation being made. Spurious wake-ups happen and are never relied on. That
posters keep away from `quit()` is a premise of `QuitReturns` (`Disciplined`), not
of the specification.

## 4. Proofs

For every value of the constants, under the assumptions stated in the modules
(threads of different roles are different, null is not an address, the sets of
threads are finite, limits are natural numbers, windows are positive). The bounds that
make the runs finite (packets, calls, streams, faults) are constants, so the theorems
hold for any of them.

*MessageQueueProofs.* `ControlInv` is inductive: types, roles, the threads in critical
sections are exactly the owner of the mutex, a thread's hand is full exactly at the
points where it should be, sleepers are inside `pthread_cond_wait`, and `take` is only
reached with something in the queue. Mutual exclusion is what makes the last one
inductive: nobody else can remove the entry between test and take. On top of it:

- `TypeCorrect`, `FrontAlwaysExists`, `ClosedQueueAlwaysWakes`;
- `OneOwnerAlways`: every pointer has exactly one owner, by a case for each step that
  moves a pointer, with lemmas on removing the front and adding at the back;
- `OvershootAlwaysBounded`: counts the producers that have passed the size test;
- `WakeupsAlwaysCoverEntries`: counts the awake consumers; the interesting case is a
  signal to one sleeper while others are awake;
- `QueueRefinement`: every step is a step of `QueueSpec` or a stutter.

*LooperProofs.* `LooperInv` is inductive: one thread at a time at the list, pending and
taken messages belong to one thread, and what is queued is alive *except* between a
flush loop and the assignment of `head`, when the list is stale. The exception is why
`NoDeletedRead` is not inductive as it stands. On top of it: `LooperTypeCorrect`,
`NeverReadsDeleted`, `MessagesAlwaysCounted` (a counting argument of its own),
`MailboxRefinement`, `DiscardsOnlyOnFlush`.

*VideoChannelProofs.* `VideoInv` is inductive. Ownership alone is not: it needs that
`decode()` comes to `pop` with an empty hand (`HandEmptyAtPop`), that `render()` comes to it
with an empty hand or with a frame it has judged late (`FrameKept`, which is how the leak of
late frames stays the only one), and that the room `decode()` has seen is still there when it
pushes (`RoomKept`: nobody else pushes). Order needs that both queues are increasing and that
the frame in hand is older than every queued one. `ChannelAlwaysSafe`,
`AlwaysInDecodingOrder`.

*AudioChannelProofs.* `AudioInv` has the same parts and one more, `OneToken`: the right to
run the callback is a token, which is a buffer with OpenSL or one of the two threads that run
`bqPlayerCallback`. There is no token before `init_start` makes one and never a second, which
is why the two threads do not disturb each other's buffer although no lock keeps them apart.
A theorem about the end of `stop()` needs where the threads are by then: nobody is in
`decode()` or `init_start()` after the joins, and after `Destroy` no callback has the token.
`ChannelAlwaysSafe`, `CallbackChainAlwaysAlive`, `AlwaysQuietWhenStopped`.

*PlayerProofs.* Of `Pipeline` (`PlaybackSpec`): `BoundsInv` adds to the bounds that what the demuxer and `decode()` have
tested still holds when they push. `EofInv` says what the four unlocked polls at the end of
the media have established so far and that it stands, although the threads go on between
them: the demuxer, the only source, is busy polling. `QueuesAlwaysBounded`,
`EofAlwaysCutsOffLittle`.

Of `NiubiPlayer` and `LivePlayer`: `PlayerInv` relates the program counters of the four threads
(`ThreadOrder`), what `init_stop` has freed at which point (`FreedInOrder`), which codec context
belongs to which channel (`CodecOwned`), and who has still to stop a started channel
(`StartedWatched`). It is proved of `NiubiPlayer`;
`LiveImplementsPlayer` (every step of the player with a window is a step of the player, or
one of the window alone) carries it to `LivePlayer`, of which `NothingEverFreedInUse`,
`StopAlwaysReleasesMedia` and `AlwaysStoppedBeforeDeleted` are stated. `WindowAlwaysSafe` has
an invariant of its own (`DrawInv`): the mutex is held exactly while the render thread draws.

*OkHttpProofs, the dispatcher.* Any calls, hosts and limits; the calls need not be finitely many. `IInv`
says that the queues hold the calls that are in the matching state, each once (`QueueInv`),
who may be in the monitor (`LockInv`), that the counters are exact and the calls in flight
finitely many (`CountInv`), that calls to a host without web sockets share one counter
(`ShareInv`), and that a ready call which could run is still going to be looked at: by the
thread in the monitor, whose iterator has it before it, or by one that owes a promotion
(`WaitInv`); `IdleInv` says the same of the idle callback. `WaitInv` is the reason why a
`finished` whose decrement comes before its section loses nobody. `CountersAlwaysExact`,
`NothingEverForgotten`, `HostLimitAlwaysKept`.

*OkHttpProofs, the disk cache.* Any keys, size and number of edits, crashes and failures, and
journals of any length. Nothing the run checks speaks of the journal, and nothing of it is
inductive without: a crash leaves the files and the lines, and what opening makes of them is
decided by the last line of each key that is CLEAN, DIRTY or REMOVE (`Told`). `CacheIInv` says
- of the disk (`DiskInv`): a key told CLEAN has the files of its last commit, or lacks them, and
  no temporary ones; a key told REMOVE, or nothing, has no files; what must survive is told
  CLEAN and is whole. Of a key told DIRTY it says nothing: opening deletes its files.
  Nor of keys in `torn`, except that they need not survive;
- of the buffer (`BufferInv`): it holds only READ and REMOVE lines, and the latter for keys that
  have no files left, so that any part of it may be lost or written. This is what the flush in
  `edit` and `completeEdit` is for;
- of the writer (`WriterInv`): it appends to a journal that ends in a whole line;
- of memory (`MemoryInv`): an entry nobody edits has the files of its last commit; one that is
  edited is told DIRTY *already*, each of its files is that of the last commit or, once renamed,
  the editor's, and each value opened has its temporary file. Files that `detach()` could not
  delete count as gone (`own`), so that what is said of temporary files is about live edits;
- of the method under way (`UnitInv`): which of the files it has come past are gone or renamed;
- of the size and the sequence numbers (`SizeInv`, `SeqInv`), and of opening (`ReadInv`): after
  `nth` lines the entries are what these lines tell.

A lemma for each way of writing says what the longer journal tells (`LinesWritten`,
`LineFlushed`, `RebuiltTold`), cut short or not; a lemma for each action says that it keeps
`CacheIInv`. `KeyStays`, `OneKey` and `OneEntry` reduce that to the one key the action is about.
`CacheAlwaysIInv`, `AlwaysWholeEntries`, `AlwaysCommittedSurvive`, `CacheAlwaysKept`.

*ConnectionPoolProofs.* Any calls and connections, any limit on the idle ones. What the runs
check is not inductive: that nobody closes a connection in use depends on where every thread
stands with the one it made. `IInv` says what a call has at which point (`Placed`); that the
idle list is the pool's members without a transmitter, each once, and that the pool is finite,
so that the loops over it end (`IdleInv`); that whatever a call holds is in the pool and what is
in the pool is open, and in nobody's hands to be closed or still being made (`HeldInv`); that a
connection being made is its maker's alone and nothing was sent on it (`MineInv`); and that an
HTTP/1 connection with an exchange under way has an owner of that exchange or takes no new
calls (`WireInv`), which is the reason why none is handed out with somebody's leftovers. The
long cases are a release that takes another connection in the same section, and the cleanup,
which takes leaked calls off their connections, puts these among the idle ones and evicts the
eldest. `PoolAlwaysSafe`, `AlwaysCleanReuse`.

*Http2ConnectionProofs.* Any number of streams. `IInv` has, next to the types, how far a
call's thread has come and what that says of its stream (`LocalInv`); that a stream not yet
opened is as it was made and unknown to everybody (`OpenedInv`); what the thread in `close()`
and the reader hold (`CloserInv`, `ReaderInv`: past the snapshot the map stays empty); which
streams are in the map, and who takes out those that are over (`MapInv`); why a sleeper sleeps
(`WaitInv`: on a stream only while it is open); and the three conservation laws, of which the
one for the connection's window is a sum over the streams of what is buffered or in hand. There is one lemma per action. Where the
bytes nobody will report can be is not part of these laws: it follows from `MapInv` and from
what `LocalInv` says of a closed source. The theorems:
`WindowsAlwaysConserved`, `WindowsAlwaysAgree`, `WaitersAlwaysAttended`, `OnlyLiveStreamsAlways`.

*Induction.* OkHttp's parts need facts about finite sums and first and last elements, which
call for induction. The library's induction theorems take an operator as a parameter, which
the provers cannot instantiate. `LeastElement`, that a set of natural numbers which is not
empty has a least element, does not; it is derived from the well-foundedness of the subset
order on finite sets, and each induction is an argument about a least counterexample.

*Only model-checked.* Liveness under fairness everywhere (the prover has neither fairness nor
`ENABLED`): `StopReleasesPop`, `QuitReturns`, both `StopReturns`, `StopAfterStartReturns`,
`PlaysToTheEnd`, `StopEndsPlayback`, `CallsGetThrough`, `EveryConnectionClosed`,
`IdleLimitRestored`. Every invariant and every safety property a passing run checks is also
proved. That a snapshot's editor may be stale (`StaleSnapshotRefused`) is a counterexample TLC
finds, and so is the lost `stop()`.

## 5. Plan

Done: queue, looper, the two channels, playback as a whole, the player's life cycle with
the window, the dispatcher, the disk cache, the connection pool, HTTP/2; the proofs of the
safety properties of all of them. Left: web sockets, a candidate for a further module, and
liveness, which stays with TLC.

## 6. Not modelled

Pixels, samples, timestamps and filter graphs are data and are left out; so are
logging, formatting and layout. FFmpeg, OpenSL, the JNI and Android are external: they
appear as the answers they can give. Two streams of one kind (the second channel
replaces the first), a second `stop()` on one player, and a second player after pause and
resume (`PlayerActivity.kt:67`), whose predecessor nobody holds a handle of, are not in the
model. Nor is a caller that is still inside `addMessage` when `quit()` destroys the
semaphores (`Looper.cpp:64`): using a destroyed semaphore has no defined outcome to model.
`AudioChannel::doFilter` and `dropAvPacket` are never called. The data races on
`isPlaying` and `size()` are modelled as indivisible reads and writes of an aligned word,
which is what the build produces. `VideoGLRender`, `NativeRender`, `NativeImage`, the EGL
classes and `UdpManager` are made by nobody in the application: a model would have to invent
the threads that call them.

Of OkHttp: web sockets are a protocol of their own; interceptors, cookies, URLs, headers, certificates and the
platform classes are functions of their arguments or calls into the platform. Of
`DiskLruCache`: `delete()`, `setMaxSize()`, the `snapshots()` iterator, failures while
opening, and journals damaged by somebody else. Of the pool: more than one address and
coalescing across hosts, timeouts other than by way of `cancel()`, duplex bodies. Of HTTP/2:
pushed streams (whose data the connection's window never gets back), padding, pings, frame
sizes and encoding, a peer that breaks the protocol, and two `close()` at once.

FFmpeg, librtmp, glm and breakpad, by far the largest part of the source tree, are
third-party code the application is linked with, mostly headers; they are not modelled.
