# TLA+ models of v4l-utils

This directory holds TLA+ models of v4l-utils (the libv4l libraries, libdvbv5
and their tools), the TLC configurations that check them on small instances,
and TLAPS proofs of what holds for every instance.  Paths are relative to the
repository.

- [Inventory](#inventory)
- [Modules](#modules)
- [Runs](#runs)
- [Where code and documentation disagree](#where-code-and-documentation-disagree)
- [Proofs](#proofs)
- [Plan](#plan)
- [What is not modelled](#what-is-not-modelled)

## Inventory

v4l-utils is a collection of libraries and of programs around the V4L2, DVB, CEC
and media controller interfaces of the kernel.  Most programs are sequential
front ends whose state is the kernel's.  The state that can go wrong lives in
the libraries.

| Component | State | Operations | Interacts with | Hard behaviour |
|---|---|---|---|---|
| libv4l2 stream engine (`lib/libv4l2/libv4l2.c`) | per device: flags, formats, `no_frames`, `frame_pointers`, `frame_queued`, `frame_map_count`, `convert_mmap_buf`, `frame_info_generation` | `v4l2_read`, the stream ioctls, `v4l2_mmap`, `v4l2_munmap`, `v4l2_close` | application threads, the driver's buffer queue, libv4lconvert | `stream_lock` released around DQBUF; read() and mmap share one stream; any request may fail half way |
| libv4l2 device table (same file) | `devices[]`, `devices_used`, `open_count` | `v4l2_open`, `v4l2_fd_open`, `v4l2_dup`, `v4l2_close`, `v4l2_get_index` | every entry point; the process's descriptors | unlocked lookups and counters, reuse of descriptor numbers |
| libv4l1 (`lib/libv4l1`) | a device table of its own, the V4L1 capture buffer and its map count | V4L1 ioctls over libv4l2 | libv4l2 | as the device table |
| libv4lconvert (`lib/libv4lconvert`) | per instance: candidate formats, scratch buffers, helper processes | `v4lconvert_try_format`, `v4lconvert_convert` | libv4l2, libv4lcontrol | choice of a source format, chained conversions in place |
| libv4lcontrol (`lib/libv4lconvert/control`) | control values in memory shared between processes | query, get, set | all processes that use the camera | initialisation and updates without a lock |
| libv4lprocessing | lookup tables, frame counter, copy of the controls | per frame | libv4lconvert, libv4lcontrol | tables follow the controls of other processes |
| libv4l-mplane, plugins | none | ioctl translation | libv4l2 | - |
| libdvbv5 remote device (`lib/libdvbv5/dvb-dev-remote.c`) | message queue, sequence number, list of open descriptors with ring buffers, `disconnected` | 17 remote procedure calls, receiver thread | `dvbv5-daemon` over TCP | two locks, condition variables without predicate, disconnect at any moment |
| dvbv5-daemon (`utils/dvb/dvbv5-daemon.c`) | owner connection `dvb_fd`, descriptor tree, `fds[]`, reader thread | one handler per call, `read_data` | libdvbv5, its clients | cancellation of the reader, several connections |
| libdvbv5 section reader (`dvb-scan.c`, `dvb-vb2.c`) | per table: extensions and the set of sections read; streaming buffers | `dvb_parse_section`, `dvb_read_sections`, `dvb_get_ts_tables` | demux devices | sections repeated, missing, interleaved, in any order; buffers lost on failures; abort at any moment |
| libdvbv5 local devices (`dvb-dev-local.c`, `dvb-dev.c`) | device list | udev add, change, remove; open, close | monitor thread and application | list changed while walked |
| libdvbv5 frontend, satellite, files, descriptors, tables | parameters | parsing and formatting | kernel | - |
| libv4l2rds | block synchroniser, group buffer, decoded fields | `v4l2_rds_add`, `v4l2_rds_reset` | radio tools | lost and corrupted blocks |
| frame streaming codec (`utils/common/v4l-stream.c`) | buffer, read and write position | `rle_compress`, `rle_decompress` | v4l2-ctl, qvidcap over TCP | in place; frame data that looks like codes |
| cec-follower | power, deck, remote control and timer state | `processMsg`, periodic update | CEC bus | delays, repeated and missing messages |
| other tools (`v4l2-ctl`, `cec-ctl`, `media-ctl`, `ir-ctl`, `ir-keytable`, `edid-decode`, `v4l2-compliance`, `v4l2-tracer`, `qv4l2`, ...) | command line options | sequential | kernel | - |

What makes each of the first components correct:

- **Stream engine.**  libv4l2's idea of the stream (on or off, number of buffers)
  is the driver's.  A frame is converted from a live mapping into live memory.
  Every buffer is with the driver, the application or the thread dequeuing it.
  read() gives every buffer back.  Buffers the application requested or mapped
  are not freed under it.  Every call comes back.
- **Device table.**  An open descriptor is found by every call, in one slot; the
  resources live exactly as long as references do; other files of the process
  are left alone.
- **Remote devices.**  Every call gets the answer to its own request and comes
  back; messages and descriptors are not used after they were freed; data reaches
  the descriptor it was read for.
- **Section reader.**  A table is reported complete when, and only when, every
  section of every extension was parsed once.  No section of the table before is
  taken for one of this table; no buffer goes astray; a scan ends, also when it is
  broken off.
- **RDS decoder.**  A name, text or traffic message that is shown is one that was
  sent, never a mixture of two, whatever was lost in between.
- **Software controls.**  What any process sets stays until it is set again, and comes
  to be applied to the frames of every process; an application that lists the
  controls gets each of them once.
- **Run-length coder.**  The receiver has the frame that was sent; neither end
  overtakes itself in the buffer it works in.

## Modules

| Module | Role |
|---|---|
| `V4l2Stream` | the stream engine and the driver behind it |
| `V4l2Devices` | the table of open devices |
| `DvbLink` | the connection of a remote DVB device, and its messages |
| `DvbRemote` | the client: threads that call, and the receiver thread |
| `DvbDaemon` | the daemon: serving thread and reading thread |
| `DvbSystem` | client, connection and daemon together |
| `DvbCalls` | abstract specification: what remote procedure calls promise |
| `DvbScan` | the section reader, its streaming buffers, and the scan of a transponder |
| `Rds` | block synchronisation, name, text and traffic messages of the RDS decoder |
| `V4lControl` | the shared software controls, and the filters that follow them |
| `Rle` | the run-length coder of streamed frames, both ends |
| `V4l2StreamProofs`, `V4l2DevicesProofs`, `DvbSystemProofs`, `DvbScanProofs`, `RdsProofs`, `V4lControlProofs`, `RleProofs` | theorems about the modules they are named after |
| `V4l2SequentialProofs` | theorems about the buffers of `V4l2Stream`, most of them for one thread |
| `MCV4l2Stream`, `MCV4l2Devices`, `MCDvbSystem`, `MCDvbScan`, `MCRds`, `MCV4lControl`, `MCRle` | values of constants for TLC |

Operators that end in `Anyway`, `Never`, `Silently` and the like stand beside the
definition they vary and are marked `mutant`: they are plausible mistakes, used
to make sure that each property notices one.

### V4l2Stream

`dev` is `devices[index]` together with the driver's side of the same file
(fields `d...`); `thr[t]` is what a thread is doing.  Every entry point of the
library takes `stream_lock` and keeps it until it returns, so a call is one
action, except where the code lets go of the lock:

| Code | Model |
|---|---|
| `v4l2_request_read_buffers`, `v4l2_map_buffers`, `v4l2_streamon`, ... | an operator of the same name, from the record before to the record after; field `ok` is the C return value |
| `v4l2_read`, `v4l2_ioctl(VIDIOC_x)`, `v4l2_mmap`, `v4l2_munmap`, `v4l2_close` | actions `Read`, `Reqbufs`, `Qbuf`, ..., `Mmap`, `Munmap`, `Close`, in terms of those operators |
| unlock, `VIDIOC_DQBUF`, lock in `v4l2_dequeue_and_convert` | `Unlock`, then `KernelDequeues` or `DqbufFails`, then `Relock` with the retry loop |
| `SYS_READ` in `v4l2_read_and_convert` | `KernelReads`; the lock stays held |
| the driver | `DriverReqbufs`, `QbufOk`, `InUse`, `DriverFills`, after videobuf2 |
| a request the driver refuses | `Faults`: in one call at most one kind of request fails, for any subset of the buffers |

A format is abstracted to whether it needs conversion, the outcome of a
conversion to good, temporary error and error.  `held` and `asked` are history
variables of the application's rights: it queues only buffers it holds.  Calls
keep to `README.lib-multi-threading:6-12`: none before the open is complete,
none under way when `v4l2_close()` is called.

### V4l2Devices

`slot` is `devices[]`, `used` is `devices_used`, `file` the process's descriptor
table in the kernel, `refs` what the application holds.  `v4l2_open()` is cut
where other threads can see the difference: device opened, slot found
(`Register`, under `v4l2_open_mutex`), slot filled (`InitSlot`), `devices_used`
read (`ReadUsed`) and written (`Grow`).  `v4l2_dup()` is cut between the read and
the write of `open_count`; `v4l2_close()` into lookup, lock, count, release of the
resources, of the slot, and of the descriptor (`SysClose`, repeated after EINTR).
`FdOpen` is `v4l2_fd_open()`.  `OpenPlain` stands for any other file of the process,
which may be given a number that was just closed.

The table can be spoilt in four ways, and `Mishaps` says which of them an instance
has:

| Mishap | What happens |
|---|---|
| `"growth"` | two opens are both between reading `devices_used` (`libv4l2.c:782`) and writing it, which is outside `v4l2_open_mutex` |
| `"count"` | a dup's increment of `open_count` (`:880`), which takes no lock, overlaps that of another dup or the decrement of a close (`:828`) |
| `"twice"` | `v4l2_fd_open()` is given a descriptor that is managed already (`:727`), which it does not check |
| `"eintr"` | the kernel closes a descriptor and says EINTR, and the close is repeated (`:864`) |

Without them opens, dups and closes overlap in every other way: an open probes
and takes its slot while another one grows the table, a dup looks up its
descriptor while a close is on its way to the lock.

### The remote DVB device

| Code | Model |
|---|---|
| any `dvb_remote_*()`: test of `disconnected`, `send_fmt()`/`send_buf()`, `pthread_cond_wait()`, result, `free_msg()` | `Begin`, `Post` or `PostFails`, `Enqueue`, `Wait`, `Wake`, `FreeMsg` |
| what a call returns that could not send its request, and what it makes of its result | `NotSent`, `Reports` |
| `dvb_remote_open`, `dvb_remote_close` | the branches of `Wake` on `cmd` |
| `dvb_remote_fe_set_parms` (message sent unlocked), `dvb_remote_dmx_set_section_filter` (no look at `disconnected`) | the exceptions in `MsgLocked` and `Begin` |
| `receive_data()` | `Receive`, `WalkOpenList`, `Match`, `Signal` |
| `dvb_dev_remote_disconnect()` | `RecvFails`, `WalkMsgs` (one message per step), `CloseSocket` |
| a walk along a list whose element another thread frees | `Follows`: it goes on at any element, or ends |
| handlers of the daemon | `OpenDevice`, `OpenFails`, `CloseDevice`; `ServeOther` for those that only ask or set the device; `ServeUnknown` for a command without a method |
| `dev_open()`: start of the reader, unlock, insertion into `desc_root`, unlock | `OpenDevice`, `UnlockAndInsert`, `UnlockAgain` |
| `send_buf()` of the daemon, under `msg_mutex`: two calls of `send()`, length and message | `LockAnswer`, `SendAnswer`; `ReaderLocks`, `ReaderSends` |
| `read_data()` | `ReaderReads`, `ReaderLocks`, `ReaderSends`; `ReaderEnds` and `ReaderGone`, when there is nothing to poll or `desc_root` is empty |
| `pthread_cancel(read_id)` | `CancelReader`; `doomed` and `ReaderDies` for a reader that was on its way to `msg_mutex` |
| a length put together from signed bytes | `Receive` (then the receiver is `"lost"`), `Misread` and `ServeLate` at the daemon |
| end of `start_server()` | `Hangup` |
| SIGPIPE | `Killed` |

The initial state is the one after `dvb_dev_remote_init()`: the connection
stands, the version was asked for, and the daemon's `dvb_fd` is this connection.
`lock_io` and the message locks need no variables: who holds them follows from the
program counters.  `msg_mutex` needs one, because `dev_open()` unlocks it without
having locked it (`dvbv5-daemon.c:834` and `:849`), also for a reader that was just started.
`stray` remembers that this happened while the reader was sending.  Then both
threads of the daemon may send at once; what that does to the stream is in `Cut`: two lengths in a
row, or a length without its message, as a reader cancelled between its two
`send()` leaves it too.  A client that meets one takes for a length what is none, and reads on to the
end of the connection.

The condition variables have no spurious wake-ups; with them
no call could be relied on, because no wait of `dvb-dev-remote.c` looks at a
predicate.  A break of the connection keeps any prefix of what was under way, on
either side.

`DvbCalls` knows neither queue nor threads: a request is asked, carried out at
most once, and its call returns the result it had, or an error after the
connection was lost.  Three calls hide the error, and `DvbCalls` says so
(`Reported`, `Unasked`): `fe_get_stats` always returns 0 (`dvb-dev-remote.c:1653`), the call for the
version tells only whether it is known (`:801`), and `fe_set_parms` returns the length
of an encoded property if its request was not sent (`:1557`).  In `DvbSystem` the
mapping is `Jobs`: a job is a call from its first test of `disconnected` to its
result, with the number of its request as soon as it has one; the open devices
are the daemon's `uids`; lost is `~up`.

### DvbScan

| Code | Model |
|---|---|
| `dvb_get_ts_tables()`, its switch from table to table | `pc`, `NextTable`, `ToProgram`, `AfterNit` in `ReadReturns` |
| `dvb_read_sections()`: set the filter, then `dvb_poll`, take a section, parse it, queue the buffer again | `StartRead`; `PollEnds`, `Dequeue` or `ReadNext`, `BadSection` or `Handle` |
| its end: stop the demux, and flush what still waits in the buffers | `StopRead`, `Flush` |
| `dvb_parse_section()` | `ParseSection`, of `Unwanted`, `Repeated`, `Stored` |
| `set_bit`, `is_all_bits_set` | `AllBitsSet`, with `WordBits` for `BITS_PER_LONG` |
| `dvb_v5_stream_init()` and its buffers | `StreamInit`, `Buffers`, `queued`, `done`, `bufcnt`, `flag` |
| `dvb_v5_stream_deinit()`, when a scan is broken off | `Deinit`: a `DMX_DQBUF` for each of the `Flagged` buffers, all of which wait |
| the application: the next transponder, a table for one `ts_id` or with gaps, an abort | `NextTransponder`, `AppRead`, `Abort` |
| the demux | `Deliver`, `Drop` |

The carousel turns for ever and the read begins anywhere in it.  A table is a
list of sections (extension, number, last number).  What a section contains is
left out, except for the PAT's list of programs.  `faults` counts sections lost and
operations that fail.

### Rds

Each block the tuner delivers is one step (`Receive`), as `v4l2_rds_add()` is called
per block; `Spoil` is a block with an error, `Lose` one that does not come at all.
`raw` is the group as far as it has come.  `DecodeGroup0`, `2` and `8` are the
handlers of the name, the text and the traffic messages, with their buffers, their
"valid" bits, segment counters, A/B flag and continuity index.  A character, two
characters of a text, or the 28 bits of a traffic message are opaque values.
Names have `NameSegs` and texts `TextSegs` segments.  Groups of tuning information
take the place of the group that the next one is compared with, and groups 8B
are open data.  `Store` puts the bits of a group of a message where
`libv4l2rds.c:534` puts them, which for the fifth group is behind `optional_tmc`:
over the groups to compare with, and over the head of the message (`Stored`).

### V4lControl

A process creates or maps the shared memory (`Create`) and closes the device or dies
(`Leave`).  The creator fills in zeros, the six defaults and what the camera is
known to want in nine writes (`Fill`, `Write`), while others can use the memory already.
`v4lcontrol_vidioc_s_ctrl()` is `SetCtrl`; `v4lcontrol_vidioc_s_ext_ctrls()` checks the values
(`SetExtCtrls`), asks the driver about the others (`SetExtAnswer`) and stores the library's
own one by one (`SetExtStored`).  `SetFormat` is the application that wants other frames.
The set of controls depends on the device: which ones the driver has, and whether
its frames are converted at all.

The converting thread of a process goes through `StartFrame`, `Compare` and `Copy` (the
`memcmp()` and the `memcpy()` of `v4lcontrol_controls_changed()`), `Process`, `UpdateFilter`
(one filter per step, since each reads the shared values anew) and `Apply`.  `CopyFrame` is
the early return for native formats and for frames without anything to do, `ConvertFails` a
failed conversion.  The filters return at once for a pixel format they do not know;
`v4lconvert_convert()` then calls them once more when the frame is in RGB (`ToRgb`).
`NextCtrl` is `v4lcontrol_vidioc_queryctrl()` with `V4L2_CTRL_FLAG_NEXT_CTRL`.  Table
contents are the control values they were computed from; autogain, which sets the
driver's controls from statistics over pixels, is left out beyond whether it is
active.  The histories `last` and `early` say what was set, and what of that while the
memory was being filled in.

### Rle

Words of four bytes, in one buffer: `PackLine`, `PackMagic`, `PackWord`, `PackRun` are
the branches of the loop in `rle_compress()`, `Send` the packet that carries the
result to the end of the receiver's buffer, `UnpackLine` and `UnpackWords` the
branches of `rle_decompress()`, which works from there to the front.

## Runs

| Run | Instance | Shows |
|---|---|---|
| `stream_sequential` | 1 thread, 2 frames, every call, every refusal but STREAMON and QBUF; 14,900 states | the bookkeeping of buffers stays true through any order of read(), mmap streaming, format changes and partial failures |
| `stream_readers` | 2 threads, 2 frames, read() and everything that changes the format; 21,586 states | `frame_info_generation` protects the frame that is being dequeued: it is mapped, it is nobody else's, and a change is seen |
| `stream_capture` | 2 threads, 2 frames, all calls but read(), a driver that frees mapped buffers; 37,248 states | source and destination of every conversion, and the emulated mappings, stay good |
| `stream_live` | reader against format changer, fair; 404 states | every call returns |
| `devices_shared` | 3 threads, 3 descriptors, 2 slots, no mishap; 6,945 states | the table is exact however opens, dups, closes and other files overlap otherwise |
| `remote_calls` | 2 callers (one opens and closes, one sets parameters and asks for statistics), 1 device, 3 calls, the connection may break; 563,021 states | client, connection and daemon implement `DvbCalls`; no message is forgotten; the descriptors of both ends agree |
| `remote_live` | 2 callers, a frontend and a demux, 3 calls, data, no break, fair; 194,921 states | the daemon's two threads do not send at once before `dev_open()` unlocked `msg_mutex` under the reader; every call the daemon knows returns, unless a cancelled reader took `msg_mutex` with it or a length was misread |
| `scan_tables` | nine tables of 1 to 4 sections in up to two extensions, 2 buffers or read(), 2 faults, fair; 1.2 million states | tables are whole, no section of another table is parsed, buffers are accounted for, and the scan ends, unless it waits for its buffers after it was broken off |
| `rds_decode` | 5 stations with 1 to 3 names, texts or messages each, any loss; 2.2 million states | what is shown was sent |
| `rds_message` | 1 station, nothing lost; stops at the violation | a message of three groups is not shown whole (see below) |
| `control_shared` | 2 processes, one of which converts frames in either kind of format, 7 kinds of devices, 4 requests, 2 events, fair; 711,384 states | what was set once the memory is filled in is kept and comes to be applied; the list of controls is whole |
| `rle_frames` | 10 shapes of frames of 4 to 15 words, over two to four words each; 966,000 states | every frame comes back as it was, in place |

**Bounds.**  They are named constants: `MaxGen` (generations), `MaxMaps` (emulated
mappings of one frame), `MaxRefs` (references to a descriptor), `MaxCalls` (sequence
numbers), `MaxData` (messages under way that let the reader send more), `MaxFaults`
(failures and losses), `MaxEvents` (requests for controls, processes that leave or get no
shared memory), `MaxGap` (blocks lost in a
row).

- *Stream.*  Two threads are enough because `stream_lock` serialises
  everything but the wait in DQBUF: what matters is one thread in DQBUF and what
  others do meanwhile, in any number of steps.  Two frames are enough for "some,
  not all" buffers to be queued, mapped or refused, and `MinBufs = 1` lets the
  driver grant fewer than the maximum.  Three generations let a thread in DQBUF see
  two changes.
- *Table.*  Two slots and a third descriptor let the table be full and numbers be
  used again.
- *Remote.*  Three calls let a device be opened and closed while a second
  thread's answer is on its way, or two devices be opened, the second one while
  the reader sends for the first, and one of them be closed.  `MaxData = 1` is enough
  for data in front of, between and behind answers; `remote_calls` has none, for
  data changes nothing of what calls return.
- *Scan.*  `WordBits = 4` makes tables of three and four sections sit on both sides of
  a word's last bit, as 63 and 64 do for the library.  The NIT has two
  extensions, the application's table a gap in its numbers and a second extension,
  and the PAT a network entry between programs.  Two buffers and two faults let
  all buffers be spent.
- *RDS.*  Names of two segments and texts of three have a first, a middle and a
  last one; three texts let the A/B flag return to its value.  Messages have one,
  three and five groups, the last of which is one more than there is room for.  `MaxGap` is at most 3 because with four blocks lost the next
  group completes this one unnoticed: there is nothing in a block that could tell.
- *Controls.*  `UpdateRate = 2` is the smallest at which a change can be missed by one
  frame and found by the next (the library has 10).  The devices have, lack or
  have disabled the controls before, between and after the library's own, and
  frames that need conversion or not.  Two requests let one be made while the
  memory is filled in and one later, or two come between two frames, or a process
  leave and its value stay.  The process that does not convert stands for any number of
  them.
- *Coder.*  The shapes have no lines, lines as short as a code, lines with room for
  runs, and runs that reach a line's end.  Words look like codes and counts.

**Deadlock** is checked for the RDS decoder and for the processes that convert frames,
which never stop.  The other runs may stop: bounds end them, calls may wait for a camera that does not stream, after a break nothing
has to happen, an aborted scan may end the program, and a decoded frame is the
end.

**Fairness.**  Stream: a streaming camera fills queued buffers (`DriverFills`), the
kernel completes DQBUF when it can (`Kernel`), and a thread back from the kernel
gets the processor and the lock (`Resume`), all weakly fair; no call is fair.  Remote:
each caller inside a call, the receiver, the serving thread and the reading thread
are weakly fair, being threads; taking `msg_mutex` for an answer is strongly fair,
because the reading thread gives the mutex back every time and a mutex that wakes
its waiters cannot be missed for ever.  No call has to be made and the
connection does not have to break.  Scan: the thread that scans is weakly fair,
as `dvb_poll()` comes back after its timeout; the demux and the application
are not fair.  Controls: a thread that converts frames goes on (`ConvertStep`), as do the
creator that fills in the memory (`Fill`) and a request the driver answers and that stores
its values (`SetExtAnswer`, `SetExtStored`), all weakly fair; frames are
converted successfully again and again (`Converted`, strongly fair, of which
`ConvertFails` is no part), which is what a stream that is shown means.  `SetFormat` is
not fair, and `ChangeShows` says nothing of a process that wants its frames in a native
format, which no filter ever sees.

### What holds under conditions only

The passing runs exclude some mixtures on purpose.  With them in, TLC finds what
follows.  Properties that are named here and belong to no run are stated in the modules all the
same, so that they can be put into the configuration named with them.

- read() on one thread and mmap ioctls on another: `v4l2_deactivate_read_stream()`
  (`libv4l2.c:520`) unmaps the buffers without changing `frame_info_generation`, and the
  thread back from DQBUF converts from `MAP_FAILED` (`ConvertReadsMapped`).
- A `S_PARM`, `S_FMT` or `REQBUFS` that is refused while another thread is in DQBUF:
  the generation has changed already (`libv4l2.c:887`), the frame is dropped and its
  buffer is with nobody (`NoBufferLost`).
- A STREAMON refused under read() (`libv4l2.c:528`): STREAMOFF then clears nothing, and
  S_FMT and REQBUFS answer EBUSY from then on (`QueuedOnlyWhileOn`).
- A read() whose emulated stream could not be activated falls back to the driver's read(),
  which the buffers requested meanwhile keep from working: `ReadFallbackUsable` fails in
  `StreamSequential.cfg`.
- A QBUF the driver refuses while read() refills its queue: `NoBufferLost`.
- STREAMOFF by another thread, after which a failed conversion queues its buffer
  again: `QueuedBitsHeld`.
- A driver that frees mapped buffers, REQBUFS, QBUF, then read(): the old mappings
  are kept (`NoStaleMapping`, `libv4l2.c:180`).
- A driver that takes S_INPUT with buffers allocated (`LaxInput`): the converted
  frames the application has mapped are freed (`FakeMapsBacked`, `libv4l2.c:1289`).
- The four mishaps of `V4l2Devices`: two opens that both grow the table lose a device
  (`HeldIsFound` with `Mishaps = {"growth"}` in `DevicesShared.cfg`); an increment of `open_count` without the lock is
  lost or undoes another (`CountIsHeld`, `{"count"}`); a repeated close takes
  another thread's descriptor (`HeldStaysOpen`, `{"eintr"}`);
  and `v4l2_fd_open()` of a managed descriptor gives it a second slot (`OneSlotPerFd`,
  `{"twice"}`).
- An open may also grow `devices_used` between the two reads of it in
  `v4l2_get_index()` (`libv4l2.c:810`); the lookup is one step in the model, as compilers make it.
- `dev_open()` gives back `msg_mutex` it does not have (`dvbv5-daemon.c:834`, `:849`): when the
  reading thread is sending, also one that was just started for the first device, both
  threads send (`OneSender` says so with `stray`).
- Data that the receiver looks up while the descriptor is freed: it walks
  `open_list` without a lock (`dvb-dev-remote.c:714`).  It meets a freed element as soon as
  a second device is open.  With one device it does as well when a reader that had left
  its loop sets `read_id = 0` late (`dvbv5-daemon.c:772`), over a reader started since, which no close
  then cancels: that assignment of a cancelled thread is not in the model.
  No property says the walk is good; `Follows` lets it go anywhere.
- A length with a byte above 127 (`dvb-dev-remote.c:652`, `dvbv5-daemon.c:1367`): the reader of
  the stream waits for the rest until the connection ends.  `KnownCallsReturn` excepts
  it, and with it the streams in which two messages are interleaved.
- `fe_set_parms` in the liveness run: a signal that comes before the wait is lost.
- Calls that report a success they had not: `SuccessTrue` fails in `RemoteCalls.cfg`
  without `c1`, for `fe_get_stats` as for `fe_set_parms`.
- A filter command: `dvb-dev-remote.c:1286` and `dvbv5-daemon.c:1325` give it different
  names, and its call never returns.  `KnownCallsReturn` is about the others.
- The end of a connection, or a close, while the reading thread sends:
  `dvbv5-daemon.c:885` cancels a thread that may hold `msg_mutex`; the serving thread then blocks, and the open
  devices are not freed.  `KnownCallsReturn` excepts it.
- A read for one `ts_id` whose first section is of another extension: the end
  of that read is recognised by a repetition that never comes; `ScanEnds` excepts
  it (`ForeignFirst`).
- A scan with a stream context that is broken off, by an abort, without a PAT or
  because its buffers could not be set up: `dvb_v5_stream_deinit()` waits for each of them
  (`dvb-vb2.c:260`), on a demux that is stopped.  `ScanEnds` excepts it (`Unfilled`); `AbortEnds`
  does not, and fails (in `ScanTables.cfg`, also with `TsIds = {NoTs}` and `MaxFaults = 0`).  `dvbv5-scan` itself has an alarm that ends the
  program after five seconds, without what it had found.
- Tables of more than 63 sections: `is_all_bits_set()` looks at the first word only
  (`dvb-scan.c:142`) and reports such a table complete early, or never.
- Names that have a segment in common, a text all of whose groups were lost
  between two with the same A/B flag, and traffic messages whose continuity index
  repeats or is 0 after a reset: the decoder cannot tell, and mixes.
- Traffic messages of five groups: their head may be changed by the last group, and
  `MessageUnmixed` then only says that nothing of another message is in it.  `HeadKept`, which
  says that the head is as it was sent, fails (in `RdsMessage.cfg`, with `AllStations`).
- A control set while the creator fills in the memory: it may be overwritten.
  `KeptOnceFilled` and `ChangeShows` are about those set later (`early`), `SetKept` about
  all; it fails in `ControlShared.cfg`.
- Lines of one or two words in the run-length coder: a repeated line is as long as
  its code, the frame does not shrink, and `rle_decompress()` takes it for one
  that was not compressed (`v4l-stream.h:103`).  A frame that is no whole number of
  lines, or of fewer than four words, is read past its end.

## Where code and documentation disagree

| Run | Code | Said |
|---|---|---|
| `rds_message` | `libv4l2rds.c:534`: the length is incremented before it is used as the place of the data, so block 1 stays empty and the last group's bits are not looked at | `libv4l2rds.c:335`: "(up to) 4 blocks of 28 bits each, which are to be treated as a consecutive bit-array" |

The others have no run of their own.  TLC shows the first ones too, with the property named
and the instance given [above](#what-holds-under-conditions-only):

| Property | Code | Said |
|---|---|---|
| `ReadFallbackUsable` | `libv4l2.c:513`: `v4l2_activate_read_stream()` returns after failing to map or to queue its buffers without giving them back, and the driver answers EBUSY to every read() from then on | `libv4l2.c:1577`: "Activating mmap mode failed, use read() instead" |
| `HeldIsFound` | `libv4l2.c:782`: `devices_used` is compared with the new index and set after `v4l2_open_mutex` is released, so that the smaller of two may be written last and an open device is no longer found | `README.lib-multi-threading:6`: "libv4l1 and libv4l2 are safe for multithread use \*under\* \*the\* \*following\*" conditions, none of which keeps two opens apart |
| `CountIsHeld` | `libv4l2.c:880`: `open_count` is incremented without `stream_lock`, under which it is decremented | the same line; no condition keeps a dup of one reference apart from a dup or a close of another |
| `HeldStaysOpen` | `libv4l2.c:864`: close is repeated while it says EINTR, when Linux has given the number up, and perhaps away | `libv4l2.c:862`: "Since we've marked the fd as no longer used, and freed the resources," the close may be redone |
| `SuccessTrue` | `dvb-dev-remote.c:1653`: 0 is returned whatever became of the request | `dvb-fe.h:473`: "@return The returned value is 0 if success, EINVAL otherwise." |
| `SuccessTrue` | `dvb-dev-remote.c:1557`: when the request could not be sent, the length of its last property is returned | `dvb-fe.h:401`: "@return Return 0 if success, EINVAL otherwise." |
| `AbortEnds` | `dvb-vb2.c:260`: each queued buffer is dequeued, which blocks, from a demux that was stopped and emptied; `dvb_get_ts_tables()` does not return | `dvb-fe.h:103`: "@param abort Client should set it to abort a pending operation like DTV scan (RW)" |
| `HeadKept` | `libv4l2rds.c:534`: the fifth group is stored behind the array, over the groups to compare with and over event and location of the message, which is then shown | `libv4l2rds.c:57`: "buffer for up to 112 bits of optional additional data in multi-group messages (112 is the maximal possible length specified by the standard)" |
| `SetKept` | `libv4lcontrol.c:763`: the memory is filled in, without a lock, after others can open it (`:721`); what they set is overwritten | `README.libv4l:34`: "These controls are stored application wide (until reboot) by using a persistent shared memory object." |

The EINTR case depends on the file: Linux gives the number up before it asks the
driver to finish, and a V4L2 device has nothing to finish that could be
interrupted.

These were met while modelling:

- The same sentence of `README.lib-multi-threading` covers refused requests that
  change the generation (`libv4l2.c:887`), described above.
- `dvb_v5_stream_init()` forgets the mappings of a context that was not taken down, as
  a scan that is through leaves it (`dvb-scan.c:696`).
- `dvb-dev.h:426` says of the section filter "Retuns zero on success, -1 otherwise";
  the remote one does not return.
- `dvb-dev-remote.c:1129` relies on "the code at the dvbv5-daemon will free the remote
  resources anyway", which a reader cancelled with `msg_mutex` prevents.
- `dvb-scan.h:72` documents `nit` as the pointer to the NIT; with `other_nit` the same field
  receives the other network's table.
- `v4lcontrol_vidioc_s_ext_ctrls()` and its siblings give the driver a list without the
  emulated controls; on the way back (`libv4lcontrol.c:950-973`) `error_idx` is raised once
  for every emulated control of the caller's list, also for those behind the one
  that failed.
- The ring buffers of `dvb-dev-remote.c` compute distances as
  `(unsigned)((write - read) % RINGBUF_SIZE)` with signed numbers (`:559`, `:577`): once the
  write position has wrapped below the read position, the result is huge.  An
  overflow (`:558`) then goes unreported, and `read_ringbuffer()` does not wait, against
  "Wait for data to arrive" (`:574`); only when all reads and writes have one size
  that divides the buffer does it not matter.

## Proofs

What is proved holds for every value of the constants that meets the assumptions
named in the modules (`StreamAssumption`, `RemoteAssumption`, `AirAssumption`,
`DevicesAssumption`, ...), and TLC evaluates those on the instances.  A condition in the
third column is a hypothesis of the theorem.

| Module | Theorem | What it establishes |
|---|---|---|
| `V4l2StreamProofs` | `TypeCorrect` | `TypeOK` |
| | `ViewCorrect` | `ViewMatchesDriver`: V4L2_STREAMON and `no_frames` are the driver's |
| | `DestinationCorrect` | `DestinationLive`: a frame is converted into live memory |
| | `ClosedUnmapped` | `NothingMappedOnceClosed` |
| | `IInvHolds` | the inductive invariant behind them |
| | `MappingsHold` | the invariant of the mappings, and of the threads that wait for a frame |
| | `ConversionReadsMapped` | `ConvertReadsMapped`, if read() and the streaming ioctls are not mixed |
| | `FrameOwned` | `FrameHasOneOwner`, if there are no streaming ioctls |
| | `MappingsFresh` | `NoStaleMapping`, if they are not mixed *or* the driver keeps buffers that are mapped |
| | `FakeMapsHaveMemory` | `FakeMapsBacked`, if S_INPUT is refused while there are buffers |
| | `FormatChangeSeen` | `FormatChangeIsSeen`, if they are not mixed *and* S_INPUT is refused |
| `V4l2SequentialProofs` | `AppBuffersSafe` | `AppBuffersKept` |
| | `QueuedBitsCorrect`, `QueuedBitsCleared`, `BuffersAccounted`, `ReadStreamRefilled` | `QueuedBitsHeld`, `QueuedOnlyWhileOn`, `NoBufferLost`, `ReadStreamFull`: one thread, STREAMON and QBUF not refused |
| `V4l2DevicesProofs` | `InvHolds` | the inductive invariant of the table |
| | `OneSlot`, `ForeignSafe`, `HeldFound`, `HeldOpen`, `CountCorrect`, `FreedOnce`, `ClosedAll` | `OneSlotPerFd`, `ForeignUntouched`, `HeldIsFound`, `HeldStaysOpen`, `CountIsHeld`, `OneFreer`, `NothingLeft`: all the run checks, and all if `Mishaps = {}` |
| `DvbSystemProofs` | `InvHolds` | the inductive invariant of client, connection and daemon |
| | `CallsImplemented` | `ImplementsCalls`: the refinement of `DvbCalls` |
| | `OneSenderHolds` | `OneSender` |
| | `OpenAtDaemonHolds` | `OpenAtDaemon` |
| | `QueueAccountedHolds` | `QueueAccounted` |
| `DvbScanProofs` | `TypeCorrect`, `IInvHolds` | types; the inductive invariant |
| | `NeverStale` | `NoStaleSection` |
| | `BuffersCorrect` | `BuffersAccounted` |
| | `TableWhole` | `TableComplete`, for `OneWord` and `EachOnce` |
| `RdsProofs` | `NamesSent` | `NameWasSent`, for `SegmentsDiffer` and `NamesListed` |
| | `TextsSent` | `TextWasSent`, for `TextsSteady`, `FlagChanges` and `TextsListed` |
| | `MessagesUnmixed` | `MessageUnmixed`, with messages of any number of groups, for `OneIndexEach` |
| `V4lControlProofs` | `TypeCorrect` | types |
| | `ValuesStaySane` | the shared memory holds zeros or values in their ranges |
| | `ValuesKept` | `KeptOnceFilled` |
| | `EnumerationCorrect` | `EnumerationWhole` |
| `RleProofs` | `IInvHolds` | the inductive invariant of both loops |
| | `RoundTrips` | `RoundTrip` |
| | `WorksInPlace` | `InPlace` |

**Stream engine.**  None of the properties is inductive.  That nothing stays mapped
after close needs that no mapping lies beyond `no_frames`, hence that `no_frames` is
the driver's count after every failed request; that the destination is live needs
that `convert_mmap_buf` has room for the present number of frames *or*, while there
are none, for the number read() will ask for, and that whoever takes it away
changes the generation.  `Sound` says so of a device, `Fits` of a thread that is away
in DQBUF, and `IInv` is `TypeOK`, `Sound` and `Fits`.  The argument follows the C code:
`Keeps(v, w)` says what a function of the library may do to a sound device; there is
one lemma per function, from `v4l2_unmap_buffers()` up; `KeepsTransitive` composes
them as the callers do; `ThreadStep` and `AtomicStep` carry the result to the other
threads.

`V4l2SequentialProofs` goes through the same functions once more.  `Tidy` says where the
buffers are between two steps of a single thread: a bit of `frame_queued` is a buffer
with the driver, there is none without a stream, and every buffer is with the driver
or the application.  While the thread holds a dequeued buffer the same is
true but for that buffer (`Holding`).  What makes it inductive is in no property: a
thread in DQBUF still serves the stream it was called for (`Serves`), and no bit is set
where frames are neither converted nor read() by the library, because a
DQBUF that is passed on clears none.  The conditions are needed: with a second
thread, or when STREAMON or QBUF is refused in the wrong place, the properties fail, as
the hazards describe.  They are those of the run `stream_sequential`.  The first
theorem needs no `Tidy` and holds for any number of threads: no function but
REQBUFS changes what the application owns (`Claimed`), and REQBUFS does so
under a new generation.

The second part of `V4l2StreamProofs` is about what a thread finds when it has `stream_lock` again.
`Steady` says what the mappings are between two calls, `Spares(v, w, S)` what a function
may do to them under a thread that waits since `v`: it has raised the
generation, or the stream is still there, with as many frames, all of its
mappings and, given the conditions below, its format, and only buffers of `S` were queued.  Again there is one lemma per
function, and `Spares` composes.  `Watch` is what a waiting thread then knows of the
device, and `Owns` that its buffer is with nobody else.  The conditions are where
the code raises no generation.  `OneUse`: the ioctls of the streaming
interface first take the stream back from read()
(`v4l2_deactivate_read_stream()`), which stops it and gives the buffers up, but only
`v4l2_check_buffer_change_ok()` raises the generation.  `~LaxInput`: `VIDIOC_S_INPUT` takes the new
input's format over, and nothing but the driver's EBUSY keeps it from doing so under a
stream.  `NoStaleMapping` needs neither if the driver refuses to free buffers
that are mapped (`~Orphans`: one without `V4L2_BUF_CAP_SUPPORTS_ORPHANED_BUFS`).

**Device table.**  The theorems assume `Mishaps = {}`: each of the four mishaps breaks one of
the properties, as shown above, and the theorems say that there is no fifth.  Opens,
dups and closes still overlap, but for those windows.  A thread *owns* a descriptor from the
kernel's open to the end of registration, and from the decision to free it to
the close (`Owning`); in between a slot is `Settled`.  The invariant says of each
thread where it is in its call (`ThreadOK`), of each descriptor that it is referred to
when it is open (`FileOK`), of each slot that its descriptor is owned or settled
(`SlotOK`), and that one thread at a time is about to write `devices_used`.  The count of a settled slot is the
number of references and of threads between lookup and count.  One lemma says
what a step that concerns one thread, one slot and one descriptor leaves alone;
each action is then a local argument.

**Remote device.**  `IInv` says: an answer exists only for a request that was carried
out, with the result it had there, wherever it is: with the serving thread, in
the connection, with the receiver, in a message, or in the hands of the caller
(`AnswersTrue`); a sequence number is given once, and requests arrive in order, so that
none is carried out twice (`NumbersUsed`, `RequestsFresh`); the client believes the
connection lost only when it is (`LossKnown`).  With it each step of the system is
shown to be one step of `DvbCalls` under the mapping of `DvbSystem`, or a stutter: one
lemma per abstract step.  The lost connection is where `DvbCalls` has to allow for most: a
call that was refused, could not send, or was woken by the disconnection returns what
`Unasked` and `Reported` say.  `OneSenderHolds` rests on `MutexTold`: as long as `dev_open()` has not
unlocked `msg_mutex` under a sending reader, the mutex tells who sends.  An unlock at
another moment finds it free, or held by nobody who still sends.

The second part of the module adds the lists.  `QInv` says that a thread's message is in the
queue from the moment it is queued to the moment it is freed, once
(`CallQueued`, `QueueDistinct`), that no two threads have one number (`Apart`), and that what
else is queued belongs to a successful open (`QueueOwned`); that at most one
request to open or close is under way (`OneAtATime`), so that what the client believes of the daemon's
descriptors can be read off the last request and its result (`AskedTrue`, `DoneTrue`,
`ListTrue`): a descriptor that was opened for a call is open at the daemon and
not yet in `open_list` (`OpenedAside`), one that was closed is not there any more
(`ClosedAway`).

**Section reader.**  `OneTable`: what is filled or held while a table is read is of that
table, because the buffers are flushed before the next filter is set.  `OnePlace`: no
buffer is in two places, which is what makes a count of buffers add up.  That a
table is whole when the read returns rests on how the reader knows: by the bits of the
extension, or, for a table with gaps and for one ts_id, by meeting the first
section again.  `Counted` says that the bits are those of the sections parsed, whichever
were lost; `Turned`, that as long as none was lost the sections parsed are those
on the air between the first one of the extension and the one to be parsed next.
The two hypotheses are about the broadcast.  `OneWord`: a table has at
most as many sections as a word of the bit field has bits, because
`is_all_bits_set()` looks at one word only, and says one number of them in all its
sections.  `EachOnce`: a section comes once in a turn, for a second
copy looks like the end of the turn.

**RDS.**  First the blocks: `Aligned` says that what `v4l2_rds_add()` has collected is the
beginning of the group on air, or of the one before it and then no block that comes
will be the next one; so the decoder is handed groups that were sent and none put
together from two, whatever was lost or spoilt.  It rests on `GapAssumption`: with four
blocks missing, a block of the next group has the number that is due.
Then one invariant for each buffer.  *Name*: `Gathered` looks at a segment at a
time; its two characters came together, and those that are marked to have come twice
are of the last list a name was heard of, since a character that differs takes the mark
from all of the name.  The name is shown when every mark is set.  *Text*: `Filled` says that
the segments up to the next one awaited are those of the last text heard, because
another flag empties the buffer (`Fresh`) and only the awaited segment is taken (`Awaited`).
*Messages*: `Assembled` says that head and data are of the message with this continuity
index, `Bounded` how many groups are still awaited, hence which block is written next:
for a message of up to four groups one of the array, for a fifth the place behind it
(`StoredTrue` says what `Store` leaves there).  The hypotheses are about the
stations and not about the decoder, and TLC finds a mixture where they are dropped (see
above): names differ in every segment; a text keeps its flag and the next one changes
it; an index is not used for two messages and is not the 0 of a reset.  `NamesListed` and
`TextsListed` say that `Names` and `Texts` hold what the lists spell.  `StationAssumption`
is what fits in the bits of a group.  All of them hold for the stations of
`MCRds`.

**Controls.**  Memory is zero until its creator has written a value, so that one out
of its range other than zero could only come from a request that was not checked;
`Checked` says that requests which wait for the driver were.  `Kept` is why a value that was
set late stays: the memory exists from then on and is not being filled in, and
nobody fills in memory that exists; so the only writes are those of requests, which
the history records.  A process whose memory is its own shares it with
nobody, for which `ProcsAssumption` keeps its name apart from that of the shared one.  The list of controls is a
recursion, each request starting from the id the last one returned; that it meets
everything once is an induction over the ids from the top: the greatest id for which
the rest of the list were wrong is that of an entry whose successor's list is
right.  The library's induction theorems take an operator, which the provers
cannot instantiate; the proof takes the greatest element of a set of naturals
instead (`LeastOf` and `GreatestId`, from `WFMin`).  `DevicesAssumption` says that a
driver's ids lie below the end of the list, as `NoMore` stands for it.

**Coder.**  The text to prove something about is what the loops have written, not the
loops: `Coded` says of words in the buffer that they are a code of a stretch of the
frame.  It marks the words where a code starts (`S`) and gives each mark its place
(`g`): how far the frame is, and how many copies of the line it is in are due.
`LineCode`, `RunCode` and `WordCode` say what leads from one mark to the next.  The
marks are witnesses in the invariant and no variables of the model: `rle_compress()`
adds one at the end (`Extends`), `rle_decompress()` takes one away in front
(`Shortens`), and `Send` moves them with the words; so no induction over the frame is
needed.  `IInv` is `Packed` before the packet is sent, `Unpacked` behind it, and `Done` at
the end.  Three things make it inductive that are in no property.

- A line code is written only when the line differs from the one after its
  repetitions, and `Packed` remembers so: hence no line is repeated while it
  waits to be copied, which `rle_decompress()`, with one `l` and one `next_line`,
  could not undo.
- The lines that are due are those of the frame just before the present one (`Waits`),
  so that decoded words, which go to the place of the *first* of those lines, are
  right there too, and the copies behind them (`EarlierLine`, `CopyStep`).  A run must then end with its line.
  `rle_compress()` lets one pass the end only of a first line of three words, where
  `i >= max - 16` wraps, and there nothing can be due.
- No code is longer than what it is for: `g[t].at - t` never shrinks along the
  marks.  Seen from the front that is why `dst` stays behind `p` while compressing; seen from the
  end, that the receiver, who has just the room that was saved, does not
  overtake what it still has to read.  A line of one or two words would break this.

`ShapeAssumption` excludes those lines, frames that are no whole number of lines and
frames of fewer than four words (see above); `CodeAssumption` says that the three codes of
`v4l-stream.h` differ as they do.

Only model-checked are the liveness properties `EveryCallReturns`, `KnownCallsReturn`,
`ScanEnds` and `ChangeShows`: fairness and ENABLED are beyond the prover.  The property of `rds_message` is
false, and so are those of the table above.  Every
invariant and every action property of the passing runs is stated by a theorem, under
the conditions the table names.

## Plan

Done: stream engine, device table, remote device and daemon, section reader, RDS
decoder, software controls, run-length coder, and the proofs above.  Left, in order:

1. Ring buffer of `dvb-dev-remote.c`: `write_ringbuffer()` and `read_ringbuffer()`
   with their signed remainders against a bounded queue.
2. CEC follower (power and deck state), libv4l1's emulated capture buffer.

## What is not modelled

`PROJECT.json` lists what is hard to test in the parts that have a model.  Known from reading,
in parts or in detail that have none:

- `dvb-dev-remote.c:552`: the signed remainders of the ring buffer (see above).  `:754`: an
  answer with the number of a call and the name of another makes the receiver free that
  message while it holds `lock_io`, which `free_msg()` takes; only a misframed stream brings
  such an answer.  `:1286`: the name of the filter command (see above).  `:1677`: `dvb_dev_remote_free()`
  cancels the receiver, which may hold `lock_io`, does not wait for it, and frees
  messages that are being waited for.
- `dvbv5-daemon.c:715`: the reading thread uses the descriptor it found after `dvb_read_mutex` was
  released, while `dev_close()` frees it.  `:718`: data that comes before `dev_open()` has entered the
  device ends the reading thread, and none is sent until the next device is opened.
  `:1405`: a second client that asks for the version becomes the one that gets the
  data, and the end of any connection closes all devices.
- `dvb-scan.c:696`: a scan that is through leaves its buffers mapped, and the next
  `dvb_v5_stream_init()` forgets where they are.
- `libv4l2.c:810`: `devices_used` is read twice in a lookup (see above).

- Pixels, JPEG, audio, and all arithmetic on samples, which is most of
  libv4lconvert and the FWHT codec; parsers of fixed layouts (descriptors, EDID,
  key maps, channel files); formatting and logging.
- Programs that only wrap ioctls, test suites, generated code, user interfaces.
  With the parsers and kernel headers they are by far the largest part of the
  repository's lines.
- Local DVB devices: the monitor thread changes the list of devices while the
  application walks it, without a lock, and there is no order of events for
  which something worth stating holds.
- Of the stream engine: the plugin interface, `VIDIOC_G/S_CTRL` and other ioctls
  that are passed on, the negotiation of a source format (a format either needs
  conversion or not), and the addresses of mappings.
- Of the remote device: start and end of the client, contents of the ring buffer,
  device change messages, a second client at the daemon, memory of the
  descriptors at the daemon, a cancelled reader that still writes `read_id`, the
  answer of a daemon of another version, what either end makes of a misframed
  stream but waiting for its end, and spurious wake-ups.
- Of the scan: memory maps of the buffers, extensions chained in other filters, the estimates of frequencies
  and the update of transponder lists.
- Of RDS: PI, PTY and the flags (decoded from one group each), alternative
  frequencies, EON, PTYN, ECC and language, clock, ODA announcements, statistics, and
  the system information of TMC; of its tuning information, what it says.
- Of the controls: the list of known cameras; rotated or mirrored lenses; the
  statistics of white balance and autogain over pixels.
