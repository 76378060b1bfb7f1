# Formal models of the L4 Linux SDK

The L4 Linux SDK lets applications on a Linux (or Windows) host use an AR8030 baseband device. This
directory models the SDK's own concurrent logic in TLA+, checks it with TLC on small instances and
proves the properties of its core with TLAPS. Paths below are relative to `src/`.

```
 application ── libar8030_client.so ──TCP── l4_daemon ──USB or UART── 8030 device
                app/ar8030                  daemon                    (firmware, not in the repository)
                          frames: com/usbpack.c        frames: com/usbpack.c, on UART with a
                                                       sync header of uart_pkt.c around them
```

- An application makes calls of `com/bb_api.h`. Each device handle, event callback, hotplug callback
  and baseband socket has a TCP connection of its own and a read thread of its own in the client.
- The daemon runs one **rpc thread** per connection. It reads frames and hands them to an *rpc node*.
- For each device the daemon keeps a **work list** of *device nodes* (`usb_event_list.c`), one per
  connection or event, served by one **send thread** (scan the list, let the first node with work
  make packets) and one **receive thread** (offer each frame of the device to the nodes, the first
  that takes it handles it).
- A **poll thread** sees devices come and go; `del_worknod` tears the list of a device down.
- rpc node and device node point at each other; each has its own lock, the list has another, and
  both threads of the device use nodes they picked after they released the lock of the list. Most of
  what is hard in this code comes from that.

## Inventory

| Component | State | Operations | What makes it correct | Modules |
|---|---|---|---|---|
| byte ring, `com/ringbuffer*.c` | array, read and write index, fill | in, in with limit, out, get, reset | a bounded FIFO whatever wraps or fills | `RingBuffer`, `Fifo` |
| frame format, `com/usbpack.c` and its receivers | receive buffer | make, unpack, resynchronise | what was made is found again, whatever the cut | `UsbPack` |
| socket transmit path, `daemon/sock_node.c`, so_write of `sock_node_rpc.c` | `buf_dev`, `buf_head_index`, `buf_wr_index`, `sock_sta`, `sock_wr_list` | store, make packet, acknowledge, rewind on "pending", report complete writes, limit | the device gets the application's byte stream; a write is reported exactly when it is acknowledged; nothing stalls | `SockStream` |
| socket lifecycle, `daemon/sock_node*.c`, `usb_event_list.c` | `sockdev`/`sockrpc` pointers, `sock_sta`, `has_opened`, `freeflag`, work list | open, close, end of the connection, free, unplug, teardown | no freed node in use; open is answered; close leaves nothing behind; a reply reaches its own node | `SockNode` |
| socket ioctls and writer thread, `sock_node_rpc.c`, `session_socket.c` | list of requests, `ioctl_act_flg`, queue of answers | request, answer, queue, flush, end | an answer reaches the call that asked; the writer thread ends | `SockIoctl` |
| event callbacks, `daemon/callback_node.c`, `app/ar8030/session_callback.c` | list of subscribers, `cb_status`, `initflag` | subscribe, join, refuse, deliver, leave, teardown | answered, and no event missed; node alive while used | `Callback` |
| ioctl path, `session_ioctl.c`, `session.c`, `daemon/normal_node.c` | `wakeup_set`, reply buffer; `reqid`, `cur_msgid`, `need_write`, `init_flg` | call, time out, send, match, return; connect, hang up, free | a call gets its own answer, the device is asked at most once, every call returns; nodes are freed once and not too early | `Ioctl`, `IoctlLife` |
| serial framing, `uart_pkt.c`, `uart_dev.c` | ring, analysis offsets, found header | read, find packet, skip, drop, hand over | frames come out as they were sent; noise costs only what it hits; the loop ends | `UartPkt` |
| serial devices, `uart_dev.c` | idle, hotplug, work and unplug lists | add, search, expire, start, unplug, free | a device is in one list; a device found is put to work; one that is gone is freed once | `UartDev` |
| USB driver, `usb_dev.c`, `dev_event_node.c` | transfers in flight, `exitflg`, alive check | scan, start, send, receive, unplug, tear down | transfers return before the device is released; a listed device has answered; teardown ends | `UsbDev` |
| rpc server, `rpc_init.c`, `rpc_dev_bind.c`, `rpc_dev_proc.c`, `hotplug_rpc.c`, `rpc_platform_ctrl.c`, client `bb_dev.c`, `session_hotplug.c` | connections and their threads, device list, ids, hotplug subscribers | accept, answer, bind, list, notify, end | requests are answered with what is; no hotplug is missed | `Server` |
| command line of a device, `rpc_cmdline.c` | clients, what was typed, two locks | type, send, count, leave, unplug | typed once and in order; no lock cycle but the known one | `CmdLine` |
| daemon start, `main.c`, `rpc_init.c`, `rpc_dev_proc.c` | list of platforms, listener | parse, listen, register, exit | early requests find what is filled in | `Startup` |
| logger, `com_log.c`, `bg_proc.c` | ring, stop flag, file | log, batch, write, close | every byte that entered is written once, in order; close returns | `BgLog` |
| client session, `ar8030.c`, `session*.c` | `handle_lk`, `wakeup_need`, `exit_flg`, lists of sessions | start, wait, wake up, close, hang up | waits end; nothing that is gone is used, but in the known ways | `Session` |
| client socket, `session_socket.c` | `rx_rb`, list of waiters, `is_opened`, `exit_flg` | open, read, write, close, ioctl | an answer completes its own call; received data is in order | `ClientSocket` |
| network tunnel, `app/tuntap/tuntap.cpp` | shared socket, handle, mutex; reader's frame state | forward, reconnect; frame, find | no closed socket is written to; packets come through whole | `TunTap`, `TunFrame` |
| firmware upgrade, `app/ota_upgrade` | partitions written, count, writer threads | verify, write, retry | one system boots at any moment; done means done | `Upgrade` |

What is hard to test is listed in `PROJECT.json` under `hazards`, each at the line where it bites,
with the properties that would catch it going wrong.

## Modules

Where the code releases a lock, or reads something without one, a model has a step boundary there
and nowhere else. For example `sock_dev_deinit` is `Deinit` and `DeinitRpc` because it takes the lock
of the socket node and then, separately, that of the rpc node. Reading a pointer and using it later
under another lock are always two steps.

| Module | Models | State and actions against the code |
|---|---|---|
| `RingBuffer` | `com/ringbuffer.c`, `ringbuffer_ext.c` | array, `read`, `write`, `data_len` as in `ringbuffer_t`; one action per call; `last` records what the call gave its caller |
| `RingBufferProofs` | theorems of `RingBuffer` | see "What is proved" |
| `Fifo`, `FifoSpec` | the same calls on a plain sequence | `FifoSpec` is the abstract queue `RingBuffer` implements (`IsFifo`); the operators of `Fifo` are what `SockStream` is built from |
| `UsbPack` | `unpack_usb_pack` and four receivers | one behaviour is about one of the read thread of a client, a socket in the daemon, the receive thread of a USB device, a datagram socket; each keeps what is left over in its own way |
| `SockStream` | so_write in the daemon | `PushData`, `SetTxLimit`: rpc thread; `NeedWrite` (without the lock), `PackMake`: send thread; `RecvAck`, `RecvPending`, `RecvLogged`: receive thread; `Dev...`, `Lose...`: device and link, external |
| `ByteStream` | the promise of the transmit path | accept, deliver the next bytes, confirm delivered bytes; `SockStream` implements it (`IsByteStream`) |
| `SockStreamProofs` | theorems of `SockStream` | see "What is proved" |
| `SockNode` | socket lifecycle | `Connect`, `Close`: application; `Rpc...`: the rpc thread up to each change of lock; `Scan`, `Recheck`, `PackMake`, `Deinit`, `DeinitRpc`: send thread; `Recv...`: receive thread; `TearDown`, `TearDownDone`: poll thread |
| `SockIoctl` | ioctls of an open socket, end to end | callers and read thread of the client; rpc thread, send, receive and writer thread of the daemon |
| `Callback` | one event and its subscribers | as `SockNode`; `Told` is `cb_rpc_cb` of the client |
| `Ioctl` | `bb_ioctl` and `bb_ioctl_ex` end to end | `Call`, `Wake`, `Timeout`, the client's read thread; `RpcRead`, `PackMake`, `PackSent`, `RecvFind`, `RecvProc`: daemon |
| `IoctlLife` | the rpc node and the node of an ioctl connection | `Start`, `Read`, `End...`: thread of the connection; `Scan`, `Again`, `PackMake`, `Deinit`: send thread; `Recv...`; `TearDown...`. Uses of freed memory are recorded by their kind |
| `NodesProofs` | theorems of `Callback` and `Ioctl` | see "What is proved" |
| `CmdLine` | the command line of a device | clients, send thread, poll thread, and the two mutexes |
| `UartPkt` | serial framing | `Read` is one `uart_data_get`; `FindPacket` has one action for each way through `uart_find_packet`, with the `ringbuffer_out` that follows |
| `UartDev` | serial devices | the four lists; the search threads, the poll thread at each change of lock, two adders of lines |
| `UsbDev` | one USB port | poll thread, send and receive thread, libusb's transfers counted by direction, the handshake of the event node |
| `DevicesProofs` | theorems of `UsbDev` and `UartDev` | see "What is proved" |
| `Server` | connections that are answered or bound | one action per request a connection sends and per answer a client reads; the poll thread with the device lock from an event to its last subscriber |
| `ServerProofs` | theorems of `Server` and `CmdLine` | see "What is proved" |
| `Startup` | options, listener, registration | `Main` in the steps in which platforms become visible; `Listener`; connections that ask meanwhile |
| `BgLog` | the logger | `Log` is `bg_write` under the mutex; the writer thread in its steps; `CloseSet`, `CloseSignal`, `CloseJoin` of `bg_close`, which takes no mutex |
| `DaemonProofs` | theorems of `SockNode`, `Startup`, `BgLog` and `IoctlLife` | see "What is proved" |
| `Session` | sessions of the client of every kind but sockets | caller, read thread, closing thread and daemon; a thread that uses what is gone goes to "fault" |
| `ClientSocket` | `session_socket.c`, `socket_fd.c`, the read thread of `ar8030.c` | `Open...`, `Close...`: the thread that opens and closes; `Write...`, `Read`, `Query...`: the other callers, one step for what is done under `somtx`; `Rd...`: the read thread; `Daemon...`: the rpc side of the daemon |
| `ClientSocketProofs` | theorems of `ClientSocket` | see "What is proved" |
| `TunTap`, `TunFrame` | the tunnel: its connection, its frames | writer and reader thread around the atomic `bb_fd`, the handle and the mutex; the reader's automaton cell by cell |
| `Upgrade` | the upgrade | what is verified; main, from the rom code to the second system; the threads that write the body of an area; what the device boots of |
| `AppsProofs` | theorems of `TunTap` and `Upgrade` | see "What is proved" |
| `MC...` | instances for TLC | a module with several parts has a variable `part`: a behaviour is of one part, the others keep a first state |

Definitions that begin with `\* Slip:` are variants of a neighbouring definition with a plausible bug
(a guard dropped, an order swapped). No specification uses them; each is there to show that a
property notices it: every property of every passing run fails for at least one of them.

### Situations chosen by a variable or a constant

`SockNode`, `Callback`, `Ioctl` and `ClientSocket` have a variable that `Init` chooses and that never
changes: how many applications, whether they may exit, whether the device may be unplugged or refuse,
and so on; `IoctlLife` has `manner`, `UsbPack` `reader`, `UsbDev` `mode`, `SockStream` `link`. One run
so covers several situations, and a property that the code keeps only in some of them says so itself:

- `InTurn` (`SockNode`): sessions on one slot and port follow each other, wait for their answer, and
  the device stays. `setup.overlap` says when a session may start: after the last one is gone
  ("never"), once its application closed it ("closing"), or at any time ("any").
- `InStep` (`Ioctl`): no earlier call of the same application timed out.
- `OneAsks` (`Callback`): the event was announced and is not refused, or has one subscriber, so that
  the command is sent once.
- `May("full")`, `May("spurious")`, `May("hangup")` and one writer or two (`ClientSocket`).
- `clash` (`Session`) is a thread that frees what another thread is about to lock.
- `Sound` (`Upgrade`) is what `do_verify_image` does not look at in an image: there is room for the
  tables, an upgraded partition has a segment, partitions are not empty and do not overlap.
- `Stale` (`UsbDev`), `Late` (`Session`), `ClockSteps` (`UartDev`) are constants, FALSE in the runs; what
  happens when they are TRUE is said under "What the code does in the situations left out".

Where the code uses memory that another thread may have freed, the model keeps the step and records
the use in a history variable (`bad` of `IoctlLife` and `Callback`, `stale` of `Server`, `stray` of
`CmdLine`, `late` of `ClientSocket`, the place "fault" elsewhere). The properties do not deny these uses:
they name every way in which the code comes to one, and say that there are no others.

## Runs

| Run | Shows | Instance |
|---|---|---|
| `MCRings` | `TypeOK`, `IsFifo`: the array code is the queue. `FramesSafe`, `LoopEnds`: serial frames come out as sent, nothing is held back, a changed cell costs at most its frame, the loop ends. `PacksArrive`: every receiver finds every pack | ring of 3 with chunks of 0 to 4 bytes and limits around the size; three frames, any cut into reads, junk before, any one cell changed, a ring of 13; three packs, cut anywhere, a writer that gives up in the middle of one |
| `MCSockStream` | stream integrity, exact completion, no acknowledgement thrown away, every byte sent, implements `ByteStream` | both links; ring of 4, packets of 2, device buffer of 3, 7 bytes in writes of 1 and 3, limits 0 and 2, 3 frames in flight |
| `MCDaemon` | `NodesSafe`, `OpenMeansOpen`, `ClosesOnlyItsOwn` of sockets; `DaemonSafe`: early requests, the log, the nodes of ioctl connections; `DaemonGoesOn`: all of these come to their end | three sessions in turn, two with exits and unplugging, two of which one opens while the other closes; two clients and each platform; a log ring of 3, lines of up to 2, batches of 2; two ioctl connections, clients that hang up at any time or a device that is unplugged |
| `MCSockNodeTearDown` | *finding*: `del_worknod` may wait for ever | two sessions, unplugging |
| `MCNodes` | `CallbacksSafe`, `SubscribersGetEvents`, `SubscribersAnswered`; `OwnAnswers`, `AskedOnce`, `CallReturns` | two subscribers of an announced event; two of `BB_EVENT_OFFLINE` with unplugging; one of an event the device may refuse; one of an announced event that may be refused or its device unplugged. Two applications with two calls; one with three and timeouts; new nodes with any message id |
| `MCClientSocket` | the session outlives its calls (but for an open or close that comes late), no reader sleeps on data, received bytes come once and in order, a lone writer gets its own results, the session ends, calls return | two readers with timeouts; a writer with timeouts and a full ring; two writers; a query beside a read and a discard; hang-ups on either side; refusals; spurious wake-ups |
| `MCDevices` | `TearDownSafe`, `ListedIsReady` of a USB port, `UartSafe` of serial lines, `DevicesGoOn` of both | two devices one after the other that answer, keep silent or hang, 2 transfers each way, found by the scan or the Java host; two lines, two adders, lines that change twice |
| `MCUsbDevScan` | *finding*: the poll thread may wait for ever | one device, pulled out |
| `MCServer` | `SubscribersServed`, `AnswersAreTrue`, `CmdLineSafe`, `ServerGoesOn` | two connections for any mix of requests, two devices, connections that hold one message before `send` blocks; two clients at a command line |
| `MCSession` | `SessionsSafe`, `SessionsEnd`, `SocketIoctls` | a subscription and an ioctl on one device; each other kind alone; two callers, one query and two opts of the device, three calls |
| `MCApps` | `TunnelSafe`, `TunnelFrames`, `UpgradeSafe`, `AppsGoOn` | a device that comes and goes four times, failing opens and writes; four packets with one loss, of four kinds: short, with sync bytes, too long, too long with sync bytes; six images, of them two unsound, devices with a rom code and without, two writer threads, three failed calls, two runs |
| `MCRingsSum` | *finding*: a packet completed by a later read is not checked | as `MCRings` |

### Bounds, and why they are enough

- `SockStream`: the ring holds two packets and is smaller than the stream, the device buffer is
  smaller than two packets, three frames fly at once. So the ring fills and empties, writes are cut,
  "pending" comes back while two later frames are still on their way, and acknowledgements of earlier
  bytes arrive after the rewind. The safety part is proved for all sizes.
- `SockNode`: three sessions are enough for an old node, a new node and one between them on one slot
  and port; a reply in flight can be overtaken by one free and one insert. Two are enough for one that
  opens while the other still closes.
- `Callback`: two subscribers are the first that is told and one that joins at any point of that; two
  events are one before and one after the answer.
- `Ioctl`: three calls are one that times out, one that takes its answer, and one after it; two ids
  make the difference between "the same request again" and "another one". `IoctlLife` needs one call
  for each of two connections: one is in use while the other ends.
- `ClientSocket`: the receive ring of 2 overflows with the 3 bytes received, reads of 1 leave data
  for the other reader, writes of 3 bytes go in two messages of at most 2. Two callers are the first
  that can steal each other's wake-up.
- `UartPkt`: the ring of 13 cells holds two frames of at most 8 and wraps in the middle of header,
  length and payload; the magic `5 4 5` begins as it ends, as the real one does.
- `UsbPack`: payloads that look like a head or an end; a buffer that fills before a pack is complete.
- `UsbDev`: two transfers are the first number of which some may be back and some not.
- `UartDev`: two lines and two adders, so that two devices are found between two looks of the poll
  thread and two threads add one name.
- `Server`: one subscriber beside one request, with a connection that is full after one message.
- `Session`: two sessions are the event and the ioctl session of one handle, which share its list.
- `Startup`: two calls see the list of platforms at two moments. `BgLog`: a ring that a line and a half fill.
- `TunFrame`, `TunTap`: a loss, a packet after it and one that must come through; eight connections
  cover every way to lose four devices. `Upgrade`: two threads are the first that race on the count.

`CHECK_DEADLOCK FALSE` stands in the runs whose actors are finite: when every application has done what
the bound allows, the system is rightly idle. `MCSockStream` checks for deadlock (an application may
always set a limit again, so this says little).

### Fairness

Weak fairness is given to every thread of the daemon, of the client library and of the two
applications that the code runs in a loop, one action per thread: a thread that can go on does; to
the device where it has something to answer; and to an application that was refused or cut off and so
closes. It is not given to an application that writes, opens, waits or listens, nor to timeouts, loss,
exits, unplugging or events. The threads block only on their list, their queue or a lock, and the
links are polled as long as the device is there. Where the link may lose frames no liveness is
claimed: the resend in `sock_node.c` is compiled out. In runs with several parts one condition often
names an action of each part: as only one part runs, it is weak fairness of that one. Two are special:
in `MCApps` the reader of the tunnel has strong fairness, for it takes the mutex in competition with
the writer, which takes it again and again; and a `GiveUp` or expiry of a search is fair where the
code sets a timeout of its own.

A liveness property of actors that only go forward (sessions, calls that are counted) is stated as
"in the end, and for good" (`<>[]`), which says of them what a leads-to for each would say.

## Disagreements between the code and what it says

1. **Teardown may not end** (`MCSockNodeTearDown`, `daemon/sock_node.c:579`). `sock_dev_cls` skips a
   node whose application already closed; that node waits for the close reply of a device that is
   gone, and `del_worknod` waits for the node, in the thread that handles hotplug.
2. **Scanning may stop** (`MCUsbDevScan`, `usb_dev.c:153`). The poll thread waits for a transfer in a
   queue that it has itself emptied, with the lock of the devices held.
3. **A packet may go unchecked** (`MCRingsSum`, `uart_pkt.c:277`). The check sum is compared only
   when header and payload are found by one call.

## What the code does in the situations left out

Each is a condition of a property, found as a counterexample without it. No doc or comment says
otherwise of these lines, or none that names them, so that they are not listed as disagreements.

Sockets and nodes in the daemon:
- An application that exits while its open is out may leave the socket open in the device; a reply that
  crosses the end of a connection may leave the node behind for ever, or be taken by the node of the
  next session on the slot and port, which is then freed or told of a close (`sock_node.c:232`, `:299`).
- The receive thread marks a socket node and then wakes the send thread up through it
  (`base_node.c:66-70`); the send thread may have freed it (`RecvNotify`; `NodesSafe` leaves out this use).
  The same call does so for the nodes of ioctls, of events and of the command line.
- A client that hangs up while its ioctl is out may have its node freed under the receive thread, under
  its own `bn_set_free`, or while it is listed (`usb_event_list.c:173` looks at the flag a second time);
  the reply may go to an rpc node that is gone; and of a device that is unplugged descriptors are
  closed twice, by then perhaps another connection's (`LifeSafe`).
- An event may be sent before the answer to the subscription (`callback_node.c:328`), which the client
  takes for the answer; two subscribers of an event the device did not announce may both have it
  subscribed; a refusal or unplugging may free a node that a subscriber is about to use: one that
  found it before and attaches after (`late`), one that looks at it again after it left, and the two
  threads of the device (`NodesKept`).
- The answer to an ioctl that timed out is returned by the next call (`session_ioctl.c:22`).
- Two callers of one opt of a socket get one answer; a connection that hangs up with ioctls at the
  device has their answers go to a node that is gone; `SET_TX_LIMIT` carries no limit, and the daemon
  reads it from a null pointer (`session_socket.c:671`, `sock_node_rpc.c:119`).
- `wr_thread` may miss `workflg` and its signal, and the rpc thread then waits for it for ever.

Client:
- `SelfDeadlock`: the application closes while the read thread handles a message; the thread then
  leaves its loop at `ar8030.c:64` with `handle_lk` held and takes it again at `:131`.
- `LockCycle`, `Embrace`: the daemon hangs up while the application closes; the two threads take
  `handle_lk` and the mutex of the session in opposite orders.
- `LostWakeup`, `LostBroadcast`, `Missed`: `bs_deinit` signals without the mutex; a session whose read
  thread ended before it was registered waits for ever.
- An ioctl session that ends writes to a device handle that `bb_dev_close` has freed; a platform
  request is signalled on the stack of a caller that has returned; hotplug callbacks are removed while
  their read threads free them. With `Late`, an answer that comes after the timeout of a subscription does the same.
- A write of which the daemon's full ring took nothing is answered with 0, which `_bb_socket_write`
  takes for "no answer yet" (`session_socket.c:367`); any so_write reply ends every write in progress
  (`:329`); a call that has looked its session up but not yet locked it may use it after it was freed;
  an open or close that comes while `so_deinit` is between its last look at the list of who waits (`:130`)
  and the freeing (`:144`) joins a list nobody looks at any more and has the session freed under it;
  a spurious wake-up counts as a successful open.
- An empty datagram puts `bb_socket_read` to sleep; a datagram written in part is reported whole;
  a payload that contains a whole pack may be taken for one while the pack around it is incomplete.

Server, devices, start and log:
- `bb_dev_open` succeeds for an id the daemon does not have: the refusal has the reqid that is taken
  for success (`bb_dev.c:306`). A list may hold ids nobody wrote if a device went away while it was made.
- A device that goes while a connection binds to it leaves the connection with a freed list, and a
  serial number is read from a device that was freed; only connections that had looked it up when it
  went are affected (`held` of `Server`).
- Nothing keeps the node of a command line alive for a client that has found it and not joined
  (`rpc_cmdline.c:266`), or that leaves and has only read its pointer (`:303`), nor for the receive thread;
  and if it is marked between the two looks of the send thread (`usb_event_list.c:173`) it is freed in
  the list (`held` and `stray` of `CmdLine`).
- While the list of a USB device ends, its receptions are submitted again: `usb_rd_cb` looks at all
  bits of `running`, of which only `run_dev` is cleared. They come back when they are cancelled.
- With `Stale`, a device that keeps the answer to an earlier handshake is listed without one of its own.
- Of two serial devices found between two looks of the poll thread one is never announced (`uart_dev.c:757`).
- With `ClockSteps`, a serial device may be timed out while it is started (`uart_dev.c:357`); the poll
  thread then clears `offline_flg` as it gives the id (`:538`), and a second time-out puts the device back
  into the list it was taken from to be freed.
- A client that types while the device goes may wait for `del_worknod`, which waits for it
  (`rpc_cmdline.c:289`); the number of clients may be told wrong if it changes as it is told (`:158`).
- A request that comes while the USB platform is registered, or after libusb failed, ends the daemon
  (`usb_dev.c:839`). One failing `accept` ends the listener for good (`rpc_init.c:168`).
- `bg_close` may miss the log thread between its look and its wait, and never return; with a log file
  and a failing standard output `fwrite` is given a length of -1 (`com_log.c:129`).

Applications:
- A length of 0, read after a loss or in a packet that is too long and holds sync bytes, makes the
  reader of the tunnel write past its buffer (`tuntap.cpp:735`) and find no packet any more; sync bytes in
  packets may make it take several packets nobody sent after a loss. The checksum of a frame is never
  looked at.
- The rom code is written over the one in use, before anything else (`ota_upgrade.c:600`): a call that
  fails there leaves a device that may not boot. A rom code of another length moves the tables, and an
  image without one puts them over that of a device that has one. The length may be up to 0x8000
  (`chk.c:150`), with which the tables reach into the partitions.
- A running system that could not be read is guessed, and the upgrade may then overwrite the one that runs.

## What is proved

`RingBufferProofs` proves about `RingBuffer`, for every ring of at least one byte, every finite chunk
and all limits and counts that are naturals:

| Theorem | States |
|---|---|
| `TypeCorrect` | `Spec => []TypeOK`: `read`, `write` and `data_len` stay in the array and agree |
| `RingIsFifo` | `Spec => IsFifo`: every call on the array is the call on a plain queue |

The argument. `TypeOK` is inductive: lemma `Wrap` shows that no index goes round more than once in a
call, which is why one subtraction stands for the remainder. `Content` is the stored bytes read from
`read` on; `InFacts` and `OutFacts` say that `ringbuffer_in` appends the chunk to it, or refuses, or
keeps what fits, and that `ringbuffer_out` and the peeks return its front. `PutStep`, `TakeStep` and
`LookStep` turn them into steps of `FifoSpec`, together `StepSimulation`.

`SockStreamProofs` proves about `SockStream`, for every value of its constants that the assumptions
allow (payloads are non-empty sequences of bytes; ring, packet and device buffer sizes are positive;
limits and bounds are naturals; any set of links, with loss or without):

| Theorem | States |
|---|---|
| `Inductive` | `IInv /\ [Next]_vars => IInv'` |
| `Invariant` | `Spec => []IInv` |
| `TypeCorrect` | `Spec => []TypeOK`: positions never go negative, the ring never overfills |
| `StreamIntact` | `Spec => []StreamIntegrity`: what the device has is a prefix of what was accepted |
| `CompletionExact` | `Spec => []CompletedExactly`: reported exactly when acknowledged |
| `Refinement` | `Spec => IsByteStream` |
| `AcksInWindow` | `Spec => []AckInWindow`: no genuine acknowledgement is thrown away where nothing is lost |

The argument. `StreamIntegrity` alone is not inductive: a frame in flight could carry wrong bytes.
`IInv` adds what ties the parts together by *stream position*. `RingInv`: the ring holds the accepted
bytes from `buf_head_index` on, and its end is `wr_cur_ptr`. `FrameInv`: each frame on its way
carries the accepted bytes of its position; accepted bytes never change, so frames stay right while
the ring moves under them. `AckInv`: only transmitted bytes are acknowledged, so a head that follows
an acknowledgement is at or below `devSent`, and the device takes a frame only at its own position.
`WriteInv`: the outstanding writes tile the stream up to `wr_cur_ptr`; with it, the writes
`check_send_cpl_ptr` removes are exactly those that end at or below the head. No relation between
`buf_head_index` and `buf_wr_index` is needed, so a rewind cannot break the argument, and neither can
loss. For the refinement each step maps to `Accept`, `Deliver`, `Confirm` or a stutter, from `IInv`
before and after. The lemmas `TakenFacts`, `PushedFacts`, `DroppedFacts` and `PeekedFacts` say what
the ring calls do to a sequence.

`AckInWindow` needs the order of what is on its way, `WindowInv`. `AckOrder`: the acknowledgements in
`fromDev` never go back, and none is below `buf_head_index`. `FlightInv`, where nothing is lost: while
a "pending" is on its way every frame in flight is one the device will refuse, and it rewinds to where
the device is; otherwise the frames it will refuse come first and then, one after the other up to
`buf_wr_index`, those it waits for. So no rewind goes below what is still to be acknowledged. Each has
a lemma for a reply that is taken from the queue and one for a reply that is put into it.

`DaemonProofs` proves about `SockNode`, for any set of connections and any device, and about `Startup`,
`BgLog` and `IoctlLife`, for any finite set of clients, any sizes of ring, batch and line and all bounds,
in the specification `MCDaemon` checks:

| Theorem | States |
|---|---|
| `Nodes` | `Spec => []NodesSafe`: the types; while sessions take turns no thread holds a node that was freed, but for the wake-up in `bn_set_free` |
| `Opened` | `Spec => []OpenMeansOpen`: if a session starts only after the last one is gone, a socket reported open is open |
| `ClosesOwn` | `Spec => ClosesOnlyItsOwn`: however sessions overlap, a node in use is marked only while another one waits for its own reply to so_close |
| `Daemon` | `PartsSpec => []DaemonSafe`: early requests, the log, the nodes of ioctl connections |

None of them has a hypothesis: `NodesSafe` and `OpenMeansOpen` say themselves of which choices of `setup`
they speak. `ClosesOnlyItsOwn` speaks of all: the device names a socket by slot and port only, so a reply
for one session may be taken by the node of another, and the theorem says when.

The argument. `SerialInv`: all sessions but one have not come or have gone. `AppsInv` and `NodesInv` tie
an application to its connection and a connection to its node; a node is marked to be freed only after
its connection ended. `HandsInv`: what the send thread and the receive thread hold is live. `CloseInv`:
a so_close is sent once, nothing follows it in either queue, and the node that sent it stays until its
reply came; so a reply to so_close finds the node that waits for it. `OpenInv`: the device says "opened"
at most once, and a node that was told has the device's socket. These hold with exits and until the
device is unplugged. While sessions also wait for their answers, `OneInv` to `OwnedInv` say that one
packet is on its way, that it is the one the application waits for, and that an open socket of the
device has an owner. `OwnInv` holds however sessions overlap: of so_close and its replies there are at
most as many under way as nodes that wait for one (`CountInv`), so that whoever is handed such a reply
takes it from a node that waits.

`Daemon` has no hypothesis; its invariant has one part for each component. `StartInv`: the list of
platforms and what is set of each follow from the place of the main thread, and a client is past its
connect only after there was a listener, that is, after the options were read. `LogInv`: what was
written, the batch that is being written and the ring are each in order and come one after the other,
all of lines that were counted, and together with what was lost they are as many bytes as entered.
`LifeInv`: whatever clients and the device do, the thread of a connection reads its node only before it
marks it, a node is freed only when marked, and by the send thread alone; a descriptor in use belongs to
one connection that is not through, which, as there are as many descriptors as clients, leaves one free
for the next. If the device stays, that connection also still has it (`StayInv`), so that none is closed
twice. If clients wait as well, `CallInv` says that a call is in one place, from the flag in the node over
the device to the receive thread, and that its client waits in it and the thread of its connection reads:
so nothing on the way of a call meets a node that is marked.

`ClientSocketProofs` proves about `ClientSocket`, for any threads (finitely many writers), any sizes of
buffer and message, and every choice of hang-ups, refusals, spurious wake-ups and a full ring:

| Theorem | States |
|---|---|
| `SessionIsSafe` | `Spec => []SessionSafe`: the session is not freed under a call that waits, but for an open or close that comes late |
| `ReadersWake` | `Spec => []NoReaderAsleepOnData` |
| `Results` | `Spec => []OwnResults`: bytes in order and each once; a call's own result |

The argument. `WaitingInv`: who waits is on the list of the session, and the session is live while the
list has someone or `bb_socket_close` has its lock, unless the one that opens and closes came after
`so_deinit` had last looked at the list (`late`); `SleepInv`: a reader sleeps on an empty buffer, as
the read thread wakes all of them in the step that stores. For the bytes, `BytesInv` orders three
places: what was read, stored or dropped, then what the read thread has in its buffer, then what is on
the way, without gaps and up to the last byte the daemon sent; a step only moves bytes from one place
to the next. For the results, `OpenedInv` and `MessagesInv` say that the daemon did what it says it did.
For a lone writer `UnderWayInv` says that, while no message of it timed out, at most one thing is under
way (the message, the debt of the daemon, or its answer) and is of the message the writer waits for;
`NumbersInv` orders the numbers of messages; `SettledInv` keeps what has ended with its own result
settled, also after a later message timed out, when `UnderWayInv` no longer says anything.

`DevicesProofs` proves about `UsbDev`, for any number of transfers in each direction, and about `UartDev`,
for any lines and any number of devices, in the specification `MCDevices` checks:

| Theorem | States |
|---|---|
| `Invariant` | `Spec => []IInv` |
| `TearDown` | `Spec => []TearDownSafe`: no transfer is out when the device is released |
| `ListedReady` | `Spec => []ListedIsReady`, if no answer to an earlier handshake is left in the device |
| `SerialSafe` | `PartsSpec => []UartSafe`, if the clock does not jump while the poll thread starts a device |

`TransferInv` counts every transfer in exactly one place, also while the list of the device ends and
receptions are still submitted again; `PhaseInv` and `StepsInv` say what exists at
each place of the poll thread, `ToldInv` what the last event said. `ListedReady` adds `OrderInv`: before
`init_seq` is "get_len", and while the send thread is about to set it to "keep_alive" from what it read
before, no query of the length and no answer to one is anywhere; so the receive thread cannot finish
the handshake in between and have it set back behind a device that is listed. Its hypothesis
`~ Stale` leaves out a device that keeps an answer of an earlier handshake; with it the property is
false.

For the serial lines, `UartInv`. `HeadsInv` and `MemberInv`: a device is at most once in the four lists, in
the one its `usta` names; `DevOf` says for each value of `usta` what a device has and where it may be
instead (overtaken, freed, in the hands of the poll thread). `IdsInv` counts the devices that were given
an id, so that the next id is new. `CurInv`: the device being started is the last of those at work, which
is why the search from the front finds the announced device and never this one, whose id is still 0.
`SaidInv` and `TurnInv`: an id is announced except between `PollId` and `PollTell`, and withdrawn only after
its device was freed. The hypothesis `~ ClockSteps` keeps the time-out of a device from moving it to
another list while it is started (see "What the code does in the situations left out").

`AppsProofs` proves about `TunTap`, for any bound on the number of connections, that neither thread
uses a socket that was closed or closes a handle twice; and about `Upgrade`, for any images, sizes of
blocks and writes, number of threads, failed calls and runs, in the specification `MCApps` checks:

| Theorem | States |
|---|---|
| `Tunnel` | `Spec => []TunnelSafe` |
| `Upgrade` | `PartsSpec => []UpgradeSafe`: with a sound image a system boots at any moment but in the named cases, and done means done |

For the tunnel: all connections but the newest were given back (`ConnInv`); `UsingInv` and `MakingInv` say what `bb_fd`,
`pdev` and the newest connection are at each place of the reader; `WriterInv`: as the writer holds the
mutex while it uses what it read from `bb_fd`, and the reader needs it to reset `bb_fd`, the writer's
descriptor is that of the newest connection, and nobody else resets it meanwhile.

`Upgrade` has no hypothesis; `UpgradeSafe` speaks of images that are `Sound`, which the program does not
check: it only sees that a segment lies in some partition; with overlapping ones that need not be the
partition it begins. An image that is verified and not sound (the run has two) may be written over
itself.

The argument for the upgrade, `UpInv`. `RomInv`: the rom code is written before anything else, and in
full when something else is. `TodoInv`: the partitions before those still left are ready, that is
written in full or not to be upgraded, and the system that runs, unless it was guessed, comes after the
other one. So what is written belongs to the other system, or that one is ready (`BootInv`); and when
nothing is left all is written. `FlashInv`: only what was verified and fits is written, and in its bounds,
for which `CountsInv` is needed. The threads share a counter without a lock, so its value says little;
but it is never too high: it, or a value a thread has read and is about to store, together with what all
threads have still to write (`Remaining`) and what main has kept back is at most the length of the
partition, as what a thread adds leaves what remains in the same step. A lost count makes the rest go to
a wrong place within the partition, which the check sum then notices.

`NodesProofs` proves about `Callback` and `Ioctl`, for any applications, nodes, request ids, events and
calls; the specification is the one `MCNodes` checks:

| Theorem | States |
|---|---|
| `OwnAnswersHolds` | `PartsSpec => []OwnAnswers`: as long as no call of it timed out, an application gets the answer to its own call |
| `AskedOnceHolds` | `PartsSpec => []AskedOnce`: the device is asked each call at most once, whatever times out |
| `CallbacksSafeHolds` | `PartsSpec => []CallbacksSafe`: a connection in time keeps its node; a freed one is used in the named ways only; if the command is sent once, no reply is taken for an event |
| `SubscribersGetEventsHold` | `PartsSpec => []SubscribersGetEvents`: if the command is sent once, who was told that it is subscribed is |

None has a hypothesis. What needs that the command is sent once (`OneAsks`) says so; two subscribers of
an event that was not announced may both send it, and an event may then be lost or taken for a reply.

The argument for the ioctl path, `IoctlInv`. `OrderInv` lines up the calls of an application: those on
its connection come after the one its node has, and that after those the device was asked, so that each
is asked once (`OnceInv`), also when a call timed out and its answer is still out. `IdsInv`: no two
nodes wait for one message id, so that `RecvFind` finds the node that asked. `FlowInv`: as long as no
call timed out, the call an application waits for is in exactly one place, counted over the connection,
the node, the way to the device, the device and the way back; so what comes back is its answer. For
the event callbacks, `BasicInv`, of every setup: the list has one node at most, and what a connection or
thread has is that node (`CbLinks`); a node is marked before it is freed, and not while a connection is
attached that came in time (`KeptInv`). `CbInv`, where the command is sent once: as many commands and replies are on their way as the node waits for (`CountInv`,
`RecvInv`), which is why an event is not taken for a reply; who was told that it is subscribed is in the
node's list, which is in the state in which it hands events on (`SubsInv`).

`ServerProofs` proves about `Server` and `CmdLine`, for any connections, requests they may send, devices,
calls, clients and cells typed; the specification is the one `MCServer` checks:

| Theorem | States |
|---|---|
| `SubscribersServedHolds` | `PartsSpec => []SubscribersServed`: every event from the subscription on, in order, none twice |
| `AnswersAreTrueHolds` | `PartsSpec => []AnswersAreTrue`: lists are what was the case; a device that is gone is used only by who had looked it up when it went |
| `CmdLineSafeHolds` | `PartsSpec => []CmdLineSafe`: typed once and in order; a node that is gone is used only by who had it in hand without a mutex when it let its clients go |

None has a hypothesis.

The argument for the server, `ServerInv`. What a subscriber has been sent (`Said`: received, then on the
way) consists of events about ids given out before, where no device that is said to have gone is in the
list, and of at most one answer, which is there only until it is received (`ToldOf`). So the event of a
device that comes (a new id) or goes (an id in the list) is in nobody's `Said`, and stays out of it until
it is sent, which is why none is sent twice. What a subscriber had to get is the end of its `Said`, or
that with the event still to be sent to it: `left` is a copy of the list of subscribers without
repetition, and the lock kept from `Check` to the last `SendEvent` keeps the list as it is (`HotInv`).
`ListOf` carries a list that was counted to where it is sent: only a device that went in between makes
the count too large, and who uses a device that is gone had looked it up when it went. Of the command
line, `LineInv`: a client points to the node exactly while it is in its list or has just left that
(`HeldInv`), and once a node that was taken from the list has let its clients go, who points to it did so
then (`FreedInv`); `CellsInv` that what was typed is at the device or waits, in rising
order.

The assumptions are the `ASSUME`s of the modules proved about, which TLC evaluates in the runs: sizes
are positive, bounds are naturals, the situations offered are of their type, the sets of writers and of
the clients of the daemon are finite. Only `Daemon` uses the size of such a set, to find a free descriptor.

Only model-checked: the modules not named above, and what runs check of the modules above that is not
in the tables. `SessionsSafe` is an invariant the prover could reach. `FramesSafe`,
`PacksArrive` and `TunnelFrames` are about what a parser does with every input, which takes induction
over data. Out of the prover's reach: liveness under
fairness (`EveryByteAcked`, `DaemonGoesOn`, `SubscribersAnswered`, `CallReturns`, `SessionAndCallsEnd`,
`DevicesGoOn`, `ServerGoesOn`, `SessionsEnd`, `SocketIoctls`, `AppsGoOn`, `LoopEnds`, `KeepsScanning`,
`TearDownEnds`), `ENABLED`, and what a fold such as the check sum computes for every input.

## What is not modelled, and why

- *Nothing to model*: helpers and tables (`ioctl_tab.c`, `timspec_helper.c`, `list.h`,
  `socketfd_port.c`, the types of `bb_api.h`), the debug shell `app/cmd_dbg`, the examples, build
  scripts and third-party packages: sequential, or without state, or not this project's code.
- *Left out of a component*: `rpc_close_listen`, local sockets and the mode for Android, which nothing
  in the tree calls; running a command on the daemon (`daemon_exec`, `session_exec.c`) and the debug
  switch; what a device writes to its command line, which is passed on as it comes; the event node of a
  device after its handshake (keep-alive); the Windows back ends; arguments of the applications;
  partitions of several segments; the text of log lines.
- *Abstracted*: memory is "live" or "freed", never reused; descriptors are reused only in `IoctlLife`;
  64-bit stream positions do not wrap; TCP delivers in order; the send thread's wake-up and its 100 ms
  timeout are left out, so that a send thread with work goes on. Allocations succeed. The device is
  external: it answers as the handlers in `daemon/` expect, and may refuse, keep silent, buffer less
  than it is sent, or be unplugged.

## Plan

1. Theorems: `SessionsSafe`.
2. Compositions: the client's socket over `ByteStream` in place of the daemon; the callbacks, sockets
   and ioctls of one work list together, for starvation; `Server` with `UsbDev` in place of its list.
3. The keep-alive of the event node with the send thread's timeout.
