# Formal models of the lexus-kernal-source drivers

The repository holds three Linux kernel drivers of an in-vehicle computer and a
large set of third-party source packages. This directory models the drivers'
own logic in TLA+, checks it with TLC and proves the parts that matter most with
TLAPS. Every definition is translated from the C code; `PROJECT.json` gives the
lines for each.

## Inventory

| Component | Source | State | Operations |
|---|---|---|---|
| `bt_hci` ACL write | `BT/bt_hci.c` 942-1183 | `limit_sem`, `io_mutex_acl_w`, `submitted` anchor, `bulk_write_errors`, `bulk_out_completion`, one URB and buffer per write | write(2), URB callback |
| `bt_hci` ACL read | 412-447, 488-735 | one URB and buffer, `bulk_in_filled/copied`, `ongoing_read_bulk`, `bulk_read_errors`, `bulk_in_completion`, `io_mutex_acl_r` | read(2), callback |
| `bt_hci` event read | 449-486, 737-939 | the same for the interrupt endpoint, under `io_mutex` | read(2), callback |
| `bt_hci` lifecycle | 127-360, 1313-1630 | `kref`, `open_count`, interface pointer, intfdata, minor, autopm count | probe, open, release, disconnect, suspend, resume, pre/post reset |
| `bt_hci` command write | 1191-1291 | the interface pointer, under `devinfo_lock` | one synchronous control message per write(2) |
| `triton_ep` mailbox | `PF/pcie/.../triton_ep.c` 72-342, 400-426, 971-998 | seven admin words and two slots in memory shared with the M3, `data_readable`, `write_complete` | read, write, poll, `SHM_GET_LEN`, `SHM_WRITE`, MSI handler |
| `triton_ep` device | 635-840, 1022-1215 | `dev_open`, `open_count`, irq, cdev, regions | open, release, mmap, probe, remove, ioctl dispatch |
| shared memory manager | `pciex_manageshm.c` | one request packet, device status | seven requests to the peer; local operations on segments |
| `ioh_video_in` capture | `ioh_video_in.c` | capture flags, descriptor ring, frame buffers, registers, selected input | probe, remove, open, close, streamon, streamoff, s_input, dqbuf, interrupt, DMA callback |
| `ioh_video_in` buffer queue | 1497-1604 | `vidq_active` | reqbufs, qbuf, videobuf callbacks |

How they interact. The user calls a driver through a file; the USB core (or the
PCI core, the DMA driver, the M3 processor) calls it back, in interrupt context,
and removes the device under it. Nothing is persistent. In `bt_hci` the five paths
share one `struct usb_bt_hci`: opens re-initialise the completions the other paths
sleep on, a reset writes all three error fields, a disconnect clears the interface
pointer every path tests. In the PCIe driver one end of a mailbox has no lock and
the other end is a different processor; the mailbox and the shared memory manager
are reached through one file, whose open has to have set up the interrupt. In the
capture driver a system call, the video interrupt and the DMA callback start and
stop the same DMA channel through five shared flags.

What is hard is the interleaving: flags tested under a lock and acted on after it
(`ongoing_read_bulk`), one completion shared by all sleepers, error exits taken
after ownership has moved, two mutexes or none for one counter, resets and
disconnects in the middle of all this, a late answer after a timeout, a ring in
which the reader and the DMA engine must not meet. `PROJECT.json` "hazards" lists
each one at its line, with the properties that watch it.

What makes each component correct:

- write: a URB and its buffer have one owner and are freed once; permits of the
  semaphore add up; a waiting writer is woken; disconnect ends.
- read: the byte counters never wrap, the flag always belongs to a URB, the URB is
  submitted once at a time, unread data survive, a sleeper is woken, a reset's
  notice is delivered.
- lifecycle and commands: the reference count is the number of holders, nobody
  uses a freed structure, not even a command that outlives the disconnect, the open
  count is the number of openers, disconnect ends and the structure is freed.
- mailbox: a write that succeeds was taken by the M3; answers and notices are not
  lost; a message is not overwritten while it is read; altogether, a pair of
  channels with room for one message each.
- PCIe device: an open file finds the device set up; the open count is the
  number of open files; probe and remove give back what was acquired.
- shared memory manager: a request is taken whole, and its caller reads back its
  own words or the answer to them.
- capture: DMA runs only on what is allocated; the frame handed out is whole and
  not the one being written; descriptors fit the lines sent; a capture resumes
  after an overflow; everything acquired is given back.

## Modules

| Module | Models | Runs |
|---|---|---|
| `BtHciWrite` | ACL write path | `bt_write`, `bt_write_live`, `bt_write_free` |
| `BtHciReadBulk` | ACL read path | `bt_read_bulk`, `bt_read_drop` |
| `BtHciReadInt` | event read path | `bt_read_int` |
| `BtHciLifecycle` | probe, open, release, commands, disconnect | `bt_life`, `bt_life_count` |
| `SharedDevice` | abstract specification: the lifetime of the device structure | refined in `bt_life` |
| `TritonMailbox` | mailbox of `triton_ep` | `triton_mailbox`, `triton_late` |
| `MailboxChannel` | abstract specification: two channels of one message | refined in `triton_mailbox` |
| `PciexShm` | requests to the peer and the packet they share | in `TritonDevice` |
| `TritonDevice` | probe, remove, open, release; composes `PciexShm`, whose calls need an open file | `triton_device` |
| `IohVideoIn` | the capture driver | `video` |
| `BtHciWriteProofs`, `BtHciReadBulkProofs`, `BtHciReadIntProofs`, `BtHciLifecycleProofs`, `TritonMailboxProofs`, `TritonDeviceProofs`, `IohVideoInProofs` | theorems about the module of that name | |

`MC<module>` instantiates a module for TLC. Operators named `Faulty...` are seeded
faults: each stands before the definition it can replace and is the sort of slip
that code invites; every property of a passing run is violated when its fault is
put in ("mutants" in `PROJECT.json`).

### Correspondence with the code

A thread inside a driver function has a program counter `pc[t]`; each value is a
stretch of the function between two points where another thread, the callback or
the core can act. A stretch under a spinlock is one action; a stretch under a
mutex is split wherever the callback, which does not take the mutex, could act.
The local variables that outlive a stretch are in the state (`urb`, `nonblock`,
`seen`, `live`, `msg`). A flag that a call looks at once, as `read_int` does at
`O_NONBLOCK`, is a choice at that place.

*Completions.* `done` is the counter of the kernel's completion.
`init_completion` on a completion in use resets the counter and the list head;
a thread asleep then hangs on a list nobody walks. The models keep such threads
in `orphans`. Only a signal gets them out.

*The USB core* is external. It takes a reference when it accepts a URB, unanchors
it before the callback and drops the reference after it; it refuses a URB that
is active, being killed, or whose endpoint is disabled. Before `disconnect` it
disables the endpoints, which gives every URB back.
System suspend freezes all tasks first, so no reader is inside the driver;
killing the URB records an error and completes. For the write path that is
`CallbackStatus`, which covers a killed URB as well as a finished one.

*BtHciWrite.* One URB and its coherent buffer are allocated per write. The
callback's three effects (status; free and up; complete) are separate actions.
`late` remembers the URBs whose writer took the label `error` after the core had
accepted the URB: their accounts are known to be wrong (`bt_write_free`),
and the other invariants say that this exit is the only thing
that upsets them.

*BtHciReadBulk, BtHciReadInt.* Data are their lengths. `available` is the
difference of two `size_t` and wraps. The two paths differ in their locks:
`read_bulk` drops `err_lock` between testing and using `ongoing_read_bulk` and shares
no mutex with `draw_down`; `read_int` holds `io_mutex`, which a reset takes too.
`leftBehind` remembers that a read went on with its URB active: a non-blocking or
interrupted one, or one whose wait consumed the completion that an interrupted read
had left counted. The last was found by the proof of `EventKeptIntact`: without it
the invariant is not inductive, and false from the third transfer on. The event that
then arrives between the test of `int_in_filled` (800) and that of
`ongoing_read_int` (802) is overwritten. The reads are `Quiet` while none has done so
and neither a reset nor an HCI open came between them. `handed` counts the bytes of the
event that callers have got, so that dropping the rest of an event after a partial read
shows. A failing `copy_to_user` is an action of its own (`DeliverFault`): it gives the caller
nothing and moves the counters all the same; `faulted` remembers it.

*BtHciLifecycle.* `open_count` is updated by a load and a store, under whichever
of two mutexes fits the file. `kinds` remembers what kinds of files were opened;
the count is right while there is one kind. The read-write semaphore of the USB
minor table is `OpensDrained` (disconnect waits for opens) and the guard of
`StartOpen` (a waiting writer keeps new opens out). After a complete disconnect
the device may be probed again. A command (`bt_hci_int_write`) takes no mutex and
holds no URB the driver knows of: it tests the interface pointer once, and may then
stay in `usb_control_msg` until its timeout while the device is disconnected; the
reference its file owns is all that keeps the structure. Its early returns change
nothing and are steps that leave everything as it is.

*SharedDevice.* What the driver promises of its structure: it exists as long as the
driver is bound or a file has a pointer to it, and not longer. It knows neither of
`kref` nor of the semaphore of the minor table. In the mapping (`Device`) a file is a
user from the moment it has looked the structure up, which is before it takes its
reference, until its `kref_put`; a URB under way is `busy`, since its callback has the
pointer too.

*TritonMailbox.* A message is its number; a length word holds the number of the
message whose length it is, so taking a message with another's length shows. The
M3's firmware is not in the repository; `M3Answer` and `M3Send` do what the driver's
handling of the words supposes. MSIs are not counted: two may become one. A poll
that finds nothing changes nothing and has no action. `SHM_WRITE` copies into the
slot of the mailbox before it fails, so it overwrites whatever is being sent.
`orderly` remembers which direction has so far been used as the mailbox needs it:
writes one at a time, without timeouts and without `SHM_WRITE`; reads by one thread
at a time, after a POLLIN.

*MailboxChannel.* What the mailbox promises: down, a message is offered, taken by
the M3, and only then does the write succeed; up, a message is put, got once, and
only then replaced. `kept` is the set of directions used in order; a direction that
is not may do anything, and must leave the other alone. The mapping in
`TritonMailbox` (`Channel`) takes the message of the writer that waits as the offer
and, for the up channel, the message in the slot as long as the slot is not the M3's
again.

*PciexShm.* What matters of a packet is who wrote each word. The seven requests are
members of a union, so the return code of one lies on an argument of another;
`Message` gives their shapes. `pciex_issue_req` rings the doorbell and returns, for the
wait is commented out: the caller then reads back whatever is in the packet. The
address in it is rebased in place, before or after the peer has written its own
offset, so the address returned is the sum, or the offset, or the caller's own word.
The doorbell `msi[0]` is the first word of the admin region (`triton_ep.c` 1110, `pciex.h`
464), the mailbox's `admin[0]`, and read and write set it to the same value (193, 249).
`doorbell` says who has set it; the peer cannot tell, so on any ring it takes what is in the
packet, an old request or half a new one (`MailboxRings`, `PeerTakes`), and answers it in
the packet, the return code last. `clash` remembers a request that was begun before the
last one was over, and a ring of the mailbox while a request was being written.
(In `TritonMailbox` a ring by somebody else is there already: that of the other thread.)

*TritonDevice.* `held` is what has been acquired and not given back, step by step of
the ladder in probe; `excess` is what was given back without being held. `open_count`
is unsigned: `UintMax` stands for 2^32-1 and the decrement wraps. An open is a test, a
request of the interrupt, the initialisation of the wait queue, and an unlocked
load and store of the count. `overlap` remembers opens or releases that ran into
each other, `stuck` an open that failed and stays counted. A probe that fails in
`pci_enable_msi` returns 1, which the PCI core takes for success: `binding = "ghost"`.
`Remove` may come at any time, for an open file pins the module and not the device; the
files, the calls and the two variables stay as they are. What such a file does afterwards
goes through freed memory and is undefined: the model lets it go on with what the memory
held, `pulled` remembers it, and only `CountIsFiles` says anything of it. `pulled` lasts
until a device is probed with no file, call or count left, which after an unbind in use
takes a reload of the module (`Reload`). Every open file may use the mailbox (`Mailbox`), for
read and write go through `g_tdev`; a request needs `private_data`.

*IohVideoIn.* Three parties: one system call at a time (`s_mutex`), the video
interrupt and the DMA callback. Each has its place (`proc`, `isr`, `cb`), and a step of
it ends where another party's step could make a difference. The ring and the frame
the DMA channel works on are external state, moved by `FrameDone`; the callback of a
frame is assumed to be done before the next frame is (16 ms or more). Frame
contents are reduced to `torn`, the frames that are not whole. `orderly` remembers the
ways in which the driver was used plainly: captures started and stopped in turn
("stream"), no handler running when one was stopped ("stop"), the two handlers not
overlapping ("handlers"), the input changed only between sessions ("input"), the device
removed with no file open and no callback under way ("remove"). A second `streamon` during
a capture forgets the ring in use, and a close leaves the flags set; of what follows only
`DmaIntoLive` and `GivenBack` say anything. `Remove` takes `s_mutex` and asks for nothing
else; what a call or a handler finds in the freed structure is undefined, the model goes on
with what was there, and no property of a capture speaks of it. A behaviour leaves plain use
in at most one way, one of `Misuses`.

## Runs

| Run | Properties | Bounds |
|---|---|---|
| `bt_write` | `BufferOwnership`, `NothingLeaks`, `SemaphoreAccounting`, `NoLostCompletion` | 2 writers, 3 allocations, 1 open, 1 reset; symmetry |
| `bt_write_live` | `WriteReturns`, `LimitComesBack`, `DisconnectFinishes` | 2 writers, 2 allocations, no open, no reset |
| `bt_read_bulk` | `AvailableNeverWraps`, `OngoingHasUrb`, `NoLostWakeup`, `DisconnectFreesReaders` | 2 readers, 2 bytes, 2 transfers, 1 open, 1 reset |
| `bt_read_int` | `ActiveUrbLeftAlone`, `NoLostWakeup`, `EventKeptIntact`, `EventsHandedOut`, `ResetNoticePreserved`, `DisconnectFreesReaders`, `ResetCompletes` | 2 readers, 2 bytes, 3 transfers, 1 open of each kind, 1 reset; 0.45 million states |
| `bt_life` | `NoUseAfterFree`, `OpenersCounted`, `AwakeWhileOpen`, `ImplementsSharedDevice`, `DisconnectFinishes`, `DeviceFreed` | 2 files, any number of opens, commands and probes |
| `triton_mailbox` | `SuccessMeansTaken`, `NoLostAnswer`, `MessageIntact`, `NoLostNotice`, `WriteReturns`, `ImplementsChannel` | 2 threads, 2 messages each way, one direction misused |
| `triton_device` | `DeviceReady`, `CountIsFiles`, `GivenBack`, `RequestsMatched` | 2 files, 2 callers, requests attach and lock, 2 requests, `UintMax` 7, `MaxCount` 2; no clash after an overlap or a removal in use (`Bounded`); symmetry; 3.3 million states |
| `video` | `DmaIntoLive`, `ReportedNotWritten`, `ReportedWhole`, `FramesLineUp`, `GivenBack`, `CaptureResumes` | 2 inputs, 3 or 4 buffers, refresh period 1, 2 captures, every misuse, one per behaviour; 2.5 million states |

The type invariants are in no run: `TypeOK` is proved for every module with a proof
module, which is every one but the two abstract specifications.

Why the bounds are enough. Every hazard here is between two threads, or a thread
and a callback or the core: two threads make all the pairs, and with one of them
in each place the core's steps meet every stretch. The write path needs a third
allocation because a URB that was released wrongly is not reused. Two bytes make
a partial read possible, two transfers a second one that meets the remains of
the first; on the event path a third is needed, for the second can be waited for
with the completion of the first. One reset and one open interfere at every point; more would repeat
it. `Drift` ends the runs in which lost updates drive `open_count` away from zero.
Of the seven requests, attach is copied back and lock is not, and the return code
of lock lies on an argument of attach: they are the two shapes there are, and two
requests make one that meets what the other left. A request and an open share no
variable but `private`, and of a removed device nothing is claimed of requests, so that
`Bounded` cuts only products of what the properties do not relate. `UintMax` leaves room for a count
that wraps and one that does not. Two captures make a second one that finds the
flags and the ring of the first; three buffers is the default, and four is the
least number with a frame that the restart (which knows frames 0 to 2 only) never
starts on; a refresh period of 1 lets a refresh
meet every place a handler can be in. The theorems have
none of these bounds.
`CHECK_DEADLOCK FALSE` stands only in the two mailbox cfgs: when nobody calls
any more, the mailbox rests.

### Disagreements between comments and code

Each run checks one property that quotes a comment, and finds it violated.

- `bt_write_free`: after an interrupted wait, or an error reported after it,
  `bulk_write` frees a URB and a buffer that "the USB core will eventually free". The
  same exit ups `limit_sem` for a URB still in flight, so the number in flight then
  exceeds the limit.
- `bt_read_drop`: a packet that arrives between the test for outstanding data and
  the test of `ongoing_read_bulk` is thrown away.
- `bt_life_count`: `open_count`, "count the number of openers", loses updates
  between ACL and HCI files.
- `triton_late`: after a timeout, the late answer makes the next write succeed
  before its message was read.

Several passing properties say when they hold (no open meanwhile, no reset, one
kind of file, orderly use). The conditions are the code's, not the model's: without
them TLC finds a counterexample. They are: opens orphan sleepers; a reset lets a
second bulk reader reset the counters under a running transfer; an HCI open
drops an unread event; a URB left behind overwrites it; a failing `copy_to_user` loses the
bytes it should have copied; in the PCIe driver, overlapping opens lose updates of the count,
requests mix in the packet when they overlap or the mailbox rings while one is written, and
a device unbound in use leaves its files and calls on freed memory; in the capture driver,
removal frees frame buffers that DMA is writing, a handler still running when a capture is stopped re-enables the
interrupts and leaves `err_flag` set, and DMA is restarted on descriptors that are
freed; two handlers that overlap undo each other's work and the capture stalls for
ever; the first frame after a restart is torn.

Other things met while reading, which no comment contradicts:

- `bt_hci`: after a failing `copy_to_user` the event reader returns -EFAULT with its counters
  moved on (911-931), so that the caller cannot get these bytes any more.
- Both PCI drivers free their structure in `remove` whether or not a file is open; in
  `triton_ep` `dev_open` and `open_count` survive, so a device probed after an unbind in use is
  never set up by an open.
- `triton_ep`: the doorbell of the requests is the doorbell of the mailbox; read and write use
  `g_tdev`, so they work on files without `private_data`, and poll (980) does not; release does not free the irq, so the first open of every later session
  fails in `request_irq`, and stays counted; openers after the first get a file
  without `private_data`; the ioctl dispatcher returns 0 whatever the call returned.
- `ioh_video_in`: the branch for repeated DMA failures (1293) cannot be reached, for
  the count is 1 only inside the function; `s_input` changes `pix_format` at once and the
  hardware at the next open; dqbuf sleeps (1731) with `s_mutex` held although nothing
  completes a buffer; `video_register_device` (2125) comes before
  `video_set_drvdata` (2129); remove leaks the video device; close leaves the capture
  flag set. `V2G_BRIDGE_IF` is defined nowhere in the repository; the model takes the
  frame that would be handed to the bridge.

## Fairness

Weak fairness of each thread's own steps: a thread in the kernel runs. Strong
fairness where a thread waits for a mutex, a semaphore or a completion: these
have FIFO queues, so a waiter is not overtaken for ever. Weak fairness of the
callback of a bulk-out URB: the core gives back what it accepted, at the latest
when the endpoint goes. For the read URBs only when they are killed, because a
device may stay silent for ever; `ResetCompletes` therefore assumes that it does
not keep a transfer for ever, in the formula. A command ends by its timeout. In the
capture driver, calls and handlers that have begun go on, and the camera delivers a
vsync between any two overflows (strong fairness of `IsrEnter(TRUE)`). No fairness for
calling, signals, timeouts, resets or disconnects; `TritonDevice` states no liveness and
has none.

## Proofs

TLAPS checks these for every value of the constants, from the named assumptions
in the modules (distinct model constants, positive sizes, finite sets where
something is counted). In each module `Safety` is the inductive invariant, shown
action by action, `TypeCorrect` follows, and the theorems about the runs' properties
are its consequences.

**BtHciWriteProofs.** `IInv == TypeOK /\ Ownership /\ Accounts`. `Ownership`: a URB is
either a writer's, whose place then fixes its references and its buffer (`OwnUrb`), or
the core's, and then its callback's progress fixes them (`CoreUrb`). That is stronger
than "live while in flight", which says nothing of the moment the URB changes hands.
`Accounts` counts: the writers with a permit, the flights and the waiting writers are
finite sets that change by one element per step (`WriterMoves`). Hence
`BuffersOwned`, `NobodyLeaks`, `PermitsAddUp`, `CompletionComes`.

**BtHciReadBulkProofs.** `IInv == TypeOK /\ MutexHeld /\ Safe`, as for the event path but
weaker, for a reset does not take the readers' mutex: `CountersKept` ties
`bulk_in_filled` and `bulk_in_copied` to the reader's place only while there has been
no reset, and `OngoingHasUrb` holds in spite of resets. `ChunkFits` bounds what one
copy takes. Hence `NeverWraps`, `FlagHasUrb`, `WakeupComes`.

**BtHciReadIntProofs.** `TypeCorrect`; then `Safety`, the invariant

    IInv == TypeOK /\ MutexHeld /\ Safe /\ EventIntact

`MutexHeld`: whoever is between taking and dropping `io_mutex` is its holder, and the
core is it from `pre_reset` to `post_reset`. Without it nothing follows from a
reader's place. `Safe` adds to the run's invariants that an active URB has its flag
set unless the core is drawing down (`FlagCoversUrb`), which is what makes testing
the flag a test of the URB, and that while a reset's notice is in
`int_read_errors` no callback is under way to overwrite it (`NoticeIsLast`). Hence
`UrbLeftAlone`, `FlagHasUrb`, `WakeupComes`, and, as an action property,
`NoticeStays`. `EventIntact` strengthens `EventKeptIntact`: while the reads are quiet an
active URB has a reader asleep on it, which holds `io_mutex`; so no other reader is
between its test of `int_in_filled` and its submission when the callback fills the
buffer, and an error is recorded only where there is no event, which is why the paths
that report one may clear `int_in_filled` and forget `int_in_copied`. `DeliveredWithin`
and `DeliveredNext` say what one copy does to the two counters (the difference of the
two `size_t` does not wrap). Hence `EventStays` and, for every step, `NothingDiscarded`.

**BtHciLifecycleProofs.** `Safety`: `TypeOK`, `ReferencesCounted` and `LinkOrder`, the
order in which probe and disconnect set intfdata, the minor and `link`. It is
needed because `FindDevice` takes no reference: what protects an open between
finding the device and `kref_get` is that disconnect, which still has its own, waits
for it in `usb_deregister_dev`. The count of a set of holders changes by one per
step; the lemmas `HolderCounted`, `SameHolders` and `SameCount` isolate that.
Hence `CountCorrect` and `NobodyUsesFreed`.

A second invariant, `Openers`, is about `open_count` and the autopm reference:

    OpenersInv == LockInv /\ CountExact /\ AwakeExact

`LockInv` says who holds which of the two mutexes, that the kind of every open file is
known, and that a device is published with no file on it. While there is one kind of
file there is one mutex and one file past it (`OneLocked`), so that what was loaded is
still there at the store (`CountExact`), and the count moves by one with the set it
counts (`StoreExact`). `AwakeExact` gives the reference at every place of a handler: in
particular it is not yet taken, or will not be, while the first opener has counted
itself and is resuming the device (`Resuming`); release finds the interface because
the device was published with one. Hence `OpenersRight` and `AwakeRight`.

`Implements` shows that the lifecycle implements `SharedDevice`, step by step. The lemma
`Lifetime` carries it: the structure is free exactly when it is neither bound nor used,
with or without a reference. Taking the reference is then a step the abstract device
does not see, and so are the steps of probe and disconnect between binding and
unbinding.

**TritonMailboxProofs.** `Safety`, the invariant

    IInv == TypeOK /\ Untouched /\ (WritesOrderly => WriteInv) /\ (ReadsOrderly => ReadInv)

The words are read and written without a lock, and a successful write proves nothing
by itself: `write_complete` is a count and does not say whose answer it counts. What
makes it right is that the request of an orderly write is in exactly one place, with
the M3 (`request`), in admin[2] (`answer`) or in the completion, and that only the
thread that waits can have made it (`WriteInv`). In the same way the right to use
the up slot is with the M3, on its way there (`fetched`), in admin[4], in
`data_readable` or with the one reader (`ReadInv`). `Untouched`: nobody clears a
word between the interrupt handler's test and its action. Hence `SuccessIsTrue`,
`AnswerComes`, `MessageWhole` and `NoticeComes`. What the M3 does is an
assumption of the model, read off the driver's use of the words.

`Implements` shows that the mailbox implements `MailboxChannel`: the initial states map to
the channel's, and every step maps to a step of a channel, of both, or of none
(`ImplementsChannel`). It needs a second invariant on top (`ChannelSafety`): which of the
words, the slots and the interrupt handlers holds the message or the answer the
channel has under way, so that, for instance, the step that lets a write return finds
its offer taken.

**TritonDeviceProofs.** `Safety` joins five parts. `Bindings` and `Privates`: what is
held in each binding; that, while nothing of a device removed in use is left, an open file
is on a bound device, the first opener initialises the queues before the others can get past
the test, and a file with `private_data` is why the interrupt is held. An open that loses the
race for the interrupt fails, so `DeviceIsReady` needs no condition on the order of opens and
releases. `Counting`, which holds across removals: with no overlap at most one file is
between its load and its store, and the count is right for every place it may be in
(`CountAt`); hence `CountIsRight`. `Packet`: while requests do not clash only one caller is
busy, and each word is its own or the peer's answer to it, also when the peer takes a
packet once more because the mailbox rang; hence `RequestsMatch`.
`GivenBack` is its own invariant: `CleanedUp` goes through the steps of the ladder.

**IohVideoInProofs.** The invariant

    IInv == TypeOK /\ Session /\ Described /\ InputSet /\ Housed /\ Ringed
              /\ FirstFrame /\ NeverLapped /\ WholeFrames

`Session` and `Described`: nothing runs on a closed file, and nothing starts DMA before
the descriptors are made; an open file has its device unless that was removed in use.
`Housed`: when a ring is freed whoever could turn the interrupts on again is idle, and what
`desc_start` points into is allocated whenever a handler can use it; this needs no order of
starts and stops, and gives `DmaStaysHome`. `Ringed`: between the start and the end of a
plain capture the channel works on the ring the driver holds; outside of that nothing moves. `FirstFrame`: the flag that starts
the engine is set only while it is at frame 0. `NeverLapped` is the heart: `Ahead`, the
distance from the frame to be reported to the frame being written, is never zero
when a report is due, and never the whole ring when one is not. `WholeFrames` adds, for
three buffers, which frames a restart can have torn. Hence `NotWritten`,
`ReportsAreWhole`, `LinedUp` and `AllGivenBack`, for any set of misuses. The assumption
that a callback is done before the next frame is part of the model.

Only model-checked: all liveness (TLAPS has no support for the ENABLED that fairness
needs). Every invariant, safety action property and refinement of a passing run is
proved.

## Not modelled

- The operations of `pciex_manageshm.c` on local segments (log, read, write; 139-327
  and 664-1014) and their ioctl wrappers: each first requires `dev_status` to be
  NORMAL, which nothing in the repository sets, so each returns an error at once and
  changes nothing. `SHM_WRITE`, whose wrapper copies before the call, is modelled.
- `mmap` of `triton_ep` (842-958): it maps memory into the caller and leaves the driver's
  state alone.
- The buffer queue of `ioh_video_in` (1497-1604, reqbufs, querybuf, qbuf): it keeps
  a list that no code of the driver reads, because no frame is ever put into a queued
  buffer; a buffer queued again after streamoff is added to it twice (1585).
- The queries of `ioh_video_in` (querycap, formats, enum_input), which read tables.
- The variants of `triton_ep.c` (`_org`, `_no_log`, `_with_log`), which the Makefile does not
  build.
- The sample programs, straight-line user code; one gives the order of a client's
  calls.
- Makefiles, generated code, and the 115 source packages and one archive under `PF/`, which
  are third-party and opaque here.

What could be added: the composition of the four `bt_hci` modules over one
structure (each now takes what the others do to its state as actions of its own).
