# A verification of DiegOS

DiegOS is a small operating system for the PC: one processor, one address space,
threads that are scheduled by priority and give the processor up of their own
accord, and interrupt handlers that may run between any two instructions that do
not hold `lock()`. Around the kernel are its drivers, a C library, a FAT file
system, the beginnings of a network stack, boot loaders and a console. This
directory keeps TLA+ models of them, the TLC runs that check them, and proofs about
the scheduler, mutexes, barriers, timers, events, alarms, the rings of the character
drivers, the network card and its queues, the clock and the devices that hold for every
number of threads and every size.

All paths are relative to the repository (`kernel/scheduler.c` is
`src/kernel/scheduler.c` in `PROJECT.json`).

## 1. Inventory

### What is concurrent, and what fails

* *Threads.* Nothing takes the processor from a running thread. It loses it when
  it calls `thread_suspend`, `thread_delay`, a wait, or when it ends. Code between
  two such calls is atomic with respect to other threads.
* *Interrupts.* The clock and the devices interrupt everything, kernel included,
  except what is between `lock()` and `unlock()`. Their handlers never resume a
  thread themselves: they leave a mark (a bit in a bitmap, a flag of a barrier, an
  event in a queue, a byte in a ring) that the scheduler or the thread looks at
  later.
* *Hardware.* The network card fills its ring while the driver empties it; the
  link comes and goes; keys are pressed; the disk fails or the machine stops between
  two writes of the file system. Only the disk survives a restart.

### Components

| component | state | operations | works with | what makes it correct |
|---|---|---|---|---|
| scheduler (`kernel/scheduler.c`), threads, idle | four ready queues, wait, delay and dead queue, `running`, table of slots | `scheduler_*`, `update_schedule`, `schedule_thread`, `thread_*` | every primitive waits and resumes through it | a thread is in one queue, the one its state says; highest class first; no wait ends early; timed waits end; a killed thread never runs again |
| mutexes | owner, circular buffer of waiters | create, lock, timed lock, unlock, destroy, cancel | scheduler | exclusion; no hand-over lost; waiters served |
| barriers | flags, bitmap of waiters | create, open, close, wait, done, cancel, `resume_on_barriers` | opened from interrupts | opening resumes; a bit stands for a waiter |
| timers | list, flags, expirations; a thread | create, set, update, done, `timer_cb` | clock interrupt, a barrier | one callback per promise, in time |
| events, alarms | queues with one watcher, bitmap; alarms with one embedded event | init, watch, put, get, wait, cancel; create, set, update, acknowledge, done, `alarm_cb` | clock interrupt | an event is linked once and wakes its listener |
| I/O waits, poll | wait queues of items, poll tables, bitmaps | wait, timed wait, resume, cancel; `poll`, `poll_wakeup` | drivers resume from interrupts | nobody sleeps over a byte; items are freed once |
| character drivers (16550D, 8042) | rings, FIFO, interrupt enable | read, write, start, stop, interrupts | I/O waits | bytes in order, readers woken |
| clock, hardware clocks, delays | ticks, period of each client, calibration | set period, interrupt, calibrate | timers, alarms, scheduler | time never ahead; the shortest period is programmed; calibrations close to the truth |
| devices, descriptors (`unistd`) | sorted list, table of descriptors | create, lookup, start, open, read, write, close | drivers | a device is found by its name; a descriptor keeps its device |
| network | receive ring, queues of packets, interfaces, loopback | interrupt handler, `netbuf_*`, the network thread, `net_interface_*` | packet pool, barrier | frames in order, no packet owned twice, queues drained |
| PCI | list of devices, configuration space | probe, search, read, write | drivers | no function missed, writes hit their bytes |
| start, end, locks, vectors | stage, lock count, handlers, exit functions | `DiegOS`, `kernel_panic`, `abort`, `exit`, `lock`, `add_int_cb` | everything | interrupts only when unlocked; a handler is not replaced; each thread killed once |
| containers | lists, queues, stacks, red-black trees, hash lists, bitmaps | insert, remove, search, walk | everything | they are the sequences and sets they stand for |
| storage | chunk pools, packets, heap, I/O memory | allocate, free, resize | everything | blocks disjoint and inside; nothing lost |
| C library | buffers of streams; otherwise pure | 64 bit arithmetic, calendar, strings, conversions, sorting, printf, scanf, stdio | applications, kernel | equal to a reference definition |
| FAT | table in memory, table and clusters on disk | format, mount, create, link, rename, truncate, delete, read, write | disk | chains disjoint, nothing lost by a stop, files read back |
| console | text ring, frames, cursor, modifiers | write, key | devices | the screen shows the tail of the text, never a torn frame |
| video drivers (VGA, VESA, text) | mode, palette, planes or linear buffer, frames, cursor | set mode, draw points, lines, boxes, text and sprites, show | console, video BIOS | the picture is the one asked for, the mode is the one described, a frame is shown once it is drawn |
| console application | Login, Console, alarm, line | log in, read a line, parse, time out | events, alarms, tty | one reader of keys; idle sessions end |
| boot loaders, `mkimage`, `do_write_mbr` | disk and memory in sectors, partition table | make an image, change an entry; read, open A20, move, jump | BIOS | the whole image is where it is jumped to |

### What is hard to test

The list is in `PROJECT.json` under `hazards`, each at its line, each with the
properties that would catch it. In short: passes that walk a queue while they change
it; kills that arrive at each half-way point of a wait; timeouts that race the
resumption and leave an entry behind; interrupts between a check and the sleep that
follows it; a slot, an item or a chunk that is used again while something still names
the old one; rings at their limits; a stop of the machine between two writes of one
call; rounding and carries at the ends of the ranges.

## 2. Modules

    Threads  <== implemented by ==  Scheduler <-- SchedulerProofs <-- SchedulerQueueProofs
       ^                                          <-- SchedulerRefinementProofs
       +-- Mutex <-- MCMutex, MutexProofs
       +-- Barriers <-- Timers <-- MCBarriers <-- BarrierProofs
       +-- Events <-- Alarms <-- AlarmProofs
       +-- IoWaits (with Lists) <-- CharDrivers <-- CharDriverProofs

    FileStore  <== implemented by ==  Fat       Fat EXTENDS FatVolume

    MCLibraries: Lists RedBlackTrees HashLists ChunkPools Memory
                 LibcClients (QuadArithmetic CTime CStrings Formatting)
                 Stdio FatNames
    MCDevices:   Network Devices Machine Clocks Interfaces Console <-- Video
                 Pci Session BootLoader
    DeviceProofs: Network Devices Clocks

An arrow points from the module that extends to the one it extends. The head of each
module says what it models and how its state corresponds to the code; definitions
keep the names of the functions they translate where there is one, and `map` in
`PROJECT.json` gives the lines of every definition, except for helpers whose lines
belong to the larger definition that uses them.

* **Scheduler** is the detailed module of the kernel: `kernel/scheduler.c`, the thread
  calls of `kernel/kernel.c`, `kernel/threads.c`, the system threads. Kernel code is
  followed by a program counter `pc`; every iteration of a loop of `update_schedule`
  and `schedule_thread` is a step, so that interrupts may fall between any two.

  | state | code |
  |---|---|
  | `alive`, `thread_num`, `prio`, `state`, `flags`, `delay` | `thread_storage[]`, its count and fields |
  | `ready`, `waitq`, `delayq`, `deadq` | `ready_queues[]`, `wait_queue`, `delay_queue`, `dead_queue` |
  | `running`, `cpu` | the static variable; the stack in use |
  | `i`, `expiration`, `new_delay_wq`, `new_delay_dq`, `period` | the locals of the passes; the scheduler's clock period |
  | `now`, `signalled` | the clock; the marks of interrupts |

* **Threads** is the abstract specification: one thread has the processor; a wait
  ends because its primitive resumes it or its time has come; killed threads only
  die. It knows no queue, priority or pass. `ImplementsThreads` of Scheduler is the
  refinement. The modules of the primitives EXTEND Threads and compose their steps
  with `Block`, `Wake`, `Kill` and `Dispatch`, so they rest on what the scheduler is
  shown to implement.
* **Mutex**: a call is one step (thread context, no interrupt touches a mutex) except
  that a caller that waits comes back for the second half of
  `thread_lock_mutex_timed`. A cancelled entry is `NoThread`. `held` is what the
  callers believe: everything but `ETIMEDOUT` is success, which is how
  `applications/demo/demo_delays.c` reads it.
* **Barriers**, **Timers**: the check of the flag and the sleep are two steps; so are
  the resumption of the waiters and the clearing of the flag of an autoclose barrier.
  `due` is a history variable: the time of the callback promised by the last start.
* **Events**, **Alarms**: an alarm *is* the node that is linked into the queue. The
  test of a queue and the sleep are two steps; `todo` is what `resume_on_events` has
  yet to visit. `owed` and `due` are what the user counts: the time an alarm was set at
  and the durations of its intervals since. `alarm_create` links the alarm and fills it
  in afterwards, in two steps.
* **IoWaits**, **CharDrivers**: a wait leaves an item, with its real links (Lists),
  in the wait queue of a device; the interrupt empties it. The rings are indices over
  arrays, beside the sequences of bytes they should hold.
* **Lists**, **RedBlackTrees**, **HashLists**, **ChunkPools** (pools and
  packets), **Memory**: the data structures with their links, colours, rows, bitmaps and descriptors; each
  has a client that makes any calls and a sequence or set beside it to compare with.
* **QuadArithmetic**, **CTime**, **CStrings**, **Formatting**, **Stdio**:
  the C library as operators, with the widths as parameters, compared with a
  reference definition; **LibcClients** enumerates their inputs.
* **FatVolume**, **Fat**, **FileStore**: functions of the driver from volume to volume
  that count every disk access, so that a call can be cut after any of them; FileStore
  is the abstract store of named files that `Fat` implements.
* **Network**, **Interfaces**: the receive ring with its offsets, the interrupt handler
  step by step while the card stores frames, the queues between handler and thread,
  the two trees of interfaces, the loopback.
* **Clocks**: periods in device counts with their rounding.
* **Machine**: start, end, locks and vectors; the calibrations of the start, the delays
  they make, and the memory type ranges.
* **Video**: screens as functions from places to colours, beside the picture that was
  asked for; planes, masks and latches of the VGA, the search for a VESA mode, the
  frames and the cursor of the text screen. Tables of registers are their effect.
* **BootLoader**: the tool that makes an image, the change of the partition table, and
  the loaders that read what both made, sector by sector.
* **Devices**, **Pci**, **Console**, **Session**: one component each.
* **MCLibraries** and **MCDevices** compose parts that share no variable: a behaviour
  chooses one part (`part`) at the start and the others rest, so that the states add
  up instead of multiplying. **MCMutex** and **MCBarriers** choose a scenario in the
  same way.

A definition that comes just before a helper with the same parameters (`ExpiredEarly`
before `Expired`) is a mistake the code could have made; no specification uses it.
`PROJECT.json` names, for each property, one that violates it.

Left out of the data: names, stack contents, printing, error texts. A call that panics
is a state of Scheduler and of Machine; in the other modules it is not a step.

## 3. Runs

| run | module, config | asks |
|---|---|---|
| `sched_timed` | Scheduler, `SchedTimed.cfg` | Two application threads of different priorities that suspend, sleep and wait with and without timeouts; interrupts anywhere. |
| `sched_lifecycle` | Scheduler, `SchedLifecycle.cfg` | Creation, termination, kills of READY, just resumed and event-waiting threads, reuse of slots, panics; all of it is a behaviour of Threads. |
| `sched_live` | Scheduler, `SchedLive.cfg` | Resumed threads leave the wait queue although the pass skips entries; every timed sleep and wait ends. |
| `mutex_calls` | MCMutex, `MutexCalls.cfg` | Three threads and two mutexes in three scenarios: kills of threads that own nothing, the same without those asleep for a mutex (of which alone `LockReturned` speaks), or ends and slots that are used again. |
| `barrier_timer_calls` | MCBarriers, `BarrierTimerCalls.cfg` | Every barrier call by three threads with interrupts inside the pass, or two timers started, restarted, updated, destroyed and created again while the clock ticks. |
| `alarm_events` | Alarms, `AlarmEvents.cfg` | An alarm and an event in a queue with two threads that watch, wait, read, acknowledge and are killed. |
| `io_calls` | CharDrivers, `IoCalls.cfg` | Two threads that read, write, poll and wait with a timeout on the serial line, the keyboard or the mouse while bytes come and go. |
| `libraries` | MCLibraries, `Libraries.cfg` | Each library under any sequence of calls, or over all of its small inputs. |
| `fat_calls` | Fat, `FatCalls.cfg` | Five calls in any order on a volume of five clusters, one of them cut after any disk access and the volume mounted again. |
| `device_calls` | MCDevices, `DeviceCalls.cfg` | Each of the parts between kernel and hardware, seventeen scenarios of ten modules. |

and two runs that TLC must refute, because the code does not do what its own
documents say (section 6).

### Properties

A property of a run is often the conjunction of several parts, each defined and
explained where its component is. The last column names the helper whose mistaken
twin, the definition before it, breaks the part.

| property | part (module if another) | what it says | broken by |
|---|---|---|---|
| QueuesSound (Scheduler) | QueueMatchesState | the queue a thread is in agrees with its state | `ResumedState` |
| | DelaySorted | `schedule_delayed` may stop at the first thread that has not expired | `DelayPlace` |
| | RunnerIsHighest | nobody ready has a higher class than the chosen one | `FirstReady` |
| ThreadsKept (Scheduler) | LinkedOnce | each live thread is in exactly one queue | `HeadTaken` |
| | SlotsCounted | the count is that of the slots in use | `SlotsLeft` |
| | KilledNeverRuns | whatever wakes it | `Doomed` |
| | IdleSchedulable, WaitLoopHasHead, NotEarly, ResumedLeaves, TimeoutEnds | on their own | `Removable`, `WaitCount`, `Expired`, `queue_roll`, `SleepFlags` |
| WaitersKept (Mutex) | OwnerAwake | a mutex handed over wakes its new owner | `WakeOwner` |
| | WaiterQueued, EntriesWait | a waiter is queued once; no entry names a thread that does not wait | `QueueCaller`, `cancel_wait_on_mutex` |
| | MutualExclusion, LockReturned | on their own | `MayUnlock`, `QueueCaller` |
| WaitersKnown (MCBarriers) | BitsOfWaiters, WaitersListed | the bits are those of the waiters, and a waiter's barrier is in the list the pass walks | `cancel_wait_for_barrier`, `BitSet` |
| | DueAwake (Timers) | a timer that is due finds the Timers thread awake or its barrier open | `OpenForExpired` |
| | OpenResumes, CallbackInTime, DueCalled | on their own | `StillToVisit`, `StartFlags`, `ClearsExpired` |
| EventsSound (Alarms) | EventOnce | the event of an alarm is in one queue, once | `Sends` |
| | SleeperMarked | a thread asleep for events has its bit | `Mark` |
| | UntimedGetsEvent, SentInTime, EventWakes | a wait without a timeout finds an event; one event for each arming, in time; it wakes its listener | `Resumes`, `Rearmed`, `Mark` |
| RingsSound (CharDrivers) | RingsHoldBytes | what a ring holds is what was accepted and not taken, in order | `Copied`, `Trimmed` |
| WaitQueuesSound | SleeperReached, QueuesCounted | the next resume reaches every sleeper; the counter is the length | `Visited`, `list_remove` |
| NobodyForgotten | ReaderMarked, WriterMarked, PollMarked | nobody sleeps when there is something for it; a poll tests each device, links an item, marks it, looks and sleeps in steps of their own | `kbd_resumes`, `Visited`, `Polled` |
| ContainersSound (MCLibraries) | LinksMirror | lists, queues and stacks are sequences, both ways | `list_remove` |
| | RedBlack, TreeHoldsMembers, SearchesFind, RangeInOrder | balanced, complete, searched and walked right | `rotate`, `find_in_rbtree`, `rbtree_enumerate_inorder_range` |
| | HashFinds | what was added and not removed is found | `hash_list_shrink_row` |
| StorageSound | ChunksAccounted, OnlyMainIdle | chunks are given once; extra arrays go when they are empty | `Finds`, `delete_pool` |
| | PacketsDisjoint | live packets of one or of two lines do not overlap and stay inside the storage | `space_in_packet` |
| | HeapTiles, HeapCounted, IoInside | descriptors tile the heap, the totals are exact, I/O blocks stay inside | `Splits`, `Merged`, `Overruns` |
| LibcExact | DivisionExact, ProductExact, WordsAgree (QuadArithmetic) | 64 bit arithmetic is exact, every carry and correction included | `AddedBack`, `AddLow`, `ashrdi3` |
| | CalendarExact, TimeTextFits (CTime) | conversions are inverse on every day of four years; strftime stays in its buffer | `Passes`, `HasRoom` |
| | TokensInOrder, SearchesExact, CopiesStay, MovesExact (CStrings) | two callers of strtok keep apart; searches, copies and overlapping moves | `SavedPlace`, `strrchr`, `strncat`, `Backwards` |
| | ConversionExact, SortedPermutation, TempFits (Formatting) | strtol at its limits; qsort; digits, fill and prefix of a number stay inside `temp`, where the code limits them (not %u with a precision, not the prefix of an octal number) | `Overflows`, `MoveEquals`, `Clamp` |
| | PrintedReadsBack, PiecesJoin, ScanCounts (Formatting) | what printf writes scanf reads; no piece is lost at a full buffer | `Digit`, `BufferFull`, `MoreCounted` |
| StreamsSound | OutputExact, InputInOrder, BuffersInside, SnprintfBounded | for all three kinds of buffering | `Emptied`, `ungetc`, `AfterFull`, `Terminator` |
| PathsExact | SplitExact, CreatedSearched, RelativeLeads | a path is cut, searched and walked as it reads | `FAT_build_DIR_name`, `FAT_parse_directory_last`, `StepsBack` |
| VolumeSound (Fat) | DiskSound | after any stop, chains are disjoint, end, and hold their sizes | `FAT_delete_entry` |
| | TableFlushed, NoneLost | a call that returned is on the disk; no cluster is lost | `FAT_write_update_on_disk`, `FAT_clear_cluster_chain` |
| EntriesSound (Fat) | NamesUnique, ListCounts | one entry for a name; listings are complete | `FAT_search_loop`, `FAT_update_statistics` |
| | ReadExact, StoreImplemented | files read back; the volume implements FileStore | `FAT_lookup_FAT_table`, `FAT_directory_is_void` |
| NetworkSound (Network) | RingInStep, FramesPending, InOrder, PacketsOwned, OldestGivenBack, StackAwake, LinkKnown | the driver reads where the card wrote; no frame without its interrupt; in order; no packet has two owners; the pool, which takes back the oldest only, refuses none while nobody sends; the thread sleeps over nothing | `rtl_config_rx`, `LoopEnds`, `cbuffer_remove`, `pakman_put_packet`, `netbuf_process_in`, `netbuf_process_out`, `LinkFlags` |
| DevicesSound (Devices) | CreatedFound, OneUiRuns | a device is found under its name, whatever was created before or after it; one user interface runs, also when the first fails to start | `insert_device`, `MayStart` |
| ClockSound (Clocks) | NeverAhead, ShortestProgrammed, TimeExact | the kernel's time is never ahead of the counts that passed; the device counts the shortest period asked for; conversions are exact | `ChoosePeriod`, `get_lowest`, `FractRounded` |
| MachineSound (MCDevices) | NoneWhileLocked, ExitsInside, CalibrationClose, DelaysRounded, FrequencyClose, RangesExact (Machine); ImageInPlace (BootLoader) | locks nest and keep interrupts out unless the BIOS was called since, exit calls only what was registered, calibrations are close, memory ranges cover what was asked, the image the tool made is whole where the kernel starts | `Unlocked`, `Kills`, `Refined`, `Rounded`, `Mean`, `RangeMask`, `NextSector`, `Chs` |
| | NoneMissed, NumbersDistinct, ConfigExact (Pci); TreesAgree, StartedOnce, LoopInOrder (Interfaces) | no PCI function is missed and writes hit their bytes; both trees of interfaces hold the same, each is started once, the loopback keeps order | `AfterFunction`, `MsiData`, `Port`, `Refused`, `net_interface_next`, `Empties` |
| ConsoleSound (MCDevices) | ScreenShowsTail, ModifiersKnown (Console); PicturesExact, ModeDescribed, FrameShown (Video); OneReader, IdleEnded, LineExact (Session) | the screen is the tail of the text; modifiers follow the keys; pictures are those asked for, in the mode that is set, on the frame that is shown; one reader of keys; idle sessions end when they should; lines are parsed as typed | `StartOfs`, `Released`, `Plot`, `Fits`, `show_video`, `Kills3`, `Restarts`, `Deleted` |
| HoldersKeep (MCDevices) | DescriptorKept (Devices), HandlerKept (Machine), NeverTorn (Console) | steps that never happen: a descriptor changes device, a handler is replaced, a displayed frame is written | `Free`, `AddAccepts`, `Show` |

`PromptShown` (Stdio) says that a prompt is on the terminal before input is asked
for, `QueuesDrain` (Network) that queued packets are processed in the end.

### Bounds, and why they are enough

* Scheduler: `MaxThreads = 4`: Idle, Timers and two application threads. With three
  entries possible in `wait_queue` (Timers waits there too), the entry skipped after a
  dequeue, the roll and the removal all happen; two sleepers are enough for the order
  of `delay_queue`, two killed threads for the loop of `house_keeping`. `MaxTime` is 1
  or 2 and delays 1 or 2, so that expirations are equal, ordered and reversed;
  `SchedDelayMax` (10000 ms in the code) is 2. A step that would set a time after
  `MaxTime` is not taken.
* Mutex: an owner and two waiters, of which the first can be cancelled. `Slots` is not
  less than the number of threads, the relation of the code. With `Thread <- MCThread`
  and `SYMMETRY MCSymmetry` four threads can be checked for the invariants.
* Barriers, timers: the kinds of barrier that behave differently (autoclose or not,
  closed by calls or not), three waiters; two timers, so that one expires while the
  other is served.
* Alarms: one alarm and one other event share a queue of `Capacity` 2, two threads
  compete to watch it, periods 1 and 2, `MaxTime` 2: an alarm expires, is re-armed and
  expires again before it is read.
* I/O: rings of four bytes (three usable), sequences of two, a FIFO of two: rings
  fill, wrap, and a write of three is cut. Three items for two threads.
* Libraries: trees begin empty or with eleven keys (`TreeLoads`) and are changed three
  times, so that every case of the rebalancing happens; a heap of 28 bytes holds up to
  four blocks; words of four bits (`HalfBits = 2` for half a word) have all carries and
  all corrections of the division; the calendar is walked day by day through its first
  year, an ordinary one, a leap year and the last (`CalendarYears`); texts of four
  letters over an alphabet of three, arrays of six.
* FAT: five clusters, four entries to a directory: a file of three clusters, a full
  volume, a full directory and a directory inside the root all fit. Transfers start at
  the front, at the boundary of the first cluster and behind it (`Offsets`, clusters of
  three bytes); writes are of one cluster or of more. Clusters 0 and 1, which the code
  does not refuse, are the sectors of the table. `MaxCalls = 5`, one stop (`MaxFaults`),
  `MaxAccess` larger than the accesses of any call.
* Packets: a storage of several lines, aligned (`StorageAt`), and packets of one line or
  of two (`LenSets`).
* Network: a ring of 24 bytes and frames of one length wrap the ring, overflow it and
  the queue; `MaxExtras` bounds link changes and restarts.
* The other parts: each constant is the smallest that has a first, a middle and a last
  (three PCI functions, two buses, three rows and columns of screen in four frames,
  two clients of the clock with a period below, inside and above the device's range,
  images below, at and above a segment and a track).
* Video: a planar screen of three bytes by four rows and a VESA screen of ten by five;
  `Xs` and `Ys` have the first, a middle and the last bit of a byte and the ends of the
  screen; two calls draw over one another, one on VESA; `MaxShown` goes once around the
  frames. Partition tables (`Tables`) have the active entry before and behind a volume,
  two entries of the system, a volume that is active, and none; `TableEdits` enters a
  range and what is none.
* `CHECK_DEADLOCK FALSE` outside Scheduler: the clock stops at `MaxTime`, calls and
  events are bounded, and Idle is not in `Thread`. Scheduler's runs check deadlock:
  with Idle the system never stops.

### Fairness

* Scheduler: weak fairness of kernel code (the processor executes it), of the clock,
  and of the calls that give the processor up together: a cooperative system
  requires of every thread that it calls the kernel again. No fairness of any
  device, and none of which call a thread makes.
* Mutex: in addition, strong fairness of the dispatch of each thread, because a ready
  queue is served in order of arrival and the users of the instance have one
  priority, and of `thread_unlock_mutex` by an owner: nobody keeps a mutex for ever.
  `LockReturned` excepts threads that wait for one another in a circle (`Crossed`).
* Barriers: weak fairness only, of the pass, of the choice of a thread (never of
  which one) and of giving the processor up.
* Timers: weak fairness of its steps, strong fairness of dispatching the Timers
  thread: `timers_thread_entry` runs at `THREAD_PRIO_REALTIME` and is created first,
  so it is chosen whenever it is READY.
* Alarms: as Barriers, and the steps of a wait or of `alarm_create` of a thread that has
  the processor.
* Network: weak fairness of the interrupt handler, of the network thread and of a send
  that has begun; none of the card.
* Streams: `PromptShown` is a safety property.

The passing runs exclude, through named constants, what section 6 shows to fail
(`KillTargets`, `Untidy`, `Timeouts`, `Destroys`, `Stops`, `Toggles`, `Sharing`,
`Races`, `Aliases`, `WatchMany`, `Hasty`, `CreateCut`, `StorageAt`, `LenSets`, `Misreads`,
`Updates`, `FormatMounted`, `FaultKinds`, `FilePaths`, `LinkWhileStopped`, `InCallbacks`,
`Slack`, `BackAnywhere`, `FillChars`, `LongLines`, `SlowFarewell`, `MayLackMemory`, `KnowsDF`,
`AnyRange`, `OnlyBesides` and the sizes): what they show is
what holds for users and hardware that avoid it.

## 4. Proofs

The theorems hold for every value of the constants that the named assumptions of the
modules allow: every number of threads, mutexes, barriers, timers, alarms and queues,
every size of ring, every set of delays, timeouts, priorities and calls. Where a
theorem has a hypothesis, it is one of the constants that the runs use to leave out
what section 6 shows to fail, so the hypothesis is needed.

### Scheduler (`SchedulerProofs`, `SchedulerQueueProofs`)

* **TypeCorrect**, `Spec => [](TypeOK /\ WaitLoopHasHead)`, and **WaitLoopsHaveHeads**.
  `TypeOK` alone is not inductive: the iterations of `schedule_waiting` take the head
  of `waitq`, which is a thread only if the queue is not empty, and that is what
  `WaitLoopHasHead` says of the counter `i`; and `thread_may_suspend` goes on after its
  pass as the thread that called it (`CallerKnown`). `TypeInv` is the three together.
* **IdleAlwaysSchedulable**, `Spec => []IdleSchedulable`. The inductive invariant
  `IdleInv` follows Idle around: it is RUNNING only between `new_runner` and its next
  call of the kernel, otherwise READY and in the ready queue of the lowest class; it is
  never flagged to terminate and never in the wait, delay or dead queue, so no pass,
  kill or wake-up can move it.
* **NeverEarly**, `Spec => NotEarly`. The passes compare a delay with `expiration`, a
  copy of the clock taken before the loop: `ClockRead` says it is never later than the
  clock, whatever interrupts came since. `RunnerAwake` (the thread that calls the
  kernel is not itself WAITING) excludes that a thread makes itself READY out of a
  wait by suspending.
* **QueuesAreSound**, `Spec => []QueuesSound`. The invariant `PlaceInv` says that no
  thread is twice in the queues (`NoRepeats`), that each queue holds only threads whose
  state belongs there (`Placed`), and that one thread is RUNNING exactly while somebody
  holds the processor (`RunnerInv`). The dequeue, roll and remove of the passes keep the
  first two because what they move is the head or is known to be in no other queue.
* **ThreadsAreKept**, `Spec => []ThreadsKept`. The converse of `Placed`: a thread that is
  READY, WAITING or DEAD is in the queue the next pass will look at (`KeptInv`). It
  needs that the wait flags of a queued thread still tell which queue may wake it
  (`Resumables`).
* **KilledThreadsNeverRun**, `Spec => [](KilledNeverRuns /\ SlotsCounted)`, the part of
  ThreadsAreKept that survives when sleeping threads are killed.

`SparesMutexWaiters` (no thread that waits for a mutex alone is killed) is assumed by
the last three: `scheduler_remove_thread` would link the victim in two queues.
`SparesSleepers` (no thread in `thread_delay` is killed) is assumed by ThreadsAreKept
only: `sched_v_kill_delayed` shows the loss.

### Refinement (`SchedulerRefinementProofs`)

* **SchedulerImplementsThreads**, `Spec => ImplementsThreads` under
  `SparesMutexWaiters`. Each action of Scheduler is shown to be a step of Threads or a
  stutter under the mapping of `Promise`: the passes are stutters except where they make
  a thread READY, `house_keeping` buries, `new_runner` dispatches. The invariant
  (`RefinementInv`) is TypeInv, PlaceInv, ClockRead and `FreeSlotsClean`: the slot of a
  new thread carries no delay of the thread that had it before. This is what allows the
  modules of the primitives to be built on Threads.

### Mutexes (`MutexProofs`)

* **MutexesExclude**, `Spec => []MutualExclusion`; **MutexWaitersAreKept**,
  `Spec => []WaitersKept`; **OwnersAsked**, `Spec => []OwnerAsked`.
  The invariant `MutexInv`: a mutex belongs to a live thread that asked for it and to
  nobody else who believes to hold it (`Ownership`); inside the call a thread sleeps or
  has been given the mutex (`InCall`); a sleeper is named by the buffer of the mutex it
  sleeps for (`Sleeping`), once (`NamedOnce`); entries that are not cancelled name
  sleepers (`EntriesWait`); and the buffer is no longer than the threads its entries
  were made for (`BufferBounded`), without which a full buffer would answer EBUSY, which
  callers take for success. The last one is a fact about cardinalities, and the only
  place where the size of the table of threads matters (`TableFits`).

Hypotheses: no timed calls (`Untimed`), owners do not end (`~Untidy`), and not both
kills and reuse of slots (`NoRefill`): cancelled entries stay in the buffer, and new
threads in old slots can fill it (section 6). A thread that is killed while it sleeps for a
mutex dies cleanly here, as in Threads; in the scheduler it is linked in two queues and
cuts off those behind it. The three theorems do not depend on who is dispatched, the
liveness property `LockReturned` does, and claims nothing once that has happened.

### Barriers and timers (`BarrierProofs`)

* **WaitersAreKnown**, `MCSpec => []WaitersKnown`, and **CallbacksInTime**,
  `MCSpec => CallbackInTime`. The invariant has the part of the barriers (`BarrierInv`: a
  thread between its test and its sleep is the one that runs, a destroyed barrier has no
  bits, bits are those of waiters and waiters are in the list) and the part of the timers
  (`TimerInv`: the loop of the Timers thread, `DueSeen`: a timer whose time has come finds
  Timers about to scan or its barrier open, `Promised`: what the two flags of a timer say
  of the callback that is promised).

Hypotheses: barriers with waiters are not destroyed (`Destroys # "any"`: `barrier_done`
forgets them), timers do not change from recurring to one-shot (`~Toggles`: called
twice), and for the callbacks no timer is stopped (`~Stops`: `timer_set` flags it as
expired).

### Events and alarms (`AlarmProofs`)

* **EventsAreSound**, `Spec => []EventsSound`. `LinkInv`: a node is in one place of one
  queue, a queue that does not exist holds nothing, and an alarm whose event is queued
  has not been freed and is not armed, so that the interrupt does not link it again;
  `SleepInv`: a sleeper is the watcher of the queue it waits for and has its bit.
* **AlarmsSendInTime**, `Spec => SentInTime`, from `TimeInv`: an armed alarm owes an
  event, and the expiration of an alarm that was set and not stopped, also of one that
  has sent its event and was not acknowledged yet, is the end of the interval its user
  counts.
* **WaitsGetEvents**, `Spec => UntimedGetsEvent`. `CallInv`: a thread watches one queue
  (`WatchOnce`), and a thread that was resumed from an untimed wait has an event in it
  (`WokenFindEvents`), since only the watcher takes events out.

Hypotheses: users do not restart or free an alarm whose event is still linked
(`~Hasty`); a thread watches one queue (`~WatchMany`: an event of the other queue wakes
it); for `SentInTime`, the clock interrupt does not find an alarm that `alarm_create` has
linked and not filled in (`~CreateCut`: it would go by what the memory held); the alarms
are finitely many, because the interrupt visits them all.

### Character drivers, I/O waits and poll (`CharDriverProofs`)

* **RingsAreSound**, `Spec => []RingsSound`, for every `BUF_SIZE`, length of FIFO and
  transfer, without any hypothesis: also when interrupts fall between test and wait
  (`Races`) and when threads share the device. Two lemmas about
  `cbuffers.h` carry it: **StoredRing** (bytes that fit the free space are appended to the
  contents) and **RemovedRing** (what is taken is a prefix, what is left the rest), both
  from the arithmetic of the wrapped indices (`Indices`). Each user of a ring is then
  shown to store no more than is free and to take no more than is in use.
* **WaitQueuesAreSound**, `Spec => []WaitQueuesSound`. The inductive invariant `QueueInv`
  has six parts. `ChainInv`: the nodes that the links of a wait queue lead to are linked
  both ways, each once, as many as the counter says, allocated, and in no other queue;
  `SleepInv`: a thread asleep in a read or a write is marked, or an item of its own is in
  the queue of its direction; `PollInv`: the table of a poll, and that its items, if they
  are still linked, are linked where the table says and, once they are filled in, are marked
  as the poll's, so that `cleanup`, which unlinks and
  frees them without asking, takes back nothing that is somebody else's; `RunInv` and
  `JobInv`: who is between a test and a wait, and who shares the device; `TypeInv`. What a walk over links
  visits is an induction over the links; it is made from the pigeonhole theorem of the
  finite sets (`UpTo`: a set that holds 0 and is closed under the next number, up to c,
  holds c), and gives `WalkFinds`. `AppendHolds` and `RemoveHolds` then say what
  `list_append` and `list_remove` of `list.c` do to the contents of a list; a poll that
  takes its items back after an interrupt removes them from a list that is empty.
* **NobodyIsForgotten**, `Spec => []NobodyForgotten`, from `MarkInv` on top of `RingInv`
  and `QueueInv`: what a caller found when it tested the ring still holds when it sleeps
  (`TestInv`), bytes to send keep the transmitter interrupt enabled and are a writer's
  (`SendInv`), a poll is signalled once there are bytes, or has found them itself, and is
  marked if it was signalled after it looked (`SignalInv`), and the item of a poll that was
  not signalled is still in the queue for input (`HeldInv`). `NobodyForgotten` by itself is not inductive: without `QueueInv` the
  interrupt could empty a queue and miss the sleeper.

Hypotheses: threads that share a device do the same with it and do not poll it
(`~Sharing`: `cleanup` of a poll takes back an item that belongs to another waiter by then);
no address of a poll table ends in the number of a thread (`~Aliases`: `tid` and `pt` are
members of a union, `io_waits_private.h:33-36`, and `cancel_io_waits` compares the first
whatever the item is); and for the second no interrupt between the test of a ring and the
wait or the registration that follows (`~Races`) and no stop of the driver while there is a
writer (`~Stops`). An interrupt between the look of poll and its sleep is not excluded. Section 6 shows what happens without each.

### The network card and its queues (`DeviceProofs`)

* **NetworkIsSound**, `Spec => []NetworkSound`, and **RingIsSound**,
  `Spec => [](RingInStep /\ FramesPending)`. The inductive invariant `NetInv` has six
  parts. `CardInv` is about the ring: `CBR` of the card and `CAPR` of the driver, which
  is kept sixteen bytes behind and wraps in another space than the ring, are the same
  place plus what the frames in between occupy (`PlaceInv`); each frame starts where the
  one before it ends, aligned (`ChainInv`); while frames are there the interrupt is
  pending or the handler will test the ring again (`PendingInv`). `BufInv` is about the
  packets: the queues are rings whose indices stay inside and hold no packet twice
  (`QueueInv`), a packet is free, in one queue, being sent or in the hands of the network
  thread, never two of them (`ApartInv`), though it may be none: the IN queue may refuse it, and the
  pool does not take back a packet that is not the oldest (`pakman.c:225-228`). `FifoInv`: as
  long as nobody sends and none was refused, the packet the network thread has is the
  oldest of the pool and those of the IN queue follow it, so that none will be refused.
  `OrderInv`: what waits in the
  IN queue is in the order of arrival and after what was delivered. `AwakeInv`: a network
  thread that sleeps or is about to has its barrier open if a queue holds something.
  `LinkInv`: what the driver remembers of the link. The arithmetic of the ring rests on
  `ModAdd` and `Multiple`: offsets are reduced twice, by the address space of the
  register and by the length of the ring, which divides it.

Hypotheses: one thread sends (`SingleSender`: `netbuf_out` takes no lock, its comment
calling the queues contention free by design, and the model lets its test and copy,
`cbuffer_add` and `barrier_open` interleave with other threads, so that two senders would
store at the same place) and the link does not change while the driver is stopped
(`~LinkWhileStopped`: the change is lost, section 6). Neither is needed for the ring.

### The clock (`DeviceProofs`)

* **ClockIsSound**, `ClockSpec => []ClockSound`. `NeverAhead` is not inductive: the
  invariant `ElapsedInv` counts what the device has counted and the elapsed counter has
  not (the period less what is left of it, or a whole period when the interrupt is
  pending), and `PeriodInv` says that the period the interrupt will add is the one the
  device counts, except between the programming of the device and the assignment to
  `period`, when the device has counted no more than `Slack`. `TimeExact` is arithmetic:
  `DivAdd` (a quotient taken in two parts), and the distance of a rounded quotient.

Hypotheses: no callback of the interrupt cuts a call of a thread (`InCallbacks`) and the
assignment follows the programming within the shortest period of the device
(`Slack < MinCounter`), both shown necessary in section 6; a client asks for a
millisecond at least (a period of 0 is stored as counter value 0, which is below every
other and which the device refuses).

### Devices and descriptors (`DeviceProofs`)

* **DevicesAreSound**, `DevicesSpec => []DevicesSound`. `ListInv`: the list is strictly
  sorted, so that a search that stops at the first name not before the one it looks for
  passes over nothing (`LookupFinds`), and stays so when a device is inserted in front
  of that place (`InsertKeeps`). `UiInv`: no user interface runs before `walk.ui` says so.
* **DescriptorsAreKept**, `DevicesSpec => DescriptorKept`, from `FdInv`: a descriptor in
  use has a device of the list under its name, and the list no longer changes once there
  can be one.

Hypothesis of the first: a driver has at most ten units, because only the last digit of
a unit is printed into the name (section 6). The second holds for any.

### Only model-checked, and why

Liveness (`ResumedLeaves`, `TimeoutEnds`, `LockReturned`, `OpenResumes`, `DueCalled`,
`EventWakes`, `QueuesDrain`): fairness and ENABLED are outside the reach of the prover.
The libraries (`ContainersSound`,
`StorageSound`, `LibcExact`, `StreamsSound`, `PathsExact`), the file system
(`VolumeSound`, `EntriesSound`, `ReadExact`, `StoreImplemented`) and parts of `MachineSound`
and `ConsoleSound` are recursive or compare a computation with a reference over bounded
inputs: what they compute for every input is an induction over data. `HoldersKeep` and
`MachineSound` also speak of bit masks of the machine, whose operators the prover does
not know; the part of `HoldersKeep` about descriptors is DescriptorsAreKept.

## 5. What could follow

1. `ChunksAccounted` of ChunkPools for every size of the arrays.
2. `OneReader` and `IdleEnded` of Session for every time and number of keys.

## 6. Where the code and its documents disagree

Each of these was met while modelling. Two have a run of their own:

* `sched_v_kill_delayed`: a sleeping thread that is killed is lost: `schedule_delayed`
  takes it out of its queue and `scheduler_resume_thread` refuses it
  (`scheduler.h:124` promises the dead queue).
* `mutex_v_timed_out`: a caller that was told `ETIMEDOUT` becomes the owner later.

The others are shown by the same modules with other constants: take the
configuration, change the constants as said, and check the property alone (with
the configuration's specification unless said otherwise). "-" means that no constant changes.

| configuration | change | property | what happens |
|---|---|---|---|
| `SchedLifecycle` | `CreatePrios={1}` `Sources={}` `WaitKinds={"MUTEX"}` `KillTargets={{},{"MUTEX"}}` `Calls={"suspend","wait","kill"}` | DeadIsOrphaned | killing a thread that waits for a mutex links it in two queues (`scheduler.c:599-607`) |
| | `Calls={"suspend","terminate"}` | StackInUse | `thread_terminate` frees the stack it is executing on (`scheduler.c:130-132` says that must not happen) |
| | `Calls={"suspend","may_suspend"}` `KillTargets={{}}` | MaySuspendYields | `thread_may_suspend` does not yield to equal priorities (`docs/diegos.txi:326-327`) |
| `SchedLive` | `Delays={}` `Timeouts={0}` `Calls={"suspend","wait"}` `MaxTime=0` | WaitPassComplete | `schedule_waiting` skips the entry behind one it takes out (`scheduler.c:270`) |
| `MutexCalls` (MCSpec) | `Thread={t1,t2,t3}` `Reuse=FALSE` `Untidy=TRUE` | OwnerAwake | a kill hands a mutex over without resuming the new owner |
| | `Mtx={m1}` `Kills=FALSE` `Reuse=FALSE` | LockAnswersEOK | taking a free mutex answers `EBUSY` (`mutexes.h:45-47`) |
| | `MaxTime=3` `Mtx={m1}` `Timeouts={1}` `Kills=FALSE` `Reuse=FALSE` | MutualExclusion | expired entries fill the buffer, and the refused caller is answered like a successful one |
| `MutexCalls`, module Mutex (Spec, without the constants of MCMutex) | `Thread={t1,t2,t3}` `Mtx={m1}` `Slots=3` | MutualExclusion | the entries of killed waiters are cancelled and not taken out; new threads in their slots fill the buffer, and the refused caller is answered like a successful one |
| `BarrierTimerCalls` (MCSpec) | `Destroys="any"` | WaitersListed | `barrier_done` does not open the barrier first, and leaves its waiters asleep for ever |
| `BarrierTimerCalls`, module Timers (FairSpec) | `Thread={tmr,app}` `Barrier={bar}` `Timer={x1}` | BarCloses | a tick while Timers runs leaves its barrier open: Timers never sleeps again |
| | the same and `Stops=TRUE` | CallbackInTime | stopping a timer flags it as expired, and its callback is invoked |
| | the same and `Toggles=TRUE` | CallbackInTime | a timer made one-shot between expiry and callback is called twice |
| `AlarmEvents` | `Hasty=TRUE` | EventsSound | destroying an alarm whose event has been sent leaves the event, freed with it, in the queue (`alarms.c`) |
| | `WatchMany=TRUE` `Queue={q1,q2}` `Alarm={}` `Event={e1}` `Kills=FALSE` `Thread={t1}` | UntimedGetsEvent | a thread that watches two queues returns from a wait without a timeout with nothing: the event was for the other queue |
| | `CreateCut=TRUE` | SentInTime | `alarm_create` links the alarm before it clears its flags (`alarms.c:127`, `138`), unlocked: the clock interrupt sends the event of an alarm nobody has set, by the flags, expiration and queue that were in memory |
| | none | CrossedSkipped | an interval that was crossed is not skipped: a late acknowledgement re-arms with a time that is past and the event follows at once (`alarms.h:70-73`, `alarms.c:195`) |
| `IoCalls` | `Sharing=TRUE` | SleeperReached | a poll of a shared queue takes back an item that was freed and given to another waiter |
| | `Sharing=TRUE` `PollTimes={0}` | UntimedPoll | a poll without a timeout returns with nothing |
| | `Races=TRUE` | ReaderMarked, WriterMarked, PollMarked | a byte between the test of the ring and the wait is not seen until the next one; nor is one between the test of a poll and its registration, or between the linking of its item and the setting of its kind (`16550d.c:609-618`, `i8042.c:268-272`, `poll.c:274-281`) |
| | `Sharing=TRUE` `Aliases=TRUE` `Device={"kbd"}` `Thread={t1,t2,t3}` `Job={"read","poll","none"}` `PollTimes={0}` `Bytes={1}` | PollMarked | `tid` and `pt` of an item are a union: killing a reader takes out the item of a poll whose table has an address that ends in the reader's number (`io_waits_private.h:33-36`) |
| | `Stops=TRUE` | WriterMarked | a driver that is stopped and started again leaves its writer asleep |
| `Libraries` | - | RangeIncludesEnds | the range of a tree leaves its ends out (`red_black_tree.h`) |
| | - | RefusalKeepsTree | an insertion that is refused leaves a red root, which `rbtree_verify` does not accept |
| | - | IoOrdered, IoDisjoint | carving a hole breaks the order of the I/O blocks, and then two overlap |
| | - | CreatedAlways | a path that ends with a separator cannot be created |
| | `LenSets={{1,7}}` | PacketsDisjoint | the next chunk wraps only exactly at the end of the storage: a longer packet reaches past it |
| | `StorageAt={2}` | PacketsDisjoint | the storage is as large as its lines (`pakman.c:154`) and its start is rounded up afterwards (`161`, `165`): the last line lies behind it |
| | - | TempAlways | the precision of %u is not limited, nor the prefix of an octal number counted: the digits leave `temp` (`doprnt.c:292`, `323-328`, `kprintf.c:350`) |
| | - | PrefixReadsBack | the prefix that `#` asks for is put before the fill, or cut into it, and `strtol` reads another number (`doprnt.c:323-342`) |
| | `Updates=TRUE` | BuffersInside, OutputExact, InputInOrder | a stream that was opened to be updated and read to its end is written with no free place, and its count becomes `UINT_MAX` (`fopen.c:72-75`, `writebuffer.c:47-48`) |
| | `Misreads=TRUE` | OutputExact | reading from a stream that is only written loses what its buffer held |
| | `OnlyBesides=FALSE` | RelativeLeads | a relative path is wrong when two names only share their first letters, or one path is inside the other |
| `FatCalls` | `BytesPerCluster=2` `Offsets={0,1,2,3}` `MaxFaults=0` `FilePaths <- CfgDots` | DiskSound | the dot entry of a directory can be renamed, and then two entries share a chain |
| | `MaxFaults=0` `FormatMounted=TRUE` | TableFlushed | formatting a mounted volume leaves the old table in memory |
| | `MaxFaults=0` | ReadAnywhere | a read that begins inside a cluster and goes on in the next does not return what is there |
| | `BytesPerCluster=2` `Offsets={0,1,2,3}` `FaultKinds={"fail"}` | NamesUnique, DiskSound | a disk access whose failure is not looked at leaves two entries of one name, or a chain that does not hold its file |
| | `BytesPerCluster=2` `Offsets={0,1,2,3}` `MaxFaults=0` `MaxRenames=2` | NamesUnique | a second renaming makes two entries of one name |
| | `BytesPerCluster=2` `Offsets={0,1,2,3}` `MaxFaults=0` | SpaceReturned | the clusters of a deleted file keep a mark that is not that of a free cluster (`fat.h` releases them) |
| | `FilePaths <- CfgBelow` | VolumeSound, StoreImplemented | nothing asks whether the place a name is created below is a directory (`fat.c:557-567`, `720-730`): below an empty file, whose cluster is 0, the entry is written over the table (`fat_internals.h:59-62`) |
| `DeviceCalls` | - | AccessAgrees, BusyReported, DirectionKept | `access`, the error of a busy device and the directions of `fcntl` disagree with the transfers |
| | `Units={0,10}` | CreatedFound | units 0 and 10 have one name |
| | - | IndexFound | the search by index walks the tree that is sorted by name |
| | `RxSizes={1,5}`; `LoWords=8` | LoopFits; LoopInside | the loopback copies more than the receiver has room for; it writes past its buffer |
| | - | SearchGoesOn | a PCI search does not go on behind a function it has found |
| | - | ShiftWorks | a letter with a shift key held is a lower case letter |
| | `ModifierKeys={"LSHIFT","LCTRL","RCTRL"}` | ModifiersKnown | the two control keys share a bit: releasing one releases the other |
| | `BackAnywhere=TRUE` | ScreenShowsTail, InsideBuffer | a backspace at the first column of a scrolled screen does not go back to the row above; at the first place of the buffer it writes before it, and `cur_pos` becomes `UINT_MAX` (`vga_tty.c:311`) |
| | `FillChars={200}` | ConsoleSound | a character above 127 is negative when it is added to the colour, and takes one from it (`vga_txt.c:377`) |
| | - | FontInside | `write_font` reads 8192 bytes of a font of 4096 (`vga_txt.c:294`) |
| | - | IdleWhole | a session is ended before it was idle for the whole time |
| | `MayLackMemory=TRUE` | IdleEnded | the event that tells Login of a logout finds no memory, and Login later kills a Console that has ended |
| | `SlowFarewell=TRUE` | IdleEnded | Login prints before it kills Console (`console.c:283-286`) and the line may make it wait: a key or a logout in between ends a session that is not idle, or one that has ended |
| | `LongLines=TRUE` `MaxNow=1` `MaxPressed=6` | LineExact | a long line leaves its buffer |
| | - | QuietStart | calls of the BIOS end with `sti` (`int86.s:217`, `253`), also those that a driver makes while the start holds `lock()` (`vesa.c:86`, `platform_init.c:130`): "do not enable interrupts" (`diegos_init.c:164-165`) |
| | `PanicBy={3}` | ExitsInside | a panic in an application thread calls exit again from inside exit, whose counter has passed zero |
| | `InCallbacks=TRUE` | ShortestProgrammed | a period set inside a clock callback while a thread is in `clock_set_period` is overwritten by the older choice |
| | `Slack=2` | NeverAhead | counts that pass while the period is changed are added twice |
| | - | DelaysLong | `mdelay` may be shorter than asked (`delays.h`) |
| | `PhysBits={6}` or `AnyRange=TRUE` | RangesExact | the mask of a memory type range covers other pages than those asked for |
| | `KnowsDF=FALSE` | A20Open | a keyboard controller that does not take 0xDF as a command leaves gate A20 closed, and the loader goes on |
| | - | EntriesAgree | changing a partition sets its first sector and leaves the cylinder, head and sector the loader reads from (`fat/main.c`, `do_write_mbr`) |
| | - | LinkDetected, OwnKept | a link change that is pending when the driver is stopped and started again is not seen; the transmit descriptors lose their OWN bit (`rtl8139.c:252-259`) |
| | - | NoneLeaked | a packet that the full IN queue refuses is not given back |
| | - | PutAccepted | the pool takes back its oldest packet only and answers `EPERM` (`pakman.c:225-228`, `net_buffers.c:93-97`), which the network thread does not look at (`network_core.c:82`, `87`): as packets are received and sent in turns they are lost, and block the pool |

Video keeps to calls that these do not touch, and models the code as it is:
`vesa.c` draws lines that are wider than high from left to right with a pixel too many
in each row, and level ones from right to left from the wrong end; a `set_resolution`
that finds no mode leaves `vesa_gmode` describing the last one it looked at; text and
sprites step by `XResolution` where offsets use `LinBytesPerScanLine`; levels of 254 and
255 are rounded to 64, which six bits do not hold; `vga.c` loads the first sixteen
colours of the converter while the attribute registers name others;
`vga_draw_sprite` draws one byte of a sprite.

`open` allocates `strlen(filename)` bytes for a copy of the name and its end
(`open.c:72`), one too few; Devices has no memory and does not show it.

In the other direction, `MutexCalls` with MCSpec, `MaxTime=1`, `Timeouts={0,1}`,
`Kills=FALSE` and `Reuse=FALSE` checks that `OwnerAwake` survives timed calls that race the
unlock, and passes.

## 7. Not modelled

* Spinlocks: a flag and a loop of `thread_suspend`; no part of the repository uses them.
* The tables of registers and fonts of the video drivers (parameters of Video), the
  descriptor tables of the processor, the registers of the interrupt controllers apart
  from their masks: effects on hardware that no state of the system depends on.
* Floating point (`ext_comp.c`, `flt_arith`, the conversions of printf and scanf that
  use them): TLA+ has no such numbers, and a model of their bits would be the code again.
* `setvbuf`, `freopen`, `fdopen`, `fseek`, `ftell`; dumps; accessors.
* The menus and tests of `fat/main.c` and the demonstrations: input and output; they are
  the callers every module leaves free to make any call.
* The clock period that timers and alarms ask for is state of Clocks only; the 32 bit
  width of the products of the time conversions is left out.
