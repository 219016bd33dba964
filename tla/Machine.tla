------------------------------ MODULE Machine ------------------------------
(***************************************************************************)
(* The start of the system (kernel/diegos_init.c, kernel/kernel.c,         *)
(* platforms/pc/platform_init.c), its end (kernel_panic, abort, exit,      *)
(* kernel_done) and what both rest on: the nested interrupt lock and the   *)
(* table of interrupt handlers (platforms/ia32).  A step of DiegOS() is    *)
(* one action, and while it runs the code it calls may lock and unlock and *)
(* register its handlers.                                                  *)
(***************************************************************************)
EXTENDS Integers, Sequences, FiniteSets, Bitwise

CONSTANTS
    Vectors,        \* the interrupt vectors drivers ask for
    MAX_VECTOR,     \* the first vector without an entry in int_table
    Takers,         \* the drivers
    MaxNest,        \* bound on the nested locks
    UintMax,        \* the largest unsigned
    NEXITS,         \* how many exit handlers there are place for
    PanicAt,        \* the steps of the start, and "running", that may fail
    PanicBy         \* the threads that may fail: Idle 1, Timers 2, another 3

ASSUME MachineAssumption == UintMax \in Nat \ {0} /\ MaxNest \in Nat /\ NEXITS \in 1 .. UintMax

VARIABLES
    stage,          \* the step of DiegOS(), or of the end
    locked,         \* the counter of lock()
    intr,           \* whether the processor takes interrupts
    bios,           \* int86 has been called since the last lock()
    int_table,      \* the handlers
    irqs,           \* the lines the controller lets through
    exits,          \* the exit handlers: [num, fns]
    killing         \* kernel_done: the thread it is at, the calls of exit below it

machineVars == <<stage, locked, intr, bios, int_table, irqs, exits, killing>>

Stages ==
    <<"processor", "platform", "malloc", "iomalloc", "lock", "tty", "atexit", "libs", "drivers",
      "kernel", "threads", "unlock", "apps", "run", "running">>
At(s) == CHOOSE i \in DOMAIN Stages : Stages[i] = s
Booting == stage \in {Stages[i] : i \in DOMAIN Stages}
Default == "default"
Threads0 == <<"Idle", "Timers", "other">>           \* thread 0, thread 1 and the others

(***************************************************************************)
(* Interrupts.                                                             *)
(***************************************************************************)
idt_init == [v \in Vectors |-> Default]

lock == locked' = locked + 1 /\ intr' = FALSE /\ bios' = FALSE

UnlockAtOnce(n, i) == [locked |-> IF n = 0 THEN 0 ELSE n - 1, intr |-> TRUE]
Unlocked(n, i) ==
    IF n = 0 THEN [locked |-> 0, intr |-> i] ELSE [locked |-> n - 1, intr |-> i \/ n = 1]
unlock == LET u == Unlocked(locked, intr) IN locked' = u.locked /\ intr' = u.intr /\ UNCHANGED bios

Usable(v) == v >= 32 /\ v < MAX_VECTOR
AddTakes(v, d) == Usable(v)
AddAccepts(v, d) == Usable(v) /\ int_table[v] = Default
add_int_cb(v, d) ==
    int_table' = IF AddAccepts(v, d) THEN [int_table EXCEPT ![v] = d] ELSE int_table
del_int_cb(v) == int_table' = IF Usable(v) THEN [int_table EXCEPT ![v] = Default] ELSE int_table

(* Both end with sti, whatever the lock says.                              *)
enable_irq(v)  == irqs' = irqs \cup {v} /\ intr' = TRUE
disable_irq(v) == irqs' = irqs \ {v} /\ intr' = TRUE

enable_int(v) ==
    IF v > 31 /\ v < 48 THEN enable_irq(v) ELSE UNCHANGED <<irqs, intr>>
disable_int(v) ==
    IF v > 31 /\ v < 48 THEN disable_irq(v) ELSE UNCHANGED <<irqs, intr>>

(* A call of the BIOS ends with sti, whatever the lock says, and sets the  *)
(* controller up again for it: the first word of that opens every line.    *)
Lines8259 == {v \in Vectors : v > 31 /\ v < 48}
int86 == intr' = TRUE /\ bios' = TRUE /\ irqs' = Lines8259

(***************************************************************************)
(* The start.  A library, the clock or the scheduler that cannot be        *)
(* initialised panics; a device that is missing aborts; an allocator that  *)
(* cannot be initialised ends the system at once.                          *)
(***************************************************************************)
Advance == stage' = Stages[At(stage) + 1]

atexit ==
    /\ exits' = IF exits.num < NEXITS THEN [num |-> exits.num + 1, fns |-> Append(exits.fns, "kernel_done")]
                ELSE exits
    /\ IF exits.num <= NEXITS THEN Advance ELSE stage' = "wild"

(* What panics and abort do first: they leave the step for exit.           *)
Leaves(me, alive) ==
    /\ stage' = "exit"
    /\ killing' = [thread |-> 0, me |-> me, alive |-> alive, from |-> stage]

(* A step of DiegOS() that goes on, or ends here where PanicAt allows it   *)
(* to fail; alive is how many threads there may be by then.                *)
GoesOnOrFails(alive) ==
    \/ Advance /\ UNCHANGED killing
    \/ stage \in PanicAt /\ \E n \in alive : Leaves(0, n)
OnlyStages == UNCHANGED <<locked, intr, bios, int_table, irqs, exits>>

processor_init ==
    /\ stage = "processor" /\ Advance
    /\ int_table' = idt_init
    /\ UNCHANGED <<locked, intr, bios, irqs, exits, killing>>

(* The BIOS is asked for the memory, then i8259_init masks all the lines.  *)
platform_init ==
    /\ stage = "platform" /\ Advance
    /\ intr' = TRUE /\ bios' = TRUE /\ irqs' = {}
    /\ UNCHANGED <<locked, int_table, exits, killing>>

(* The BIOS is asked again.  An allocator that fails calls kernel_done,    *)
(* which has no thread to kill.                                            *)
memory_init ==
    /\ \/ stage = "malloc" /\ int86
       \/ stage = "iomalloc" /\ UNCHANGED <<intr, bios, irqs>>
    /\ Advance \/ stage' = "halted"
    /\ UNCHANGED <<locked, int_table, exits, killing>>

start_locks == stage = "lock" /\ lock /\ Advance /\ UNCHANGED <<int_table, irqs, exits, killing>>
tty_init == stage = "tty" /\ GoesOnOrFails({0}) /\ OnlyStages
registers_exit == stage = "atexit" /\ atexit /\ UNCHANGED <<locked, intr, bios, int_table, irqs, killing>>
kernel_libs_init == stage = "libs" /\ GoesOnOrFails({0}) /\ OnlyStages

(* Without a PCI bus it goes on with no devices; a device that cannot be   *)
(* created or a standard descriptor that cannot be opened aborts.  What    *)
(* the drivers do meanwhile are Section, Register and BiosCall.            *)
drivers_init == stage = "drivers" /\ GoesOnOrFails({0}) /\ OnlyStages
kernel_init == stage = "kernel" /\ GoesOnOrFails({0}) /\ OnlyStages
kernel_threads_init == stage = "threads" /\ GoesOnOrFails(0 .. 2) /\ OnlyStages
start_unlocks == stage = "unlock" /\ unlock /\ Advance /\ UNCHANGED <<int_table, irqs, exits, killing>>
platform_run == stage = "apps" /\ Advance /\ OnlyStages /\ UNCHANGED killing
kernel_run == stage = "run" /\ Advance /\ OnlyStages /\ UNCHANGED killing

DiegOS ==
    \/ processor_init \/ platform_init \/ memory_init \/ start_locks \/ tty_init \/ registers_exit
    \/ kernel_libs_init \/ drivers_init \/ kernel_init \/ kernel_threads_init \/ start_unlocks
    \/ platform_run \/ kernel_run

(* The libraries and the drivers lock for a while, and the drivers         *)
(* register their handlers; once started they open their lines.            *)
Busy == stage \in {"libs", "drivers", "kernel", "threads", "apps", "run", "running"}
Section ==
    /\ Busy
    /\ \/ locked < MaxNest /\ lock
       \/ locked > (IF At(stage) > At("lock") /\ At(stage) <= At("unlock") THEN 1 ELSE 0) /\ unlock
    /\ UNCHANGED <<stage, int_table, irqs, exits, killing>>

Register ==
    /\ stage \in {"drivers", "run", "running"}
    /\ \E v \in Vectors, d \in Takers : add_int_cb(v, d) \/ (int_table[v] = d /\ del_int_cb(v))
    /\ UNCHANGED <<stage, locked, intr, bios, irqs, exits, killing>>

(* vesa_init asks the BIOS while DiegOS() has the lock; later threads do,  *)
(* to set a mode or to dump the memory.                                    *)
BiosCall ==
    /\ stage = "drivers" \/ (stage \in {"run", "running"} /\ locked = 0)
    /\ int86 /\ UNCHANGED <<stage, locked, int_table, exits, killing>>

StartDriver ==
    /\ stage \in {"run", "running"} /\ locked = 0
    /\ \E v \in Vectors : int_table[v] # Default /\ (enable_int(v) \/ disable_int(v))
    /\ UNCHANGED <<stage, locked, bios, int_table, exits, killing>>

(***************************************************************************)
(* The end.  exit runs the handlers from the last to the first, and the    *)
(* counter passes zero when it stops.  kernel_done kills every thread but  *)
(* the one running; Idle and Timers cannot be killed, which panics again,  *)
(* inside the first call.                                                  *)
(***************************************************************************)
(* A thread panics, when the system runs.                                  *)
kernel_panic ==
    /\ stage = "running" /\ stage \in PanicAt
    /\ \E me \in PanicBy : Leaves(me, 3)
    /\ OnlyStages

exit ==
    /\ stage = "exit"
    /\ exits' = [exits EXCEPT !.num = IF @ = 0 THEN UintMax ELSE @ - 1]
    /\ stage' = CASE exits.num = 0 /\ killing.thread > 0 -> "kill"
                  [] exits.num = 0 /\ killing.thread = 0 -> killing.from
                  [] exits.num > 0 /\ exits.num <= Len(exits.fns) -> "kill"
                  [] OTHER -> "wild"
    /\ UNCHANGED <<locked, intr, bios, int_table, irqs, killing>>

KillsAll(t) == TRUE
Kills(t) == t # killing.me
kernel_done ==
    /\ stage = "kill"
    /\ IF killing.thread >= killing.alive THEN stage' = "halted" /\ UNCHANGED killing
       ELSE /\ killing' = [killing EXCEPT !.thread = @ + 1]
            /\ stage' = IF Kills(killing.thread + 1) /\ Threads0[killing.thread + 1] # "other" THEN "exit" ELSE "kill"
    /\ UNCHANGED <<locked, intr, bios, int_table, irqs, exits>>

MachineInit ==
    /\ stage = "processor" /\ locked = 0 /\ intr = FALSE /\ bios = FALSE
    /\ int_table = [v \in Vectors |-> "null"] /\ irqs = {}
    /\ exits = [num |-> 0, fns |-> <<>>]
    /\ killing = [thread |-> 0, me |-> 0, alive |-> 0, from |-> "none"]

MachineNext ==
    DiegOS \/ Section \/ Register \/ BiosCall \/ StartDriver \/ kernel_panic \/ exit \/ kernel_done

(***************************************************************************)
(* Properties                                                              *)
(***************************************************************************)

(* However the sections of the libraries and the drivers nest, an unlock() *)
(* inside another section does not let interrupts in: while a lock is held *)
(* the processor takes none, unless the BIOS has been called after it was  *)
(* taken.                                                                  *)
NoneWhileLocked == intr /\ locked > 0 => bios

(* diegos_init.c, of the drivers: "do not enable interrupts": there are    *)
(* none between lock() and unlock() of DiegOS().                           *)
QuietStart ==
    Booting /\ At("lock") < At(stage) /\ At(stage) <= At("unlock") => ~intr

(* Once a driver has a vector no other driver takes it over: its handler   *)
(* stays until it is deleted, whoever asks for the vector in between.      *)
HandlerKept == [][\A v \in Vectors : int_table[v] \in Takers => int_table'[v] \in {int_table[v], Default}]_machineVars

(* However the system ends, exit calls only handlers that were registered. *)
ExitsInside == stage # "wild"
(***************************************************************************)
(* The measures the machine takes of itself at the start: how many turns   *)
(* of a loop last a millisecond (delays.c), how fast the counter of the    *)
(* local APIC runs (lapic.c), and which pages may be cached (mtrr.c).      *)
(* Time is counted in turns of the loop: a millisecond is `milli` of them, *)
(* and the calls around a loop take up to Overhead turns more.             *)
(***************************************************************************)
CONSTANTS
    BASE_VALUE,     \* the first guess of the turns in a millisecond
    LongBits,       \* bits of an unsigned long
    Millis,         \* turns in a millisecond of the machines considered
    Overhead,       \* turns the calls around a loop may last
    Rates,          \* steps of the APIC counter in a turn
    PerSecond,      \* milliseconds in a second
    REF_FREQ,       \* the reference frequency of the APIC driver
    MicroPerMilli,  \* microseconds in a millisecond
    PageBits,       \* bits of the number of a page of a 32 bit address
    MaskBits,       \* bits of the word a mask of pages is kept in
    PhysBits,       \* bits of the number of a page the processors have
    MtrrCount,      \* variable ranges of the processor
    AnyRange        \* whether a range may be of any size and at any page

ASSUME TimingAssumption ==
    /\ {LongBits, Overhead, PerSecond, REF_FREQ, MicroPerMilli, PageBits, MaskBits, MtrrCount} \subseteq Nat
    /\ Millis \subseteq Nat /\ Rates \subseteq Nat /\ PhysBits \subseteq Nat /\ AnyRange \in BOOLEAN
    /\ \E n \in 1 .. LongBits : BASE_VALUE = 2 ^ n

VARIABLES
    milli,          \* turns of the loop in a millisecond
    search,         \* calibrate_delay: [at, finder, delta]
    loops_per_msec,
    apic,           \* [at, reads, frequency, divisor], and the rate of the counter
    mtrr            \* [phys, mask, asked, regs]

timingVars == <<milli, search, loops_per_msec, apic, mtrr>>

ULong(n) == n % 2 ^ LongBits

(***************************************************************************)
(* calibrate_delay.  A probe starts at a tick of the timer and sees the    *)
(* next one if the loop and the calls around it last a millisecond.        *)
(***************************************************************************)
Sees(n, extra) == n + extra >= milli

(* Longer and longer loops, until one sees the tick, or the value is lost. *)
calibrate_doubles ==
    /\ search.at = "doubling"
    /\ \E extra \in 0 .. Overhead :
         LET next == ULong(search.finder * 2)
         IN  IF Sees(search.finder, extra)
             THEN /\ search' = [at |-> "halving", finder |-> search.finder \div 2, delta |-> search.finder \div 4]
                  /\ UNCHANGED loops_per_msec
             ELSE /\ search' = [search EXCEPT !.finder = next, !.at = IF next = 0 THEN "done" ELSE @]
                  /\ loops_per_msec' = IF next = 0 THEN 2 ^ LongBits - 1 ELSE loops_per_msec
    /\ UNCHANGED <<milli, apic, mtrr>>

(* Then ever finer ones, each kept only when it does not see the tick.     *)
KeepsLong(finder, delta, sees) == finder + delta
Refined(finder, delta, sees) == IF sees THEN finder ELSE finder + delta

calibrate_halves ==
    /\ search.at = "halving" /\ search.delta # 0
    /\ \E extra \in 0 .. Overhead :
         search' = [search EXCEPT !.finder = Refined(@, search.delta, Sees(@ + search.delta, extra)),
                                  !.delta = @ \div 2]
    /\ UNCHANGED <<milli, loops_per_msec, apic, mtrr>>

calibrate_ends ==
    /\ search.at = "halving" /\ search.delta = 0
    /\ search' = [search EXCEPT !.at = "done"] /\ loops_per_msec' = search.finder
    /\ UNCHANGED <<milli, apic, mtrr>>

(***************************************************************************)
(* The delays.                                                             *)
(***************************************************************************)
mdelay(msecs) == ULong(loops_per_msec * msecs)
RoundedDown(product, per) == product \div per
Rounded(product, per) == (product \div per) + (IF product % per > per \div 2 - 1 THEN 1 ELSE 0)
udelay(usecs) == Rounded(ULong(loops_per_msec * usecs), MicroPerMilli)
ndelay(nsecs) == Rounded(ULong(loops_per_msec * nsecs), MicroPerMilli * MicroPerMilli)

(***************************************************************************)
(* The local APIC.  Unless the processor tells the frequency, its counter  *)
(* is read after each of three delays of a millisecond.                    *)
(***************************************************************************)
lapic_init ==
    /\ apic.at = "start" /\ search.at = "done"
    /\ \/ apic' = [apic EXCEPT !.at = "divisor", !.frequency = apic.rate * milli * PerSecond]
       \/ apic' = [apic EXCEPT !.at = "reading"]
    /\ UNCHANGED <<milli, search, loops_per_msec, mtrr>>

MeanOfTwo(reads) == (reads[1] + reads[2] + reads[3]) \div 2
Mean(reads) == (reads[1] + reads[2] + reads[3]) \div 3

calibrate_lapic ==
    /\ apic.at = "reading"
    /\ \E extra \in 0 .. Overhead :
         LET reads == Append(apic.reads, apic.rate * (mdelay(1) + extra))
         IN  apic' = IF Len(reads) = 3
                     THEN [apic EXCEPT !.at = "divisor", !.reads = reads, !.frequency = Mean(reads) * PerSecond]
                     ELSE [apic EXCEPT !.reads = reads]
    /\ UNCHANGED <<milli, search, loops_per_msec, mtrr>>

(* The smallest power of two that brings the frequency down to the         *)
(* reference; the register takes no more than 128.                         *)
Divisor(f) ==
    CHOOSE d \in {2 ^ i : i \in 0 .. 7} :
        /\ f \div d <= REF_FREQ \/ d = 128
        /\ \A i \in 0 .. 7 : 2 ^ i < d => f \div 2 ^ i > REF_FREQ

calibrate_divisor ==
    /\ apic.at = "divisor"
    /\ LET d == Divisor(apic.frequency)
       IN  apic' = [apic EXCEPT !.at = "done", !.divisor = d, !.frequency = @ \div d]
    /\ UNCHANGED <<milli, search, loops_per_msec, mtrr>>

(***************************************************************************)
(* The memory type ranges.                                                 *)
(***************************************************************************)
(* UINT_MAX shifted right; the processor takes the count of a shift modulo *)
(* the bits of the word.                                                   *)
init_mtrr(phys) == shiftR(2 ^ MaskBits - 1, (MaskBits - phys) % MaskBits)

MaskOneLess(size) == 2 ^ PageBits - size + 1
RangeMask(size) == 2 ^ PageBits - size

(* The base and the mask of the range, the high part of the mask all ones. *)
RangeRegister(base, size) ==
    [base |-> base,
     mask |-> (RangeMask(size) & mtrr.mask) + (mtrr.mask \div 2 ^ PageBits) * 2 ^ PageBits]

(* The ranges a caller may give: heap and I/O memory, in whole pages.      *)
MtrrRanges ==
    {r \in (0 .. 2 ^ PageBits - 1) \X (1 .. 2 ^ PageBits) :
        /\ r[1] + r[2] <= 2 ^ PageBits
        /\ AnyRange \/ (r[2] \in {2 ^ i : i \in 0 .. PageBits} /\ r[1] % r[2] = 0)}

mtrr_configure ==
    /\ \E r \in MtrrRanges :
         /\ Len(mtrr.regs) # MtrrCount
         /\ mtrr' = [mtrr EXCEPT !.asked = Append(@, r), !.regs = Append(@, RangeRegister(r[1], r[2]))]
    /\ UNCHANGED <<milli, search, loops_per_msec, apic>>

TimingInit ==
    /\ milli \in Millis
    /\ search = [at |-> "doubling", finder |-> BASE_VALUE, delta |-> 0] /\ loops_per_msec = 0
    /\ apic \in [at : {"start"}, reads : {<<>>}, frequency : {0}, divisor : {1}, rate : Rates]
    /\ \E p \in PhysBits : mtrr = [phys |-> p, mask |-> init_mtrr(p), asked |-> <<>>, regs |-> <<>>]

CalibrationNext ==
    \/ calibrate_doubles \/ calibrate_halves \/ calibrate_ends
    \/ lapic_init \/ calibrate_lapic \/ calibrate_divisor

(***************************************************************************)
(* Properties                                                              *)
(***************************************************************************)

(* However the probes fall around the ticks, calibrate_delay ends at most  *)
(* the overhead of a probe below the longest loop that is shorter than a   *)
(* millisecond, if the millisecond is longer than half of the first guess  *)
(* and its length fits.                                                    *)
CalibrationClose ==
    (search.at = "done" /\ milli > BASE_VALUE \div 2 /\ milli <= 2 ^ (LongBits - 1)) =>
        loops_per_msec \in milli - 1 - Overhead .. milli - 1

(* The delays in microseconds and nanoseconds turn the loop as often as    *)
(* they should, to half a turn, for every count whose product with         *)
(* loops_per_msec fits.                                                    *)
DelaysRounded ==
    \A n \in 0 .. MicroPerMilli :
        loops_per_msec * n < 2 ^ LongBits =>
            LET OffBy(turns, per) == 2 * (turns * per - loops_per_msec * n)
                nanos == MicroPerMilli * MicroPerMilli
            IN  /\ OffBy(udelay(n), MicroPerMilli) \in -MicroPerMilli .. MicroPerMilli
                /\ OffBy(ndelay(n), nanos) \in -nanos .. nanos

(* The frequency the clocks are told, times the divisor, is the one the    *)
(* counter has to the errors of the calibration; it is below the reference *)
(* and no smaller divisor would have done.                                 *)
FrequencyClose ==
    (apic.at = "done" /\ milli > BASE_VALUE \div 2 /\ milli <= 2 ^ (LongBits - 1)) =>
        /\ apic.frequency <= REF_FREQ
        /\ apic.frequency * apic.divisor <= apic.rate * (milli + Overhead) * PerSecond
        /\ (apic.frequency + 1) * apic.divisor > (apic.rate * (milli - 1 - Overhead) - 1) * PerSecond
        /\ apic.divisor > 1 => 2 * (apic.frequency + 1) > REF_FREQ

(* Each range covers the pages it was asked for and no other, whatever     *)
(* ranges were set before it.                                              *)
RangesExact ==
    \A i \in DOMAIN mtrr.regs : \A page \in 0 .. 2 ^ mtrr.phys - 1 :
        (page & mtrr.regs[i].mask) = (mtrr.regs[i].base & mtrr.regs[i].mask)
            <=> page \in mtrr.asked[i][1] .. mtrr.asked[i][1] + mtrr.asked[i][2] - 1

(* mdelay lasts "at least msecs milliseconds" (delays.h).                  *)
DelaysLong ==
    search.at = "done" => \A msecs \in 1 .. 2 : mdelay(msecs) + Overhead >= milli * msecs
=============================================================================
