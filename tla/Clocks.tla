------------------------------- MODULE Clocks -------------------------------
(***************************************************************************)
(* The clock of the kernel (kernel/clock.c), the conversions it uses       *)
(* (kernel/libs/time) and the device below (drivers/i8253, drivers/LAPIC): *)
(* clients ask for periods, the device is given the shortest, and each     *)
(* interrupt adds the period to the time elapsed.  clock_set_period runs   *)
(* with interrupts on except while it programs the device, so a call of a  *)
(* thread is three steps.                                                  *)
(***************************************************************************)
EXTENDS Integers, FiniteSets

CONSTANTS
    Freq,           \* counts of the device in a second
    MsPerSec,       \* milliseconds in a second
    MinCounter, MaxCounter,     \* what the device can count
    DefaultMs,      \* the period the clock starts with
    Clients,        \* the instances that ask for a period
    PeriodsMs,      \* the periods they ask for
    Infinite,       \* -1U
    InCallbacks,    \* whether a callback of the interrupt asks for a period
    Slack,          \* the counts that can pass between two steps of a call
    MaxTime         \* bound on the time

ASSUME ClocksAssumption ==
    /\ Freq \in Nat \ {0} /\ MsPerSec \in Nat \ {0} /\ Freq >= MsPerSec
    /\ MinCounter \in Nat \ {0} /\ MaxCounter \in Nat /\ MinCounter <= MaxCounter
    /\ Infinite \in Nat /\ MaxCounter < Infinite
    /\ MsPerSec * MaxCounter >= Freq     \* the device can count a millisecond
    /\ DefaultMs \in Nat \ {0} /\ PeriodsMs \subseteq Nat /\ MaxTime \in Nat
    /\ InCallbacks \in BOOLEAN /\ Slack \in Nat

VARIABLES
    dev,            \* the device: its counter, what is left, its mode, an interrupt pending
    clk,            \* the clock: period, mode, inst_period, elapsed counter
    call,           \* the call of a thread that is under way
    now             \* the counts since the clock was started

clockVars == <<dev, clk, call, now>>

(***************************************************************************)
(* Conversions.                                                            *)
(***************************************************************************)
ticks_int   == Freq \div MsPerSec
ticks_fract == Freq % MsPerSec

kernel_time_adjust_range(value) ==
    CASE value < MinCounter -> MinCounter [] value > MaxCounter -> MaxCounter [] OTHER -> value

kernel_time_get_msecs(cntrticks) ==
    LET c == kernel_time_adjust_range(cntrticks)
    IN  c \div ticks_int + (IF c % ticks_int >= ticks_int \div 2 THEN 1 ELSE 0)

kernel_time_get_elapsed_msecs(elapsed) ==
    (elapsed \div Freq) * MsPerSec + (MsPerSec * (elapsed % Freq)) \div Freq

FractTruncated(ms) == (ms * ticks_fract) \div MsPerSec
FractRounded(ms) == (ms * ticks_fract + MsPerSec \div 2) \div MsPerSec
kernel_time_get_value(ms) ==
    IF ms = 0 THEN 0 ELSE kernel_time_adjust_range(ms * ticks_int + FractRounded(ms))

kernel_time_get_minmax_msecs == <<(MsPerSec * MinCounter) \div Freq, (MsPerSec * MaxCounter) \div Freq>>
kernel_time_adjust_msecs(ms) ==
    LET r == kernel_time_get_minmax_msecs
    IN  CASE ms < r[1] -> r[1] [] ms > r[2] -> r[2] [] OTHER -> ms

(***************************************************************************)
(* The device.                                                             *)
(***************************************************************************)
Programs(d, value) ==
    LET v == IF value = 0 THEN 1 ELSE value
    IN  IF v < MinCounter \/ v > MaxCounter THEN d ELSE [d EXCEPT !.ctr = v, !.left = v]
Accepts(value) == (IF value = 0 THEN 1 ELSE value) \in MinCounter .. MaxCounter
SetMode(d, mode) == [d EXCEPT !.mode = mode]

(* A count passes.  A pending interrupt is taken before the next one.      *)
Count ==
    /\ now < MaxTime /\ ~dev.irq
    /\ call.step # "idle" => call.waited < Slack
    /\ now' = now + 1
    /\ call' = IF call.step # "idle" THEN [call EXCEPT !.waited = @ + 1] ELSE call
    /\ dev' = CASE dev.left > 1 -> [dev EXCEPT !.left = @ - 1]
                [] dev.left = 1 -> [dev EXCEPT !.irq = TRUE, !.left = IF dev.mode = 1 THEN 0 ELSE dev.ctr]
                [] OTHER -> dev
    /\ UNCHANGED clk

(***************************************************************************)
(* The clock.                                                              *)
(***************************************************************************)
GetHighest(inst) == CHOOSE v \in {inst[c] : c \in Clients} : \A c \in Clients : v >= inst[c]
get_lowest(inst) == CHOOSE v \in {inst[c] : c \in Clients} : \A c \in Clients : v <= inst[c]
Asks(k, ms, c) ==
    [k EXCEPT !.inst = [@ EXCEPT ![c] = kernel_time_get_value(kernel_time_adjust_msecs(ms))]]

(* The whole call, as a callback makes it with interrupts off.             *)
clock_set_period(d, k, ms, c) ==
    LET k1 == Asks(k, ms, c)
        t  == get_lowest(k1.inst)
    IN  IF t = k1.period \/ ~Accepts(t) THEN [d |-> d, k |-> k1]
        ELSE [d |-> Programs(d, t), k |-> [k1 EXCEPT !.period = t]]

(* A callback of the interrupt may ask for a period.                       *)
AfterCallbacks(d, k) ==
    IF InCallbacks THEN {clock_set_period(d, k, ms, c) : ms \in PeriodsMs, c \in Clients} \cup {[d |-> d, k |-> k]}
    ELSE {[d |-> d, k |-> k]}

clock_int_handler ==
    /\ dev.irq
    /\ LET k1 == [clk EXCEPT !.elapsed = @ + clk.period]
           d1 == [dev EXCEPT !.irq = FALSE]
       IN  \E a \in AfterCallbacks(d1, k1) :
             /\ clk' = a.k
             /\ dev' = IF a.k.mode = 1 THEN Programs(a.d, a.k.period) ELSE a.d
    /\ UNCHANGED <<call, now>>

(* The call of a thread: store and choose, program, remember.              *)
ChooseRemembers ==
    /\ call.step = "idle" /\ ~dev.irq
    /\ \E ms \in PeriodsMs, c \in Clients :
         LET k1 == Asks(clk, ms, c)
             t  == get_lowest(k1.inst)
         IN  /\ clk' = [k1 EXCEPT !.period = t]
             /\ call' = IF t = k1.period THEN call ELSE [step |-> "program", temp |-> t, waited |-> 0]
    /\ UNCHANGED <<dev, now>>

ChoosePeriod ==
    /\ call.step = "idle" /\ ~dev.irq
    /\ \E ms \in PeriodsMs, c \in Clients :
         LET k1 == Asks(clk, ms, c)
             t  == get_lowest(k1.inst)
         IN  /\ clk' = k1
             /\ call' = IF t = k1.period THEN call ELSE [step |-> "program", temp |-> t, waited |-> 0]
    /\ UNCHANGED <<dev, now>>

ProgramPeriod ==
    /\ call.step = "program" /\ ~dev.irq
    /\ dev' = Programs(dev, call.temp)
    /\ call' = [call EXCEPT !.step = IF Accepts(call.temp) THEN "remember" ELSE "idle", !.waited = 0]
    /\ UNCHANGED <<clk, now>>

RememberPeriod ==
    /\ call.step = "remember" /\ ~dev.irq
    /\ clk' = [clk EXCEPT !.period = call.temp]
    /\ call' = [call EXCEPT !.step = "idle"]
    /\ UNCHANGED <<dev, now>>

clock_set_mode ==
    /\ call.step = "idle" /\ ~dev.irq
    /\ \E m \in {0, 1} \ {clk.mode} :
         /\ clk' = [clk EXCEPT !.mode = m]
         /\ dev' = Programs(SetMode(dev, m), clk.period)
    /\ UNCHANGED <<call, now>>

clock_init ==
    LET p == kernel_time_get_value(DefaultMs)
    IN  /\ dev = [ctr |-> p, left |-> p, mode |-> 0, irq |-> FALSE]
        /\ clk = [period |-> p, mode |-> 0, inst |-> [c \in Clients |-> Infinite], elapsed |-> 0]

ClockInit == clock_init /\ call = [step |-> "idle", temp |-> 0, waited |-> 0] /\ now = 0

ClockNext ==
    Count \/ clock_int_handler \/ ChoosePeriod \/ ProgramPeriod \/ RememberPeriod \/ clock_set_mode

ClockSpec == ClockInit /\ [][ClockNext]_clockVars

(***************************************************************************)
(* Properties                                                              *)
(***************************************************************************)

(* The system's time is never ahead of the counts that really passed, for  *)
(* all the periods that are changed while the device counts.               *)
NeverAhead == clk.elapsed <= now

(* Once no call is under way the device counts the shortest period asked   *)
(* for: no client is called later than it asked.                           *)
ShortestProgrammed ==
    (call.step = "idle" /\ \E c \in Clients : clk.inst[c] # Infinite)
        => dev.ctr = get_lowest(clk.inst) /\ clk.period = dev.ctr

(* Milliseconds of the elapsed counter are exact although the computation  *)
(* is split, never go back as the counter grows, and the counter value of  *)
(* a period inside the range of the device is the nearest one.             *)
TimeExact ==
    /\ kernel_time_get_elapsed_msecs(now) = (MsPerSec * now) \div Freq
    /\ LET ms == now
           v  == kernel_time_get_value(ms)
       IN  (v \in (MinCounter + 1) .. (MaxCounter - 1) /\ ms > 0)
             => /\ 2 * (v * MsPerSec - ms * Freq) <= MsPerSec
                /\ 2 * (ms * Freq - v * MsPerSec) <= MsPerSec

(* The clock as its clients see it: it counts the shortest period they     *)
(* asked for, is never ahead of the time, and converts it exactly.         *)
ClockSound == NeverAhead /\ ShortestProgrammed /\ TimeExact
=============================================================================
