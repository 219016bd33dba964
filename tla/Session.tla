------------------------------ MODULE Session -------------------------------
(***************************************************************************)
(* The console application (applications/console): the Login thread, which *)
(* lets a user in, starts the Console thread and ends the session when it  *)
(* was idle for too long; the Console thread, which reads a line, parses   *)
(* it and tells Login when it ends; the event queue and the recurring      *)
(* alarm between them.  A thread gives the processor up where it waits for *)
(* a key, for an event or for the serial line to take its output, or       *)
(* sleeps: what is between two such places is one step.  Names and         *)
(* passwords are not modelled: a login succeeds or not.                    *)
(***************************************************************************)
EXTENDS Integers, Sequences, FiniteSets

CONSTANTS
    TIMER_STAGE3,   \* periods of the alarm after which an idle session ends
    LineSize,       \* size of the buffer of a line
    LongLines,      \* whether a line may fill the buffer
    Prompt,         \* whether a period is longer than what the threads have to do
    SlowFarewell,   \* whether anything happens while Login prints before it kills
    MayLackMemory,  \* whether the event of the end may find no memory
    MaxNow,         \* bound on the time
    MaxPressed      \* bound on the keys

ASSUME SessionAssumption ==
    /\ TIMER_STAGE3 \in Nat \ {0} /\ LineSize \in Nat \ {0}
    /\ {LongLines, Prompt, SlowFarewell, MayLackMemory} \subseteq BOOLEAN

VARIABLES
    login,          \* where Login waits: "enter", "events", "kills"
    console,        \* where Console waits: for a "key", for its output "echo", "line"
                    \* or "ends", or nowhere: "none"
    console_is_on,
    timeout,        \* the shared counter of idle periods
    events,         \* the queue: "alarm" and "thread" events
    timer,          \* the alarm: [triggered, expired, expiration]
    clock,          \* the time, in periods of the alarm
    line,           \* the line: [buffer, head]
    wanted,         \* the line as the user means it
    ran,            \* the last line: [seen, meant, inside]
    lastKey,        \* when a key was last handled, or the session began
    pressed,        \* how many keys
    idled,          \* how long the session was idle that was ended for it
    panic           \* whether a thread was killed that was no longer there

sessionVars == <<login, console, console_is_on, timeout, events, timer, clock, line, wanted, ran, lastKey, pressed,
                 idled, panic>>

(***************************************************************************)
(* The parser: the names of the commands are one letter long, and logout   *)
(* is "q".                                                                 *)
(***************************************************************************)
Commands == [root |-> {"s", "h", "q"}, show |-> {"x"}]
NoCommand == "none"

(* The words of a line, as strtok_r finds them.                            *)
Words(s) ==
    LET starts == {i \in DOMAIN s : s[i] # " " /\ (i = 1 \/ s[i - 1] = " ")}
        End(i) == CHOOSE j \in i .. Len(s) :
                    (\A k \in i .. j : s[k] # " ") /\ (j = Len(s) \/ s[j + 1] = " ")
        Nth(n) == CHOOSE i \in starts : Cardinality({j \in starts : j <= i}) = n
    IN  [n \in 1 .. Cardinality(starts) |-> SubSeq(s, Nth(n), End(Nth(n)))]
system_parser_search(commands, word) == Len(word) = 1 /\ word[1] \in commands

(* What a line does: the command it runs, or nothing but help or an error. *)
system_parser(s) ==
    LET t == Words(s)
    IN  CASE t # <<>> /\ system_parser_search(Commands.root \ {"s"}, t[1]) -> t[1][1]
          [] Len(t) > 1 /\ system_parser_search({"s"}, t[1]) /\ system_parser_search(Commands.show, t[2]) -> t[2][1]
          [] OTHER -> NoCommand

(***************************************************************************)
(* The line.  A write past its end is lost for the model, and recorded.    *)
(***************************************************************************)
Text(b) ==
    LET ends == {i \in DOMAIN b : b[i] = "0"}
        n    == IF ends = {} THEN LineSize + 1 ELSE CHOOSE i \in ends : \A j \in ends : i <= j
    IN  IF n > LineSize THEN <<"?">> ELSE SubSeq(b, 1, n - 1)
Adds(l, c) ==
    [buffer |-> IF l.head < LineSize THEN [l.buffer EXCEPT ![l.head + 1] = c] ELSE l.buffer,
     head |-> l.head + 1]

DeletedKept(l) == [l EXCEPT !.buffer[l.head + 1] = "0"]
Deleted(l) == [buffer |-> [l.buffer EXCEPT ![l.head + 1] = "0"], head |-> l.head - 1]
Tabbed(l) ==
    LET s == IF l.head > 0 /\ l.buffer[l.head] # " " THEN Adds(l, " ") ELSE l
    IN  Adds(s, "t")
WantedTab(w) == (IF w # <<>> /\ w[Len(w)] # " " THEN Append(w, " ") ELSE w) \o <<"t">>

Edited(l, k) ==
    CASE k = "bs"  -> IF l.head > 0 THEN Deleted(l) ELSE l
      [] k = "tab" -> Adds(Tabbed(l), "0")
      [] k = "nl"  -> Adds(l, "0")
      [] OTHER -> Adds(l, k)
Meant(w, k) ==
    CASE k = "bs" -> IF w = <<>> THEN w ELSE SubSeq(w, 1, Len(w) - 1)
      [] k = "tab" -> WantedTab(w)
      [] k = "nl" -> w
      [] OTHER -> Append(w, k)

(***************************************************************************)
(* Time.                                                                   *)
(***************************************************************************)
Due == timer.triggered /\ ~timer.expired /\ clock >= timer.expiration
Quiet == ~Due /\ (login = "events" => events = <<>>) /\ login # "kills" /\ console \in {"none", "key"}
Passes ==
    /\ clock < MaxNow /\ (Prompt => Quiet)
    /\ clock' = clock + 1
    /\ UNCHANGED <<login, console, console_is_on, timeout, events, timer, line, wanted, ran, lastKey, pressed, idled, panic>>

alarm_cb ==
    /\ Due
    /\ events' = Append(events, "alarm") /\ timer' = [timer EXCEPT !.expired = TRUE]
    /\ UNCHANGED <<login, console, console_is_on, timeout, clock, line, wanted, ran, lastKey, pressed, idled, panic>>

(***************************************************************************)
(* Login.                                                                  *)
(***************************************************************************)
Emptied(l) == [l EXCEPT !.head = 0]

(* A key is pressed and the login succeeds, or another key is waited for.  *)
(* Then Console is created, which may fail, and prints its banner.  The    *)
(* one before has said good-bye while Login slept.                         *)
login_starts ==
    /\ login = "enter" /\ console # "ends" /\ pressed < MaxPressed /\ pressed' = pressed + 1
    /\ \/ UNCHANGED <<login, console, console_is_on, timeout, timer, line, lastKey>>
       \/ /\ login' = "events" /\ console' = "echo" /\ console_is_on' = TRUE
          /\ timeout' = 0
          /\ timer' = [triggered |-> TRUE, expired |-> FALSE, expiration |-> clock + 1]
          /\ line' = Emptied(line) /\ lastKey' = clock
    /\ wanted' = <<>>
    /\ UNCHANGED <<events, clock, ran, idled, panic>>

Stopped == [timer EXCEPT !.triggered = FALSE, !.expired = TRUE, !.expiration = 0]
Acknowledged ==
    IF timer.triggered /\ timer.expired THEN [timer EXCEPT !.expired = FALSE, !.expiration = @ + 1] ELSE timer

KillsNone(n) == FALSE
Kills3(n) == n = TIMER_STAGE3
login_event ==
    /\ login = "events" /\ events # <<>>
    /\ LET alarm == Head(events) = "alarm"
           n     == IF alarm THEN timeout + 1 ELSE timeout
           ends  == ~alarm \/ n >= TIMER_STAGE3
       IN  /\ events' = Tail(events)
           /\ timeout' = n
           /\ timer' = CASE ends -> Stopped [] ~ends /\ alarm -> Acknowledged [] OTHER -> timer
           /\ login' = CASE ~ends -> login [] ends /\ Kills3(n) -> "kills" [] OTHER -> "enter"
           /\ console_is_on' = (console_is_on /\ login' # "enter")
    /\ UNCHANGED <<console, clock, line, wanted, ran, lastKey, pressed, idled, panic>>

(* The message is out: Console is killed, whatever it is doing by now.     *)
login_kills ==
    /\ login = "kills" /\ login' = "enter" /\ console_is_on' = FALSE
    /\ panic' = (panic \/ console = "none") /\ console' = "none"
    /\ idled' = clock - lastKey
    /\ UNCHANGED <<timeout, events, timer, clock, line, wanted, ran, lastKey, pressed>>

(***************************************************************************)
(* Console.                                                                *)
(***************************************************************************)
KeepsCount(n) == n
Restarts(n) == 0

Keys == {"q", "x", " ", "bs", "tab", "nl"}
LineRoom(k) ==
    LongLines \/ line.head + (CASE k = "tab" -> 3 [] k \in {"bs", "nl"} -> 1 [] OTHER -> 2) <= LineSize

(* A key is handled and echoed.                                            *)
console_key ==
    /\ console = "key" /\ pressed < MaxPressed /\ pressed' = pressed + 1
    /\ \E k \in Keys :
         LET l == Edited(line, k)
         IN  /\ LineRoom(k)
             /\ line' = l /\ wanted' = Meant(wanted, k)
             /\ console' = IF k \in {"tab", "nl"} \/ l.head >= LineSize THEN "line" ELSE "echo"
    /\ timeout' = Restarts(timeout) /\ lastKey' = clock
    /\ UNCHANGED <<login, console_is_on, events, timer, clock, ran, idled, panic>>

console_echoed ==
    /\ console = "echo" /\ console' = "key"
    /\ UNCHANGED <<login, console_is_on, timeout, events, timer, clock, line, wanted, ran, lastKey, pressed, idled, panic>>

(* When a key ended the line, or the buffer is full, the line is parsed.   *)
(* After a logout Login is told, then Console prints and ends.             *)
console_parses ==
    /\ console = "line"
    /\ ran' = [seen |-> Text(line.buffer), meant |-> wanted, inside |-> line.head <= LineSize]
    /\ line' = Emptied(line) /\ wanted' = <<>>
    /\ console_is_on' = (console_is_on /\ system_parser(Text(line.buffer)) # "q")
    /\ console' = IF console_is_on' THEN "echo" ELSE "ends"
    /\ \E memory \in {TRUE, ~MayLackMemory} :
         events' = IF ~console_is_on' /\ memory THEN Append(events, "thread") ELSE events
    /\ UNCHANGED <<login, timeout, timer, clock, lastKey, pressed, idled, panic>>

console_ends ==
    /\ console = "ends" /\ console' = "none"
    /\ UNCHANGED <<login, console_is_on, timeout, events, timer, clock, line, wanted, ran, lastKey, pressed, idled, panic>>

SessionInit ==
    /\ login = "enter" /\ console = "none" /\ console_is_on = FALSE /\ timeout = 0 /\ events = <<>>
    /\ timer = [triggered |-> FALSE, expired |-> FALSE, expiration |-> 0] /\ clock = 0
    /\ line = [buffer |-> SubSeq([i \in 1 .. LineSize |-> "0"], 1, LineSize), head |-> 0] /\ wanted = <<>>
    /\ ran = [seen |-> <<>>, meant |-> <<>>, inside |-> TRUE]
    /\ lastKey = 0 /\ pressed = 0 /\ idled = TIMER_STAGE3 /\ panic = FALSE

SessionNext ==
    \/ login_kills
    \/ /\ SlowFarewell \/ login # "kills"
       /\ \/ Passes \/ alarm_cb \/ login_starts \/ login_event
          \/ console_key \/ console_echoed \/ console_parses \/ console_ends

(***************************************************************************)
(* Properties                                                              *)
(***************************************************************************)

(* Login and Console never both wait for keys: a session is over, by       *)
(* logout or for being idle, before the next user is asked in.             *)
OneReader == login = "enter" => console \in {"none", "ends"}

(* A session is ended for being idle at most two periods early, one for    *)
(* the period the last key fell in and one for an alarm left in the queue  *)
(* by the session before, and the thread that is killed then is there to be*)
(* killed.                                                                 *)
IdleEnded == idled >= TIMER_STAGE3 - 2 /\ ~panic

(* What the message says: the session was idle for the whole of the time.  *)
IdleWhole == idled >= TIMER_STAGE3

(* What the parser sees is the line as it was typed and corrected, with    *)
(* nothing left of earlier and longer lines, and it was written inside its *)
(* buffer.                                                                 *)
LineExact == ran.inside /\ ran.seen = ran.meant
=============================================================================
