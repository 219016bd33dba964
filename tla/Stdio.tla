------------------------------- MODULE Stdio --------------------------------
(***************************************************************************)
(* The streams of the C library (libs/libc/stdio): three standard streams  *)
(* and one file, above devices that take or give part of what is asked.    *)
(* An operation is a function of the world w - the streams, what the       *)
(* devices took, what they still have to give - and answers with the world *)
(* after it and a result.  w.room is how many bytes a device takes or      *)
(* gives in this call, w.mem whether malloc has memory.  Characters are    *)
(* "a", the newline and the carriage return.                               *)
(***************************************************************************)
EXTENDS Integers, Sequences, FiniteSets, SequencesExt

CONSTANTS
    BUFSIZ,         \* the size of a buffer
    Inputs,         \* what the devices have to give
    Misreads,       \* whether the program reads from a stream it only writes
    Updates,        \* whether the program opens files to read and write ("+")
    MaxCalls        \* bound on the calls

ASSUME StdioAssumption == BUFSIZ \in Nat \ {0} /\ MaxCalls \in Nat /\ {Misreads, Updates} \subseteq BOOLEAN

VARIABLES
    world,          \* the streams and the devices
    put,            \* the characters each stream accepted
    got,            \* the characters each stream returned
    supply,         \* what each device had to give when its stream was opened
    unread,         \* whether a character went back since the last read
    calls           \* the number of calls

stdioVars == <<world, put, got, supply, unread, calls>>

Streams == {"stdin", "stdout", "stderr", "file"}
Chars == {"a", "nl"}
EndOfFile == "EOF"
NoBuffer == <<"null">>
Blank(n) == SubSeq([i \in 1 .. n |-> "-"], 1, n)       \* what malloc returns

stream_init(fd, buffer, bufsize, flags) ==
    [fd |-> fd, flags |-> flags, bufsize |-> bufsize, validsize |-> 0, count |-> bufsize,
     buffer |-> buffer, bufptr |-> 0]
Closed == stream_init(-1, NoBuffer, 0, {})

iostreams ==
    [s \in Streams |->
        CASE s = "stdin"  -> stream_init(0, NoBuffer, 0, {"READ", "NBUF"})
          [] s = "stdout" -> stream_init(1, NoBuffer, 0, {"WRITE", "LBUF"})
          [] s = "stderr" -> stream_init(2, NoBuffer, 0, {"WRITE", "NBUF"})
          [] OTHER -> Closed]

Has(w, s, f) == f \in w.st[s].flags
SetFlags(w, s, F) == [w EXCEPT !.st[s].flags = @ \cup F]
ClearFlags(w, s, F) == [w EXCEPT !.st[s].flags = @ \ F]
Answer(w, ret) == [w |-> w, ret |-> ret]
Fails(w, s) == Answer(SetFlags(w, s, {"ERROR"}), EndOfFile)

(***************************************************************************)
(* The calls below.  write takes at most w.room bytes and fails when it    *)
(* takes none; lseek always fails.                                         *)
(***************************************************************************)
Took(w, s, data) == IF Len(data) < w.room THEN Len(data) ELSE w.room
write(w, s, data) ==
    LET n == Took(w, s, data)
    IN  Answer([w EXCEPT !.out[s] = @ \o SubSeq(data, 1, n)], IF n = 0 /\ data # <<>> THEN -1 ELSE n)
lseek(w, s) == -1

(***************************************************************************)
(* Output.                                                                 *)
(***************************************************************************)
CountWidth == 16        \* bits of the unsigned count and sizes, fewer than the code's
Unsigned(n) == n % 2^CountWidth
StoredCount(f) == Unsigned(f.validsize - f.count)                   \* how much is stored
Held(w, s) == LET f == w.st[s] IN SubSeq(f.buffer, 1, f.bufptr)     \* stored, not yet written

(* *bufptr++ = c; --count.                                                 *)
Store(w, s, c) ==
    LET f == w.st[s]
    IN  [w EXCEPT !.st[s].buffer = IF f.bufptr < Len(@) THEN [@ EXCEPT ![f.bufptr + 1] = c] ELSE Append(@, c),
                  !.st[s].bufptr = @ + 1]

writebuffern(w, s, c) ==
    LET text == IF c = "nl" /\ ~Has(w, s, "BIN") THEN <<"nl", "cr">> ELSE <<c>>
        o    == write(w, s, text)
    IN  IF w.st[s].fd < 0 \/ (Has(w, s, "APPEND") /\ lseek(w, s) = -1) \/ o.ret < 0
        THEN Fails(IF w.st[s].fd < 0 \/ Has(w, s, "APPEND") THEN w ELSE o.w, s)
        ELSE Answer(o.w, c)

FlushForgets(w, s) == [w EXCEPT !.st[s].bufptr = 0]
Emptied(w, s) == [w EXCEPT !.st[s].bufptr = 0, !.st[s].count = w.st[s].validsize]

writebufferl(w, s, c) ==
    LET f  == w.st[s]
        w1 == IF f.count > 0 THEN Store([w EXCEPT !.st[s].count = @ - 1], s, c) ELSE w
        n  == StoredCount(w1.st[s])
        w2 == Emptied(w1, s)
        o  == write(w2, s, SubSeq(w1.st[s].buffer, 1, n))
        cr == write(o.w, s, <<"cr">>)
    IN  CASE ~(c = "nl" \/ w1.st[s].count = 0) -> Answer(w1, c)
          [] (c = "nl" \/ w1.st[s].count = 0) /\ (f.fd < 0 \/ Has(w, s, "APPEND")) -> Fails(w1, s)
          [] OTHER ->
                IF o.ret # n THEN Fails(o.w, s)
                ELSE IF c = "nl" /\ ~Has(w, s, "BIN")
                     THEN IF cr.ret < 0 THEN Fails(cr.w, s) ELSE Answer(cr.w, c)
                     ELSE Answer(o.w, c)

AfterFullAll(f) == f.validsize
AfterFull(f) == Unsigned(f.validsize - 1)       \* room for what follows the character kept back
writebuffer(w, s, c) ==
    LET f == w.st[s]
        n == StoredCount(f)
        w1 == [w EXCEPT !.st[s].count = AfterFull(f), !.st[s].bufptr = 0]
        o  == write(w1, s, SubSeq(f.buffer, 1, n))
    IN  CASE f.count > 0 -> Answer(Store([w EXCEPT !.st[s].count = @ - 1], s, c), c)
          [] f.count = 0 /\ (f.fd < 0 \/ Has(w, s, "APPEND")) -> Fails(w, s)
          [] OTHER -> IF o.ret # n THEN Fails(Store(o.w, s, c), s) ELSE Answer(Store(o.w, s, c), c)

(* The buffer of a stream is allocated when it is first needed.            *)
NewBuffer(w, s) ==
    IF w.mem THEN [SetFlags(w, s, {"RELBUF"}) EXCEPT !.st[s].buffer = Blank(BUFSIZ),
                       !.st[s].count = BUFSIZ, !.st[s].bufsize = BUFSIZ, !.st[s].validsize = BUFSIZ]
    ELSE [SetFlags(w, s, {"NBUF"}) EXCEPT !.st[s].count = 0, !.st[s].bufsize = 0, !.st[s].validsize = 0]

fputc(w, s, c) ==
    LET w1 == SetFlags(ClearFlags(w, s, {"READING"}), s, {"WRITING"})
        w2 == IF w.st[s].buffer = NoBuffer THEN NewBuffer(w1, s) ELSE w1
    IN  CASE ~Has(w, s, "WRITE") \/ (Has(w, s, "READING") /\ ~Has(w, s, "EOF")) -> Answer(w, EndOfFile)
          [] Has(w, s, "WRITE") /\ ~(Has(w, s, "READING") /\ ~Has(w, s, "EOF")) /\ Has(w, s, "NBUF") ->
                writebuffern(w1, s, c)
          [] OTHER -> CASE Has(w2, s, "NBUF") -> writebuffern(w2, s, c)
                        [] ~Has(w2, s, "NBUF") /\ Has(w2, s, "LBUF") -> writebufferl(w2, s, c)
                        [] OTHER -> writebuffer(w2, s, c)

(* A text goes out one character at a time, up to the first that fails.    *)
fputs(w, s, text) ==
    FoldLeft(LAMBDA a, c :
                IF a.ret = EndOfFile THEN a
                ELSE LET o == fputc(a.w, s, c)
                     IN  [w |-> o.w, ret |-> IF o.ret = EndOfFile THEN EndOfFile ELSE "ok",
                          n |-> IF o.ret = EndOfFile THEN a.n ELSE a.n + 1],
             [w |-> w, ret |-> "ok", n |-> 0], text)
puts(w, text) == fputs(w, "stdout", Append(text, "nl"))
fwrite(w, s, data) == fputs(w, s, data)

fflush(w, s) ==
    LET f  == w.st[s]
        w1 == IF Has(w, s, "READ") THEN ClearFlags(w, s, {"WRITING"}) ELSE w
        n  == StoredCount(f)
        w2 == [w1 EXCEPT !.st[s].bufptr = 0, !.st[s].count = f.bufsize, !.st[s].validsize = f.bufsize]
        o  == write(w2, s, SubSeq(f.buffer, 1, n))
    IN  CASE Has(w, s, "NBUF") \/ ~(Has(w, s, "READING") \/ Has(w, s, "WRITING")) -> Answer(w, "ok")
          [] ~Has(w, s, "NBUF") /\ Has(w, s, "READING") -> Fails([w EXCEPT !.st[s].count = 0], s)
          [] OTHER ->
                CASE n = 0 -> Answer(w1, "ok")
                  [] n # 0 /\ Has(w, s, "APPEND") -> Fails(w2, s)
                  [] OTHER -> IF o.ret = n THEN Answer(o.w, "ok") ELSE Fails(o.w, s)

(***************************************************************************)
(* Input.                                                                  *)
(***************************************************************************)
PromptKept(w) == w
FlushLines(w) ==
    FoldSet(LAMBDA s, v : IF Has(v, s, "LBUF") /\ Has(v, s, "WRITING") THEN fflush(v, s).w ELSE v, w, Streams)

InputBuffer(w, s) ==
    IF Has(w, s, "NBUF") \/ w.st[s].buffer # NoBuffer THEN w
    ELSE IF w.mem THEN [SetFlags(w, s, {"RELBUF"}) EXCEPT
              !.st[s].buffer = Blank(BUFSIZ), !.st[s].bufsize = BUFSIZ]
    ELSE [SetFlags(w, s, {"NBUF"}) EXCEPT !.st[s].bufsize = 0]

(* read gives what the device has, w.room bytes at most.                   *)
Lesser(a, b) == IF a < b THEN a ELSE b
Gave(w, s) == Lesser(Len(w.inp[s]), Lesser(w.room, IF Has(w, s, "NBUF") THEN 1 ELSE w.st[s].bufsize))
Given(w, s, n) ==
    [w EXCEPT !.inp[s] = SubSeq(@, n + 1, Len(@)), !.st[s].count = n - 1, !.st[s].validsize = n - 1]
ReadInto(w, s, n) ==
    CASE n = 0 -> Answer(SetFlags([w EXCEPT !.st[s].validsize = 0], s,
                                  {IF w.inp[s] = <<>> THEN "EOF" ELSE "ERROR"}), EndOfFile)
      [] n > 0 /\ Has(w, s, "NBUF") -> Answer(Given(w, s, n), w.inp[s][1])
      [] OTHER -> Answer([Given(w, s, n) EXCEPT !.st[s].bufptr = 1,
                            !.st[s].buffer = SubSeq(w.inp[s], 1, n) \o SubSeq(@, n + 1, Len(@))],
                         w.inp[s][1])
Fill(w, s) == ReadInto(w, s, Gave(w, s))

readbuffer(w, s) ==
    IF w.st[s].fd < 0 \/ Has(w, s, "ERROR") \/ Has(w, s, "EOF") THEN Answer(w, EndOfFile)
    ELSE IF ~Has(w, s, "READ") \/ Has(w, s, "WRITING") THEN Fails(w, s)
    ELSE Fill([FlushLines(InputBuffer(SetFlags(w, s, {"READING"}), s)) EXCEPT
                  !.st[s].count = 0, !.st[s].bufptr = 0], s)

fgetc(w, s) ==
    LET f == w.st[s]
    IN  IF f.count > 0
        THEN Answer([w EXCEPT !.st[s].count = @ - 1, !.st[s].bufptr = @ + 1], f.buffer[f.bufptr + 1])
        ELSE readbuffer(w, s)

UngetInPlace(w, s, c) == Answer(w, c)
ungetc(w, s, c) ==
    LET f == w.st[s]
        p == IF f.bufptr = 0 THEN 1 ELSE f.bufptr
    IN  IF c = EndOfFile \/ ~Has(w, s, "READING") \/ Has(w, s, "NBUF") \/ (f.bufptr = 0 /\ f.count = 0)
        THEN Answer(w, EndOfFile)
        ELSE Answer([w EXCEPT !.st[s].count = @ + 1, !.st[s].bufptr = p - 1, !.st[s].buffer[p] = c], c)

(* fgets reads up to n - 1 characters or a newline; gets up to a newline.  *)
RECURSIVE GetLine(_, _, _, _)
AfterChar(o, s, n, line) ==
    CASE o.ret = EndOfFile -> [w |-> o.w, ret |-> EndOfFile, line |-> line]
      [] o.ret = "nl" -> [w |-> o.w, ret |-> "ok", line |-> Append(line, "nl")]
      [] OTHER -> GetLine(o.w, s, n - 1, Append(line, o.ret))
GetLine(w, s, n, line) ==
    IF n = 0 THEN [w |-> w, ret |-> "ok", line |-> line] ELSE AfterChar(fgetc(w, s), s, n, line)
LineRead(g, s) ==
    [g EXCEPT !.ret = IF @ = EndOfFile /\ (~Has(g.w, s, "EOF") \/ g.line = <<>>) THEN "NULL" ELSE "ok"]
fgets(w, s, n) == LineRead(GetLine(w, s, n - 1, <<>>), s)

OneMore(o, line) == [w |-> o.w, ret |-> o.ret, line |-> IF o.ret = EndOfFile THEN line ELSE Append(line, o.ret)]
fread(w, s, n) ==
    FoldLeft(LAMBDA a, i : IF a.ret = EndOfFile THEN a ELSE OneMore(fgetc(a.w, s), a.line),
             [w |-> w, ret |-> "ok", line |-> <<>>], [i \in 1 .. n |-> i])

(***************************************************************************)
(* Opening and closing; text into memory.                                  *)
(***************************************************************************)
ModeFlags ==
    [r |-> {"READ"}, w |-> {"WRITE"}, a |-> {"WRITE", "APPEND"}, b |-> {"BIN"}, plus |-> {"READ", "WRITE"}]
Modes == {{"r"}, {"w"}, {"w", "b"}, {"a"}} \cup (IF Updates THEN {{"r", "plus"}, {"w", "plus"}, {"a", "plus"}} ELSE {})
fopen(w, mode) ==
    [w EXCEPT !.st["file"] = stream_init(3, NoBuffer, 0, UNION {ModeFlags[m] : m \in mode})]
fclose(w, s) == LET o == fflush(w, s) IN Answer([o.w EXCEPT !.st[s] = Closed], o.ret)

TerminatorLate(n, retval) == IF retval <= n THEN retval + 1 ELSE n
Terminator(n, retval) == IF retval < n THEN retval + 1 ELSE n

(* The text goes through a stream without a device; s is the memory it     *)
(* leaves behind, terminator included.                                     *)
vsnprintf(n, text) ==
    LET tmp  == stream_init(-1, Blank(n), n, {"WRITE", "FBUF"})
        w    == [st |-> [stdout |-> tmp], out |-> [stdout |-> <<>>], room |-> 9, mem |-> TRUE]
        done == FoldLeft(LAMBDA v, c : fputc(v, "stdout", c).w, w, text)
        s    == done.st["stdout"].buffer
    IN  IF n = 0 THEN [ret |-> 0, s |-> <<>>] ELSE [ret |-> Len(text), s |-> [s EXCEPT ![Terminator(n, Len(text))] = "nul"]]

Text(q) == SelectSeq(q, LAMBDA c : c # "cr")

(***************************************************************************)
(* A program that uses the streams.                                        *)
(***************************************************************************)
StdioInit ==
    /\ \E inp \in Inputs :
         world = [st |-> iostreams, out |-> [s \in Streams |-> <<>>],
                  inp |-> [s \in Streams |-> IF s \in {"stdin", "file"} THEN inp ELSE <<>>],
                  room |-> 9, mem |-> TRUE]
    /\ supply = world.inp
    /\ put = [s \in Streams |-> <<>>] /\ got = [s \in Streams |-> <<>>]
    /\ unread = FALSE /\ calls = 0

(* How this call finds the devices and the heap.                           *)
Faced == {[world EXCEPT !.room = r, !.mem = m] : r \in {0, 1, 9}, m \in BOOLEAN}
Ready(w) == [w EXCEPT !.room = 9, !.mem = TRUE]
Call == calls < MaxCalls /\ calls' = calls + 1

PutChars ==
    \E s \in {"stdout", "stderr", "file"}, text \in {<<"a">>, <<"nl">>, <<"a", "a", "nl">>} :
        \E w \in Faced : \E o \in {fputs(w, s, text)} :
            /\ world' = Ready(o.w)
            /\ put' = [put EXCEPT ![s] = @ \o SubSeq(text, 1, o.n)]
            /\ UNCHANGED <<got, supply, unread>>

Readable == {s \in {"stdin", "file"} : Misreads \/ Has(world, s, "READ")}
GetChar ==
    \E s \in Readable : \E w \in Faced : \E o \in {fgetc(w, s)} :
        /\ world' = Ready(o.w)
        /\ got' = [got EXCEPT ![s] = IF o.ret = EndOfFile THEN @ ELSE Append(@, o.ret)]
        /\ unread' = FALSE /\ UNCHANGED <<put, supply>>

GetChars ==
    \E s \in Readable, n \in {2, 3} : \E w \in Faced :
        \E o \in {fgets(w, s, n), fread(w, s, n)} :
            /\ world' = Ready(o.w)
            /\ got' = [got EXCEPT ![s] = @ \o o.line]
            /\ unread' = FALSE /\ UNCHANGED <<put, supply>>

UngetChar ==
    /\ ~unread /\ got["file"] # <<>>
    /\ LET o == ungetc(world, "file", Last(got["file"]))
       IN  /\ world' = o.w
           /\ got' = [got EXCEPT !["file"] = IF o.ret = EndOfFile THEN @ ELSE Front(@)]
           /\ unread' = TRUE /\ UNCHANGED <<put, supply>>

FlushAll ==
    \E w \in Faced :
        /\ world' = Ready(FoldSet(LAMBDA s, v : fflush(v, s).w, w, Streams))
        /\ UNCHANGED <<put, got, supply, unread>>

OpenFile ==
    /\ world.st["file"] = Closed
    /\ \E mode \in Modes : world' = fopen(world, mode)
    /\ put' = [put EXCEPT !["file"] = Text(world.out["file"])]
    /\ got' = [got EXCEPT !["file"] = <<>>]
    /\ supply' = [supply EXCEPT !["file"] = world.inp["file"]]
    /\ UNCHANGED unread

CloseFile ==
    /\ world.st["file"] # Closed
    /\ \E w \in Faced :
         LET o == fclose(w, "file")
         IN  /\ world' = Ready(o.w)
             /\ put' = IF Has(w, "file", "ERROR") \/ o.ret = EndOfFile
                       THEN [put EXCEPT !["file"] = Text(o.w.out["file"])] ELSE put
             /\ UNCHANGED <<got, supply, unread>>

StdioNext ==
    /\ Call
    /\ PutChars \/ GetChar \/ GetChars \/ UngetChar \/ FlushAll \/ OpenFile \/ CloseFile

(***************************************************************************)
(* Properties                                                              *)
(***************************************************************************)
Pending(s) ==
    IF world.st[s].buffer = NoBuffer \/ "WRITING" \notin world.st[s].flags THEN <<>> ELSE Held(world, s)

(* While a stream reports no error every character it accepted is on the   *)
(* device or in its buffer, in order and once, however little the device   *)
(* takes at a time; a failed allocation of the buffer loses none, and when *)
(* fclose reports success all of them are on the device.                   *)
OutputExact ==
    \A s \in {"stdout", "stderr", "file"} :
        "ERROR" \notin world.st[s].flags => put[s] = Text(world.out[s]) \o Pending(s)

(* Unless an error is reported, what was read, less what went back, the    *)
(* unread buffer and what the device has left make up the input.           *)
InputInOrder ==
    \A s \in {"stdin", "file"} :
        LET f == world.st[s]
            buffered == IF f.buffer = NoBuffer THEN <<>> ELSE SubSeq(f.buffer, f.bufptr + 1, f.bufptr + f.count)
        IN  (f # Closed /\ "READ" \in f.flags /\ f.flags \cap {"ERROR", "WRITING"} = {})
              => got[s] \o buffered \o world.inp[s] = supply[s]

(* No stream leaves its buffer, and the free part of a buffer that is      *)
(* written is what its counter says.                                       *)
BuffersInside ==
    \A s \in Streams :
        LET f == world.st[s]
        IN  f.buffer # NoBuffer =>
                /\ Len(f.buffer) = f.bufsize /\ f.bufptr + f.count <= f.bufsize
                /\ ("WRITING" \in f.flags) => f.bufptr + f.count = f.bufsize

(* Before a stream asks its device for input, the line the program has     *)
(* begun on stdout is flushed.                                             *)
PromptShown == [][world'.inp # world.inp => (Pending("stdout") = <<>>)']_stdioVars

(* vsnprintf leaves the text, cut to the size it was given, and a          *)
(* terminator inside that size.                                            *)
SnprintfBounded ==
    \A n \in 1 .. 3 :
        LET text == [i \in 1 .. calls |-> "a"]
            v    == vsnprintf(n, text)
            kept == SubSeq(text, 1, IF calls < n THEN calls ELSE n - 1)
        IN  v.ret = calls /\ Len(v.s) = n /\ IsPrefix(Append(kept, "nul"), v.s)
=============================================================================
