------------------------------ MODULE Devices -------------------------------
(***************************************************************************)
(* The devices of the kernel (kernel/devices.c), sorted by name, and the   *)
(* file descriptors above them (kernel/libs/unistd).  A driver is a        *)
(* number, its place in the order of the names; the name of a device is    *)
(* that of its driver and the last digit of its unit, which is all that    *)
(* "%.5s%1u" leaves of it.                                                 *)
(***************************************************************************)
EXTENDS Integers, Sequences, FiniteSets

CONSTANTS
    Drivers,        \* the drivers, numbers
    Kind,           \* what status_fn says of each of them
    Units,          \* the units
    FD_MAX,         \* the number of descriptors
    MaxDevices      \* bound on the devices

ASSUME DevicesAssumption ==
    Drivers \subseteq Nat /\ Units \subseteq Nat /\ FD_MAX \in Nat \ {0} /\ MaxDevices \in Nat

VARIABLES
    device_list,    \* the devices
    phase,          \* "create", "start" or "run"
    walk,           \* start_devices_lib: the device it is at, whether a UI runs
    running,        \* the devices that were started, as <<driver, unit>>
    fdarray,        \* the descriptors
    made,           \* every <<driver, unit>> device_create answered with a device
    io              \* the last call: [fd, reached, way, status, ret]

deviceVars == <<device_list, phase, walk, running, fdarray, made, io>>

Null == [name |-> -1]
DevName(drv, unit) == drv * 10 + (unit % 10)

(***************************************************************************)
(* The list.                                                               *)
(***************************************************************************)
NotBefore(l, name) == {i \in DOMAIN l : l[i].name >= name}
First(S) == CHOOSE i \in S : \A j \in S : i <= j

lookup_name(l, name) ==
    LET S == NotBefore(l, name)
    IN  IF S # {} /\ l[First(S)].name = name THEN l[First(S)] ELSE Null

InsertLast(l, d) == Append(l, d)
insert_device(l, d) ==
    LET S == NotBefore(l, d.name)
        i == IF S = {} THEN Len(l) + 1 ELSE First(S)
    IN  SubSeq(l, 1, i - 1) \o <<d>> \o SubSeq(l, i, Len(l))

TypeOf(kind) ==
    CASE kind \in {"net", "char"} -> "char" [] kind \in {"block", "txt", "gfx"} -> kind [] OTHER -> "unknown"

(* init_fn may refuse the unit and there may be no memory: works says      *)
(* whether neither happens.                                                *)
device_create ==
    /\ phase = "create" /\ Len(device_list) < MaxDevices
    /\ \E drv \in Drivers, unit \in Units, works \in BOOLEAN :
         LET name == DevName(drv, unit)
             type == TypeOf(Kind[drv])
             d    == [name |-> name, unit |-> unit, drv |-> drv, type |-> type, write_fn |-> FALSE, read_fn |-> FALSE]
             good == works /\ type # "unknown" /\ lookup_name(device_list, name) = Null
         IN  /\ device_list' = IF good THEN insert_device(device_list, d) ELSE device_list
             /\ made' = IF good THEN made \cup {<<drv, unit>>} ELSE made
    /\ UNCHANGED <<phase, walk, running, fdarray, io>>

(* The platform gives the keyboard a function of its own to read with.     *)
device_set_access ==
    /\ phase = "create"
    /\ \E i \in DOMAIN device_list :
         LET d == device_list[i]
         IN  /\ d.type = "char" /\ d.unit = 0
             /\ ~d.read_fn
             /\ device_list' = [device_list EXCEPT ![i].write_fn = FALSE, ![i].read_fn = TRUE]
    /\ UNCHANGED <<phase, walk, running, fdarray, made, io>>

device_lookup(drv, unit) == lookup_name(device_list, DevName(drv, unit))

(***************************************************************************)
(* start_devices_lib: one device at a time, whose start_fn may fail.       *)
(***************************************************************************)
CreatesDone ==
    /\ phase = "create" /\ device_list # <<>>
    /\ phase' = "start" /\ walk' = [at |-> 1, ui |-> FALSE]
    /\ UNCHANGED <<device_list, running, fdarray, made, io>>

MayStartAny(type, ui) == type \in {"char", "txt", "gfx"}
MayStart(type, ui) == type = "char" \/ (type \in {"txt", "gfx"} /\ ~ui)
start_devices_lib ==
    /\ phase = "start"
    /\ IF walk.at > Len(device_list) THEN phase' = "run" /\ UNCHANGED <<walk, running>>
       ELSE \E starts \in BOOLEAN :
              LET d  == device_list[walk.at]
                  ok == MayStart(d.type, walk.ui) /\ starts
              IN  /\ running' = IF ok THEN running \cup {<<d.drv, d.unit>>} ELSE running
                  /\ walk' = [at |-> walk.at + 1, ui |-> walk.ui \/ (ok /\ d.type # "char")]
                  /\ UNCHANGED phase
    /\ UNCHANGED <<device_list, fdarray, made, io>>

(***************************************************************************)
(* Descriptors.  There is no close.  No memory for the name is a failure   *)
(* like a bad flag; the flags of the other good openings are stored the    *)
(* same way, and nothing reads them but fcntl.                             *)
(***************************************************************************)
AnySlot == DOMAIN fdarray
Free == {fd \in DOMAIN fdarray : ~fdarray[fd].inuse}
Fails == [fd |-> -1, reached |-> Null, way |-> "", status |-> "", ret |-> -1]

open ==
    /\ phase = "run" \/ walk.at = 1
    /\ \E drv \in Drivers, unit \in Units, flags \in {{"R"}, {}} :
         LET fd  == First(Free)
             dev == device_lookup(drv, unit)
         IN  IF Free = {} \/ flags = {} \/ dev = Null THEN io' = Fails /\ UNCHANGED fdarray
             ELSE /\ fdarray' = [fdarray EXCEPT ![fd] = [inuse |-> TRUE, flags |-> flags, name |-> DevName(drv, unit),
                                                         rawdev |-> <<dev.drv, dev.unit>>]]
                  /\ io' = [Fails EXCEPT !.fd = fd, !.ret = fd]
    /\ UNCHANGED <<device_list, phase, walk, running, made>>

access(name, amode) ==
    LET dev  == lookup_name(device_list, name)
        mode == (IF dev.read_fn THEN {"R"} ELSE {}) \cup (IF dev.write_fn THEN {"W"} ELSE {})
    IN  dev # Null /\ amode \subseteq mode

fcntl(fd, cmd) == IF cmd = "F_GETFL" THEN fdarray[fd].flags ELSE {"EINVAL"}

(* The driver answers with a count, with nothing, or with an error;        *)
(* device_io_tx and device_io_rx turn every error into EIO, and writing    *)
(* nothing too.  EAGAIN, which would be tried again, is among them.        *)
Answers == {"some", "none", "EAGAIN", "error"}
device_io_tx(d, a) == CASE d.type # "char" -> "EPERM" [] a = "some" /\ d.type = "char" -> "some" [] OTHER -> "EIO"
device_io_rx(d, a) ==
    CASE d.type # "char" -> "EPERM" [] a \in {"some", "none"} /\ d.type = "char" -> a [] OTHER -> "EIO"

Device(fd) == CHOOSE i \in DOMAIN device_list :
                  <<device_list[i].drv, device_list[i].unit>> = fdarray[fd].rawdev
transfer ==
    /\ phase = "run"
    /\ \E fd \in DOMAIN fdarray, way \in {"read", "write"}, a \in Answers :
         LET d   == device_list[Device(fd)]
             ret == IF way = "read" THEN device_io_rx(d, a) ELSE device_io_tx(d, a)
         IN  io' = IF ~fdarray[fd].inuse THEN [Fails EXCEPT !.fd = fd]
                   ELSE [fd |-> fd, reached |-> d, way |-> way, status |-> a,
                         ret |-> IF ret \in {"EIO", "EPERM"} THEN -1 ELSE 1]
    /\ UNCHANGED <<device_list, phase, walk, running, fdarray, made>>

DevicesInit ==
    /\ device_list = <<>> /\ phase = "create" /\ walk = [at |-> 0, ui |-> FALSE] /\ running = {}
    /\ fdarray = [fd \in 0 .. FD_MAX - 1 |-> [inuse |-> FALSE, flags |-> {}, name |-> -1, rawdev |-> <<-1, -1>>]]
    /\ made = {} /\ io = Fails

DevicesNext == device_create \/ device_set_access \/ CreatesDone \/ start_devices_lib \/ open \/ transfer

DevicesSpec == DevicesInit /\ [][DevicesNext]_deviceVars

(***************************************************************************)
(* Properties                                                              *)
(***************************************************************************)

(* A device that was created is found under its driver and unit, whatever  *)
(* was created before or after it: the early end of the search never       *)
(* passes over it.  What is found is the device that was asked for.        *)
CreatedFound ==
    /\ \A p \in made : device_lookup(p[1], p[2]) # Null
    /\ \A drv \in Drivers, unit \in Units :
         LET d == device_lookup(drv, unit) IN d # Null => d.drv = drv /\ d.unit = unit

(* Of the text and graphic devices at most one runs, also when the first   *)
(* that was tried failed to start.                                         *)
OneUiRuns == Cardinality({p \in running : Kind[p[1]] \in {"txt", "gfx"}}) <= 1

(* The list of devices and its start keep their promises.                  *)
DevicesSound == CreatedFound /\ OneUiRuns

(* What is transferred through a descriptor reaches the device whose name  *)
(* the descriptor was opened with, and the descriptor is never given away  *)
(* while it is in use.                                                     *)
DescriptorKept ==
    [][\A fd \in DOMAIN fdarray :
          /\ fdarray[fd].inuse => fdarray'[fd] = fdarray[fd]
          /\ io'.fd = fd /\ io'.reached # Null => io'.reached.name = fdarray[fd].name]_deviceVars

(* A device that answers that it is busy is tried again, or the caller is  *)
(* told that it is busy.                                                   *)
BusyReported == io.status = "EAGAIN" => io.ret # -1

(* A descriptor transfers only in the directions fcntl says it is open in. *)
DirectionKept ==
    io.status = "some" /\ io.ret # -1 =>
        (IF io.way = "read" THEN "R" ELSE "W") \in fcntl(io.fd, "F_GETFL")

(* access grants what a transfer then does.                                *)
AccessAgrees ==
    io.status = "some" /\ io.ret # -1 =>
        access(fdarray[io.fd].name, {IF io.way = "read" THEN "R" ELSE "W"})
=============================================================================
