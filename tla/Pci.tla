-------------------------------- MODULE Pci ---------------------------------
(***************************************************************************)
(* The PCI bus (kernel/libs/pci/pci_lib.c) and its configuration space     *)
(* (platforms/pc/pci_ia32.c).  The functions that are plugged in are       *)
(* chosen at the start; the bus is probed one function at a time.  A       *)
(* vendor and a device id are one number.                                  *)
(***************************************************************************)
EXTENDS Integers, Sequences, FiniteSets

CONSTANTS
    MAX_PCI_BUSSES, MAX_PCI_DEVS, MAX_PCI_FUNCS,    \* buses, devices of a bus, functions of a device
    Ids,            \* the identities of functions
    ConfigBytes,    \* bytes of the configuration space, a multiple of 4
    MaxWrites       \* bound on the writes to the configuration space

ASSUME PciAssumption ==
    /\ MAX_PCI_BUSSES \in Nat \ {0} /\ MAX_PCI_DEVS \in Nat \ {0} /\ MAX_PCI_FUNCS \in Nat \ {0}
    /\ ConfigBytes \in Nat /\ ConfigBytes % 4 = 0 /\ MaxWrites \in Nat

VARIABLES
    plugged,        \* what is on the bus
    probe,          \* the function that is probed next: <<bus, device, function>>
    pci_dev_list,   \* the functions found, the last one first
    dev_counter,
    short,          \* whether the pool was out of memory, which happens once at most
    space,          \* the configuration space of one function
    asked,          \* what the calls asked to be in it
    writes

probeVars == <<plugged, probe, pci_dev_list, dev_counter, short>>
configVars == <<space, asked, writes>>
pciVars == <<probeVars, configVars>>

Slots == (0 .. MAX_PCI_BUSSES - 1) \X (0 .. MAX_PCI_DEVS - 1) \X (0 .. MAX_PCI_FUNCS - 1)
Empty == [type |-> "none"]
(* A function: its header type, whether it says that it has brothers, its  *)
(* identity and, if it can send messages, how many (a power of two).       *)
Functions ==
    [type : {"host"}, multi : {TRUE}, id : Ids, msi : {7}] \cup [type : {"bridge"}, multi : {FALSE}, id : Ids, msi : {-1}]
        \cup [type : {"other"}, multi : {TRUE}, id : Ids, msi : {-1}]

(***************************************************************************)
(* Probing.                                                                *)
(***************************************************************************)
Supported(f) == f.type \in {"host", "bridge"}

MsiDense(f) == IF f.msi = -1 THEN 0 ELSE (dev_counter + 1) * 8 + f.msi
MsiData(f) == IF f.msi = -1 THEN 0 ELSE (dev_counter + 1) * 32 + f.msi

(* Whether a function is found, and the list and the counter after it.  An *)
(* unsupported header is taken off the list again, its number is used up.  *)
pci_bus_enumerate_function(s, memory) ==
    LET f == plugged[s]
        d == [bus |-> s[1], device |-> s[2], function |-> s[3], id |-> f.id, system_deviceid |-> dev_counter,
              msi_msg_data |-> MsiData(f)]
    IN  IF f = Empty \/ ~memory THEN [found |-> FALSE, list |-> pci_dev_list, counter |-> dev_counter]
        ELSE [found |-> Supported(f), counter |-> dev_counter + 1,
              list  |-> IF Supported(f) THEN <<d>> \o pci_dev_list ELSE pci_dev_list]

NextDevice(s) == IF s[2] + 1 < MAX_PCI_DEVS THEN <<s[1], s[2] + 1, 0>> ELSE <<s[1] + 1, 0, 0>>
StopsAtHole(s, found) == IF found /\ s[3] + 1 < MAX_PCI_FUNCS THEN [s EXCEPT ![3] = @ + 1] ELSE NextDevice(s)
(* Function 0 decides whether the others are probed; a hole among them     *)
(* does not end the loop.                                                  *)
AfterFunction(s, found) ==
    IF s[3] + 1 < MAX_PCI_FUNCS /\ (s[3] > 0 \/ (found /\ plugged[s].multi)) THEN [s EXCEPT ![3] = @ + 1]
    ELSE NextDevice(s)

pci_bus_enumerate ==
    /\ probe \in Slots
    /\ \E memory \in (IF short THEN {TRUE} ELSE BOOLEAN) :
         LET r == pci_bus_enumerate_function(probe, memory)
         IN  /\ pci_dev_list' = r.list /\ dev_counter' = r.counter
             /\ probe' = AfterFunction(probe, r.found)
             /\ short' = (short \/ ~memory)
    /\ UNCHANGED <<plugged, configVars>>

(* The search; with prev, the place of a function in the list, it starts   *)
(* at the first entry that shares a coordinate with that function.         *)
FirstIn(S) == CHOOSE i \in S : \A j \in S : i <= j
pci_bus_find_device(id, prev) ==
    LET l     == pci_dev_list
        stops == {i \in DOMAIN l : l[i].bus = l[prev].bus \/ l[i].device = l[prev].device \/ l[i].function = l[prev].function}
        from  == IF prev = 0 THEN 1 ELSE FirstIn(stops)
        S     == {i \in DOMAIN pci_dev_list : i >= from /\ pci_dev_list[i].id = id}
    IN  IF S = {} THEN 0 ELSE FirstIn(S)

(* The drivers of the chip set take the first function with their id.      *)
i82371sb_init(id) == pci_bus_find_device(id, 0) # 0

(***************************************************************************)
(* The configuration space: an address register of double words, and a     *)
(* data port of four bytes.                                                *)
(***************************************************************************)
pci_config_space_set_addr(offset) == (offset - (offset % 4)) % ConfigBytes

PortBase(offset, width) == 0
Port(offset, width) ==
    CASE width = 4 -> 0 [] width = 2 -> 2 * ((offset \div 2) % 2) [] width = 1 -> offset % 4
Reached(offset, width) ==
    LET at == pci_config_space_set_addr(offset) + Port(offset, width) IN at .. at + width - 1

pci_read_config_reg(offset, width) == [i \in Reached(offset, width) |-> space[i]]

pci_write_config_reg ==
    /\ writes < MaxWrites /\ writes' = writes + 1
    /\ \E width \in {1, 2, 4}, offset \in 0 .. ConfigBytes - 1 :
         /\ offset % width = 0
         /\ space' = [i \in DOMAIN space |-> IF i \in Reached(offset, width) THEN writes + 1 ELSE space[i]]
         /\ asked' = [i \in DOMAIN asked |-> IF i >= offset /\ i < offset + width THEN writes + 1 ELSE asked[i]]
    /\ UNCHANGED probeVars

(* pci_write_config: every double word of the space, in turn.              *)
pci_write_config ==
    /\ writes < MaxWrites /\ writes' = writes + 1
    /\ space' = [i \in DOMAIN space |-> writes + 1] /\ asked' = [i \in DOMAIN asked |-> writes + 1]
    /\ UNCHANGED probeVars

PciInit ==
    /\ plugged \in [Slots -> Functions \cup {Empty}]
    /\ probe = <<0, 0, 0>> /\ pci_dev_list = <<>> /\ dev_counter = 0 /\ short = FALSE
    /\ space = [i \in 0 .. ConfigBytes - 1 |-> 0] /\ asked = space /\ writes = 0

PciNext == pci_bus_enumerate \/ pci_write_config_reg \/ pci_write_config

(***************************************************************************)
(* Properties                                                              *)
(***************************************************************************)
Listed(s) == {i \in DOMAIN pci_dev_list : LET d == pci_dev_list[i] IN <<d.bus, d.device, d.function>> = s}

(* When the bus has been probed every supported function of a device whose *)
(* function 0 is supported and says that it has brothers is listed once,   *)
(* holes among the functions or unsupported ones in between                *)
(* notwithstanding, and a search for its identity finds one.               *)
NoneMissed ==
    probe \notin Slots /\ ~short =>
        \A s \in Slots :
            LET f == plugged[s]
                z == plugged[[s EXCEPT ![3] = 0]]
            IN  (Supported(f) /\ Supported(z) /\ (s[3] = 0 \/ z.multi)) =>
                    Cardinality(Listed(s)) = 1 /\ i82371sb_init(f.id)

(* No two functions are given one number, or messages that overlap: a      *)
(* function may add up to 31 to its own.                                   *)
NumbersDistinct ==
    \A i, j \in DOMAIN pci_dev_list :
        i # j =>
            /\ pci_dev_list[i].system_deviceid # pci_dev_list[j].system_deviceid
            /\ pci_dev_list[i].msi_msg_data # 0 =>
                 pci_dev_list[i].msi_msg_data \div 32 # pci_dev_list[j].msi_msg_data \div 32

(* Whatever widths it was written in, the configuration space holds what   *)
(* was asked, and every width reads it back.                               *)
ConfigExact ==
    /\ space = asked
    /\ \A width \in {1, 2, 4}, offset \in 0 .. ConfigBytes - 1 :
         offset % width = 0 =>
            pci_read_config_reg(offset, width) = [i \in offset .. offset + width - 1 |-> asked[i]]

(* A search that goes on from a function that was found finds the others   *)
(* with its identity.                                                      *)
SearchGoesOn ==
    \A i \in DOMAIN pci_dev_list : pci_bus_find_device(pci_dev_list[i].id, i) # i
=============================================================================
