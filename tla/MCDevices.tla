----------------------------- MODULE MCDevices ------------------------------
(***************************************************************************)
(* Checks the parts of the system between the kernel and the hardware:     *)
(* Network, Devices, Machine and the measures of its start, Clocks,        *)
(* Interfaces, Console and the Video drivers, Pci, the Session of a user   *)
(* and the BootLoader.  They share no variable, so a behaviour is one of a *)
(* single part, chosen at the start; the others stay as they began.        *)
(***************************************************************************)
EXTENDS Network, Devices, Machine, Clocks, Interfaces, Video, Pci, Session, BootLoader

VARIABLE part

allVars == <<part, vars, deviceVars, machineVars, clockVars, interfaceVars, consoleVars, pciVars, sessionVars, bootVars, timingVars, videoVars>>

(* A driver of each kind: a serial line, a text display, a graphic one and *)
(* one that does not say what it is.                                       *)
DriverKind == [d \in Drivers |-> <<"char", "txt", "gfx", "none">>[d]]

(* Partition tables with the active entry second, in front of and behind a *)
(* volume, with two of the system, with the volume active, and with none.  *)
Tables ==
    LET e(active, type, first, size) == [active |-> active, type |-> type, first |-> first, size |-> size]
    IN  {<<e(FALSE, "FAT16", 24, 6), e(TRUE, "AOPDS", f, 18)>> : f \in {1, 5}}
            \cup {<<e(FALSE, "FAT16", 1, 3), e(TRUE, "AOPDS", 4, 18)>>,
                  <<e(FALSE, "AOPDS", 1, 5), e(TRUE, "AOPDS", 6, 18)>>,
                  <<e(TRUE, "FAT16", 24, 6), e(FALSE, "AOPDS", 1, 18)>>,
                  <<e(FALSE, "AOPDS", 1, 18)>>}
(* The second entry is changed and made active or not, or the sectors that *)
(* are entered are no range.                                               *)
TableEdits ==
    {[index |-> 2, start |-> 5, end |-> 25, answer |-> a] : a \in {"Y", "N"}}
        \cup {[index |-> 1, start |-> 2, end |-> 1, answer |-> "N"]}

(* Two characters in the two heights, boxes of the text screen, and modes: *)
(* one the BIOS knows nothing of, one of another size, one without a       *)
(* linear buffer, and two that fit, the first of which cannot be set.      *)
Font ==
    [h \in {1, 2} |-> [ch \in {1, 2} |->
        [r \in 1 .. h |-> IF ch = 1 THEN {0, 2, 7} ELSE IF r = 1 THEN {} ELSE {1, 6}]]]
Strings == {<<1>>, <<2, 1>>}
Corner(x, y) == [x |-> x, y |-> y]
ScreenBoxes ==
    {<<Corner(0, 0), Corner(0, 0)>>, <<Corner(1, 0), Corner(2, 1)>>, <<Corner(0, 1), Corner(2, 2)>>, <<Corner(2, 0), Corner(2, 2)>>}
BiosModes ==
    LET m(answers, linear, x, takes) ==
            [answers |-> answers, linear |-> linear, bits |-> 8, packed |-> TRUE, x |-> x, y |-> Lines,
             takes |-> takes]
    IN  <<m(FALSE, TRUE, XResolution, TRUE), m(TRUE, TRUE, XResolution + 2, TRUE),
          m(TRUE, FALSE, XResolution, TRUE), m(TRUE, TRUE, XResolution + 1, FALSE),
          m(TRUE, TRUE, XResolution, TRUE)>>
DrawnBound == [vga |-> 2, vesa |-> 1, text |-> 2]

(* The screens are there only in the behaviours of their drivers.          *)
VideoParts == {"vga", "vesa", "text"}
Parts == {"network", "devices", "machine", "clocks", "interfaces", "loopback", "console", "keyboard", "pci",
          "config", "session", "boot", "timing", "ranges"} \cup VideoParts

AllInit ==
    /\ part \in Parts
    /\ Init /\ DevicesInit /\ MachineInit /\ ClockInit /\ InterfacesInit /\ ConsoleInit /\ SessionInit
    /\ PciInit /\ (part # "pci" => plugged = [s \in Slots |-> Empty])
    /\ LoaderInit /\ (part # "boot" => boot.loader = "floppy")
    /\ TimingInit
    /\ IF part \in VideoParts THEN VideoInit ELSE gfx = 0 /\ vesa = 0 /\ txt = 0 /\ picture = 0 /\ drawn = 0
    /\ part # "timing" => milli = (CHOOSE m \in Millis : TRUE) /\ apic.rate = (CHOOSE r \in Rates : TRUE)
    /\ part # "ranges" => mtrr.phys = (CHOOSE p \in PhysBits : TRUE)

NetworkStep ==
    /\ part = "network" /\ Next
    /\ UNCHANGED <<part, deviceVars, machineVars, clockVars, interfaceVars, consoleVars, pciVars, sessionVars, bootVars, timingVars, videoVars>>
DevicesStep ==
    /\ part = "devices" /\ DevicesNext
    /\ UNCHANGED <<part, vars, machineVars, clockVars, interfaceVars, consoleVars, pciVars, sessionVars, bootVars, timingVars, videoVars>>
MachineStep ==
    /\ part = "machine" /\ MachineNext
    /\ UNCHANGED <<part, vars, deviceVars, clockVars, interfaceVars, consoleVars, pciVars, sessionVars, bootVars, timingVars, videoVars>>
ClockStep ==
    /\ part = "clocks" /\ ClockNext
    /\ UNCHANGED <<part, vars, deviceVars, machineVars, interfaceVars, consoleVars, pciVars, sessionVars, bootVars, timingVars, videoVars>>
InterfaceStep ==
    /\ \/ part = "interfaces" /\ (net_interface_create \/ start_net_interfaces_lib)
       \/ part = "loopback" /\ (lo_tx \/ lo_rx_checks \/ lo_rx_copies)
    /\ UNCHANGED <<part, vars, deviceVars, machineVars, clockVars, consoleVars, pciVars, sessionVars, bootVars, timingVars, videoVars>>
ConsoleStep ==
    /\ \/ part = "console" /\ (tty_write \/ tty_write_ends)
       \/ part = "keyboard" /\ scancode_to_char
    /\ UNCHANGED <<part, vars, deviceVars, machineVars, clockVars, interfaceVars, pciVars, sessionVars, bootVars, timingVars, videoVars>>
PciStep ==
    /\ \/ part = "pci" /\ pci_bus_enumerate
       \/ part = "config" /\ (pci_write_config_reg \/ pci_write_config)
    /\ UNCHANGED <<part, vars, deviceVars, machineVars, clockVars, interfaceVars, consoleVars, sessionVars, bootVars, timingVars, videoVars>>

SessionStep ==
    /\ part = "session" /\ SessionNext
    /\ UNCHANGED <<part, vars, deviceVars, machineVars, clockVars, interfaceVars, consoleVars, pciVars, bootVars, timingVars, videoVars>>

BootStep ==
    /\ part = "boot" /\ LoaderNext
    /\ UNCHANGED <<part, vars, deviceVars, machineVars, clockVars, interfaceVars, consoleVars, pciVars, sessionVars, timingVars, videoVars>>

TimingStep ==
    /\ \/ part = "timing" /\ CalibrationNext
       \/ part = "ranges" /\ mtrr_configure
    /\ UNCHANGED <<part, vars, deviceVars, machineVars, clockVars, interfaceVars, consoleVars, pciVars, sessionVars, bootVars, videoVars>>

VideoStep ==
    /\ \/ part = "vga" /\ VgaNext
       \/ part = "vesa" /\ VesaNext
       \/ part = "text" /\ TextNext
    /\ UNCHANGED <<part, vars, deviceVars, machineVars, clockVars, interfaceVars, consoleVars, pciVars, sessionVars, bootVars, timingVars>>

AllNext ==
    \/ NetworkStep \/ DevicesStep \/ MachineStep \/ ClockStep \/ InterfaceStep \/ ConsoleStep \/ PciStep
    \/ SessionStep \/ BootStep \/ TimingStep \/ VideoStep

(* The fairness of Network, in the behaviours of the network.              *)
AllSpec ==
    /\ AllInit /\ [][AllNext]_allVars
    /\ WF_vars(part = "network" /\ Handler) /\ WF_vars(part = "network" /\ NetworkThread)
    /\ \A a \in App : WF_vars(part = "network" /\ (OutAdds(a) \/ OutOpens(a)))

(* NetworkSound, DevicesSound and ClockSound are in the modules they are   *)
(* about, and true of their initial states; what follows is said of each   *)
(* part in its own behaviours.                                             *)

(* From the boot loader to what is found and started: the image is where   *)
(* the kernel runs, no interrupt comes while lock() is held, exit calls    *)
(* what was registered, the calibrations are within a step of the truth    *)
(* and the delays rounded as they should be, memory ranges cover what was  *)
(* asked, the enumeration of PCI misses no function, gives each a number   *)
(* of its own and reads the registers it means, the two trees of           *)
(* interfaces agree, each interface is started once, and the loopback      *)
(* keeps its packets in order.                                             *)
MachineSound ==
    /\ part = "boot" => ImageInPlace
    /\ part = "machine" => NoneWhileLocked /\ ExitsInside
    /\ part = "timing" => CalibrationClose /\ DelaysRounded /\ FrequencyClose
    /\ part = "ranges" => RangesExact
    /\ part = "pci" => NoneMissed /\ NumbersDistinct
    /\ part = "config" => ConfigExact
    /\ part = "interfaces" => TreesAgree /\ StartedOnce
    /\ part = "loopback" => LoopInOrder

(* The user's side: the screen shows the end of what was written, the      *)
(* modifiers the keyboard driver remembers are the ones held, one thread   *)
(* at a time reads the keys, an idle session ends, and the line handed to  *)
(* the parser is the one that was typed.  The video drivers paint the      *)
(* pixels they were asked for, in the mode that is displayed, and show the *)
(* frame that was drawn.                                                   *)
ConsoleSound ==
    /\ part = "console" => ScreenShowsTail
    /\ part = "keyboard" => ModifiersKnown
    /\ part = "session" => OneReader /\ IdleEnded /\ LineExact
    /\ part \in VideoParts => PicturesExact /\ ModeDescribed /\ FrameShown

(* No step takes away what somebody holds: an open descriptor stays with   *)
(* its device until it is closed, an interrupt vector with its handler,    *)
(* and the frame that is shown is not written to.                          *)
HoldersKeep ==
    /\ DescriptorKept
    /\ HandlerKept
    /\ NeverTorn

=============================================================================
