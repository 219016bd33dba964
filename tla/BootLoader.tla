----------------------------- MODULE BootLoader -----------------------------
(***************************************************************************)
(* The three boot loaders (boot/pc): boots32.s reads an image of a fixed   *)
(* size from a diskette, bootsector32.s the reserved sectors of a volume,  *)
(* bootmbr32.s the active partition.  Each reads a sector at a time        *)
(* through the BIOS into consecutive memory, segment after segment, enters *)
(* protected mode, moves the image above the first megabyte (not boots32)  *)
(* and jumps to it.  Memory is counted in sectors; a segment of 64 KBytes  *)
(* is Segment of them, and the places of the memory map keep their         *)
(* proportions.                                                            *)
(*                                                                         *)
(* The disk they read was made by the tools of the repository:             *)
(* fat/mkimage writes the boot sector or the partition table and the file  *)
(* of the system, fat/main.c changes the table.  A sector of the disk is   *)
(* known by the sector of that file it holds.                              *)
(***************************************************************************)
EXTENDS Integers, Sequences

CONSTANTS
    Segment,        \* sectors in 64 KBytes
    PerTrack,       \* sectors of a track
    Cylinders,      \* cylinders of the disk, of two heads
    ImageSizes,     \* sizes of the image, in sectors
    Partitions,     \* the partition tables of mkimg: sequences of [active, type, first, size]
    Edits,          \* the changes of the table: [index, start, end, answer]
    SectorBits,     \* how many values the counter of sectors has
    KnowsDF         \* whether the keyboard controller takes 0xDF as a command

ASSUME LoaderAssumption ==
    /\ {Segment, PerTrack, Cylinders} \subseteq Nat \ {0}
    /\ ImageSizes \subseteq Nat /\ KnowsDF \in BOOLEAN

VARIABLES
    boot,           \* the registers: [loader, stage, size, si, bx, bp, ch, cl, dh]
    image,          \* the file of the system: [size], in sectors
    disk,           \* [reserved, table, data]: boot sector, partitions, sectors
    ram,            \* the sector of the file each place of the memory holds
    a20             \* whether addresses above the first megabyte are reached

bootVars == <<boot, image, disk, ram, a20>>

DIEGOS_LOAD == Segment
DIEGOS_START == IF boot.loader = "floppy" THEN DIEGOS_LOAD ELSE 17 * Segment
VideoMemory == 10 * Segment .. 16 * Segment - 1
Places == 0 .. 27 * Segment - 1

(* Line 20 of the address bus is zero until gate A20 is open.              *)
Physical(a) == IF ~a20 /\ a >= 16 * Segment /\ a < 32 * Segment THEN a - 16 * Segment ELSE a
Sector(ch, dh, cl) == (ch * 2 + dh) * PerTrack + cl - 1

(***************************************************************************)
(* The tools.  A sector that is not of the file is Other; a write outside  *)
(* the disk is refused and mkimage does not look.                          *)
(***************************************************************************)
Other == -1
DiskSectors == 2 * PerTrack * Cylinders
disk_write(d, sec, what) == IF sec < DiskSectors THEN [d EXCEPT !.data[sec] = what] ELSE d

(* n sectors from the file of m: behind its end the buffer stays.          *)
CopyFile(d, first, n, m) ==
    LET f[i \in 0 .. n] ==
            IF i = 0 THEN d ELSE disk_write(f[i - 1], first + i - 1, IF i <= m THEN i - 1 ELSE m - 1)
    IN  f[n]
FillOther(d, first, n) ==
    LET f[i \in 0 .. n] == IF i = 0 THEN d ELSE disk_write(f[i - 1], first + i - 1, Other)
    IN  f[n]

(* A diskette: the boot sector with the number of reserved sectors in 16   *)
(* bits, the file behind it, and a pattern.                                *)
mkimgfd(d, m) ==
    LET temp == (1 + m) % SectorBits
        made == CopyFile([d EXCEPT !.reserved = temp], 1, temp - 1, m)
    IN  FillOther(made, temp, DiskSectors - temp)

(* "C = LBA / (HPC * SPT), H = (LBA / SPT) mod HPC, S = (LBA mod SPT) + 1" *)
ChsFromOne(lba) ==
    [head |-> (lba \div PerTrack) % 2, sector |-> lba % PerTrack, cylinder |-> lba \div (2 * PerTrack)]
Chs(lba) ==
    [head |-> (lba \div PerTrack) % 2, sector |-> (lba % PerTrack) + 1, cylinder |-> lba \div (2 * PerTrack)]
Entry(e) == [active |-> e.active, type |-> e.type, first |-> e.first, size |-> e.size, chs |-> Chs(e.first)]

(* The table mkimage makes: the file behind the table, a volume behind it. *)
mkimage_table(m) ==
    <<[active |-> TRUE, type |-> "AOPDS", first |-> 1, size |-> m],
      [active |-> FALSE, type |-> "FAT16", first |-> 1 + m, size |-> DiskSectors - (1 + m)]>>

(* The first entry of the table with its active bit set.                   *)
MbrFound(table) == {i \in DOMAIN table : table[i].active /\ \A j \in 1 .. i - 1 : ~table[j].active}

(* The file goes to every partition of its type and volumes are formatted, *)
(* which may fail and end the work.                                        *)
mkimg(d, table, m, formats) ==
    LET made == [d EXCEPT !.table = [i \in DOMAIN table |-> Entry(table[i])]]
        f[i \in 0 .. Len(table)] ==
            IF i = 0 THEN [disk |-> made, ok |-> TRUE]
            ELSE LET w == f[i - 1] e == table[i]
                 IN  CASE ~w.ok -> w
                       [] w.ok /\ e.type = "AOPDS" -> [w EXCEPT !.disk = CopyFile(@, e.first, e.size, m)]
                       [] w.ok /\ e.type # "AOPDS" /\ formats -> [w EXCEPT !.disk = FillOther(@, e.first, e.size)]
                       [] OTHER -> [w EXCEPT !.ok = FALSE]
    IN  IF \E i \in MbrFound(table) : table[i].type = "AOPDS" THEN f[Len(table)]
        ELSE [disk |-> made, ok |-> FALSE]

(* Whoever uses mkimage boots what it made when it did not fail.           *)
MakesFloppy ==
    /\ boot.stage = "blank" /\ boot.loader # "mbr"
    /\ \E m \in ImageSizes : disk' = mkimgfd(disk, m) /\ image' = [size |-> m]
    /\ boot' = [boot EXCEPT !.stage = "start"]
    /\ UNCHANGED <<ram, a20>>
MakesDisk ==
    /\ boot.stage = "blank" /\ boot.loader = "mbr"
    /\ \E m \in ImageSizes, formats \in BOOLEAN :
         \E table \in Partitions \cup {mkimage_table(m)} :
            LET made == mkimg(disk, table, m, formats)
            IN  /\ disk' = made.disk /\ image' = [size |-> m]
                /\ boot' = [boot EXCEPT !.stage = IF made.ok THEN "start" ELSE "failed"]
    /\ UNCHANGED <<ram, a20>>

(* The entry is given other sectors; where it begins in cylinders, heads   *)
(* and sectors, which is what the loader uses, is not written.             *)
do_write_mbr ==
    /\ boot.stage = "start" /\ boot.loader = "mbr"
    /\ \E e \in Edits :
         /\ e.index \in DOMAIN disk.table
         /\ disk' = IF e.end < e.start THEN disk
                    ELSE [disk EXCEPT !.table[e.index].first = e.start, !.table[e.index].size = e.end - e.start + 1,
                                      !.table[e.index].active = (e.answer = "Y")]
    /\ UNCHANGED <<boot, image, ram, a20>>

(***************************************************************************)
(* The start of each loader.  The reset of the drive may fail.             *)
(***************************************************************************)
Reading(loader, chs, size) ==
    [loader |-> loader, stage |-> "read", size |-> size, si |-> size, bx |-> 0, bp |-> DIEGOS_LOAD,
     ch |-> chs.cylinder, dh |-> chs.head, cl |-> chs.sector]
SecondSector == [cylinder |-> 0, head |-> 0, sector |-> 2]
Failed == boot' = [boot EXCEPT !.stage = "error"] /\ UNCHANGED <<image, disk, ram, a20>>

(* boots32 is assembled with the size of the image.                        *)
FloppyStarts ==
    /\ boot.stage = "start" /\ boot.loader = "floppy"
    /\ \/ Failed
       \/ boot' = Reading("floppy", SecondSector, image.size) /\ UNCHANGED <<image, disk, ram, a20>>

(* The boot sector is one of the reserved sectors and is not read again.   *)
VolumeStarts ==
    /\ boot.stage = "start" /\ boot.loader = "volume"
    /\ \/ Failed
       \/ boot' = Reading("volume", SecondSector, disk.reserved - 1) /\ UNCHANGED <<image, disk, ram, a20>>

(* The sectors of the first active entry; with none, and when the reset    *)
(* fails, the loader stops.                                                *)
MbrStarts ==
    /\ boot.stage = "start" /\ boot.loader = "mbr"
    /\ \/ Failed
       \/ \E i \in MbrFound(disk.table) :
            /\ boot' = Reading("mbr", disk.table[i].chs, disk.table[i].size % SectorBits)
            /\ UNCHANGED <<image, disk, ram, a20>>

(***************************************************************************)
(* Reading.                                                                *)
(***************************************************************************)
(* The sector after this one: the next of the track, then the other head,  *)
(* then the next cylinder.                                                 *)
NextSectorLate(b) ==
    IF b.cl + 1 <= PerTrack THEN [b EXCEPT !.cl = @ + 1]
    ELSE [b EXCEPT !.cl = 1, !.ch = @ + (1 - b.dh), !.dh = 1 - @]
NextSector(b) ==
    IF b.cl + 1 <= PerTrack THEN [b EXCEPT !.cl = @ + 1]
    ELSE [b EXCEPT !.cl = 1, !.ch = @ + b.dh, !.dh = 1 - @]

(* The place after this one: BX wraps at the end of the segment.           *)
NextPlace(b) ==
    IF b.bx + 1 < Segment THEN [b EXCEPT !.bx = @ + 1] ELSE [b EXCEPT !.bx = 0, !.bp = @ + Segment]

Stored(b) ==
    LET a == b.bp + b.bx
    IN  IF a \in VideoMemory \/ a \notin Places THEN ram
        ELSE [ram EXCEPT ![a] = disk.data[Sector(b.ch, b.dh, b.cl)]]

readOneSector ==
    /\ boot.stage = "read"
    /\ \/ Failed
       \/ /\ boot.ch < Cylinders
          /\ ram' = Stored(boot)
          /\ LET b == [boot EXCEPT !.si = (@ + SectorBits - 1) % SectorBits]
             IN  boot' = IF b.si = 0 THEN [b EXCEPT !.stage = "loaded"] ELSE NextSector(NextPlace(b))
          /\ UNCHANGED <<image, disk, a20>>

(***************************************************************************)
(* Starting the system.                                                    *)
(***************************************************************************)
(* boots32 opens the gate through the keyboard controller, then asks for   *)
(* the size of the memory, which may fail.                                 *)
FloppyOpensA20 ==
    /\ boot.stage = "loaded" /\ boot.loader = "floppy"
    /\ a20' = TRUE
    /\ \E s \in {"protect", "error"} : boot' = [boot EXCEPT !.stage = s]
    /\ UNCHANGED <<image, disk, ram>>

(* The others ask the BIOS, and when that fails write both bytes to the    *)
(* command port.                                                           *)
A20Enable == KnowsDF
StartDiegOS ==
    /\ boot.stage = "loaded" /\ boot.loader # "floppy"
    /\ \E bios \in BOOLEAN : a20' = (bios \/ A20Enable)
    /\ boot' = [boot EXCEPT !.stage = "protect"]
    /\ UNCHANGED <<image, disk, ram>>

(* Protected mode.  The image on a diskette is run where it was read; the  *)
(* others move it first, by the size they read it with.                    *)
Runs(loader) ==
    /\ boot.stage = "protect" /\ boot.loader = loader
    /\ boot' = [boot EXCEPT !.stage = "run"]
    /\ UNCHANGED <<image, disk, a20>>

CopyShort(n) == [i \in 0 .. n - 2 |-> DIEGOS_LOAD + i]
Copied(n) == [i \in 0 .. n - 1 |-> DIEGOS_LOAD + i]
Moved(n) ==
    LET from == Copied(n)
        To(i) == Physical(DIEGOS_START + i)
    IN  [a \in Places |-> IF \E i \in DOMAIN from : To(i) = a
                          THEN ram[from[CHOOSE i \in DOMAIN from : To(i) = a]]
                          ELSE ram[a]]

FloppyRuns == Runs("floppy") /\ UNCHANGED ram
VolumeRuns == Runs("volume") /\ ram' = Moved(disk.reserved - 1)
MbrRuns == Runs("mbr") /\ ram' = Moved(boot.size)

LoaderInit ==
    /\ boot \in [loader : {"floppy", "volume", "mbr"}, stage : {"blank"}, size : {0}, si : {0}, bx : {0}, bp : {0}, ch : {0},
                 cl : {0}, dh : {0}]
    /\ image = [size |-> 0]
    /\ disk = [reserved |-> 1, table |-> <<>>, data |-> [i \in 0 .. DiskSectors - 1 |-> Other]]
    /\ ram = [a \in Places |-> -1] /\ a20 = FALSE

LoaderNext ==
    \/ MakesFloppy \/ MakesDisk \/ do_write_mbr
    \/ FloppyStarts \/ VolumeStarts \/ MbrStarts \/ readOneSector
    \/ FloppyOpensA20 \/ StartDiegOS \/ FloppyRuns \/ VolumeRuns \/ MbrRuns

(***************************************************************************)
(* Properties                                                              *)
(***************************************************************************)

(* The system is started only with the whole of the file that mkimage was  *)
(* given in place, sector after sector, wherever the table puts it on the  *)
(* disk and whatever tracks, heads and segments it crosses.                *)
ImageInPlace ==
    boot.stage = "run" =>
        \A i \in 0 .. image.size - 1 : ram[Physical(DIEGOS_START + i)] = i

(* mbr.h: a partition begins where its first sector says, in both forms.   *)
EntriesAgree ==
    \A i \in DOMAIN disk.table :
        LET c == disk.table[i].chs IN Sector(c.cylinder, c.head, c.sector) = disk.table[i].first

(* The system is started with all of the memory in reach.                  *)
A20Open == boot.stage = "run" => a20
=============================================================================
