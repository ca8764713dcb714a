------------------------------- MODULE LuaBoot -------------------------------
(***************************************************************************)
(* The boot loader of the scripts: load_luadb (shell.c) parses the update  *)
(* package update.bin and then the image in the flash (preload.c), and the *)
(* program runs on the files that lualibc_fopen then finds (stdio.c).      *)
(*                                                                         *)
(* Compressed files ("zip") are unpacked into the file system, scripts and *)
(* sounds ("plain") are read where they are, through a table in memory,    *)
(* other files ("copy") are copied into the file system.  A package of     *)
(* compressed files is removed when it is unpacked; any other stays.       *)
(*                                                                         *)
(* Power may be lost between any two writes.  Habits names the packages,   *)
(* the failures and the moments of a power loss that the loader does not   *)
(* cope with.                                                              *)
(***************************************************************************)
EXTENDS Naturals, Sequences, FiniteSets

CONSTANTS
    Zipped, Plain, Copied, \* the files of the flash image, by kind
    MaxVersion, \* bound: versions on the server; the flash holds version 0
    Total,      \* parts of a package
    MaxFaults,  \* bound: power losses, errors of a program, failed writes
    Habits      \* a subset of {"copy", "rekind", "repair", "full"}

Files == Zipped \union Plain \union Copied

ASSUME LuaBootAssumption ==
    /\ Zipped \cap Plain = {} /\ (Zipped \union Plain) \cap Copied = {}
    /\ MaxVersion \in Nat \ {0} /\ Total \in Nat \ {0} /\ MaxFaults \in Nat
    /\ Habits \subseteq {"copy",   \* packages of a copied file, or of both kinds
                         "rekind", \* a file of another kind than in the flash
                         "repair", \* power loss while the flash files are
                                   \* written for another time, or removed
                         "full"}   \* a failure while they are written

VARIABLES
    pc,       \* "off", "update" and "rom" in parse_luadb_data, "failed",
              \* "flag" while integrity.bin is written, "run", "exit"
    fs,       \* the version of each file in the file system
    bin,      \* update.bin: a package and the parts of it that are there
    flag,     \* integrity.bin: "none", "torn" or "good"
    updTable, \* pUpdateFileTable: the version of each file in it
    flashTable, \* pFlashFileTable
    todo,     \* files of the image that is being parsed
    writing,  \* the file being written, or none, as a set
    override, restart, wrFile,
    base,     \* the version that each file should have
    faults

boot == <<updTable, flashTable, todo, writing, override, restart, wrFile>>
vars == <<pc, fs, bin, flag, boot, base, faults>>

Missing == MaxVersion + 1
Torn == MaxVersion + 2

Rom == [f \in Files |-> CASE f \in Zipped -> "zip" [] f \in Plain -> "plain"
                          [] f \in Copied -> "copy"]

Kinds == {"zip", "plain", "copy"}

(* A package of only compressed, or of only plain, files, each of the kind *)
(* that it has in the flash                                                *)
Usual(k) ==
    /\ "copy" \in Habits \/ \E c \in {"zip", "plain"} : \A f \in DOMAIN k : k[f] = c
    /\ "rekind" \in Habits \/ \A f \in DOMAIN k : k[f] = Rom[f]

Packages ==
    [version : 1..MaxVersion,
     kind : {k \in UNION {[S -> Kinds] : S \in SUBSET Files \ {{}}} : Usual(k)}]

Absent == [pack |-> [version |-> 0], parts |-> <<>>]
Whole(b) == b # Absent /\ b.parts = [i \in 1..Total |-> i]

NoTable == [f \in {} |-> 0]

Init ==
    /\ pc = "off" /\ fs = [f \in Files |-> Missing] /\ bin = Absent
    /\ flag = "none" /\ updTable = NoTable /\ flashTable = {} /\ todo = {}
    /\ writing = {} /\ override = FALSE /\ restart = FALSE /\ wrFile = FALSE
    /\ base = [f \in Files |-> 0] /\ faults = 0

Fault == faults < MaxFaults /\ faults' = faults + 1

(* What a program reads of file f: of update.bin, at the place where the   *)
(* file was when it was parsed                                             *)
View(f) ==
    CASE f \in DOMAIN updTable ->
            IF Whole(bin) /\ bin.pack.version = updTable[f]
            THEN updTable[f] ELSE Torn
      [] f \notin DOMAIN updTable /\ fs[f] # Missing -> fs[f]
      [] f \notin DOMAIN updTable /\ fs[f] = Missing ->
            IF f \in flashTable THEN 0 ELSE Missing

Exists(f) == f \in DOMAIN updTable \/ fs[f] # Missing \/ f \in flashTable

(* All that is in memory is lost. *)
Off ==
    /\ pc' = "off" /\ updTable' = NoTable /\ flashTable' = {} /\ todo' = {}
    /\ writing' = {} /\ override' = FALSE /\ restart' = FALSE /\ wrFile' = FALSE

ParseRom(over) ==
    pc' = "rom" /\ todo' = Files /\ override' = over /\ writing' = {}

(* load_rom_luadb: the files are written again unless they are marked as   *)
(* complete                                                                *)
LoadRom == ParseRom(flag # "good")

----------------------------------------------------------------------------
(* load_luadb.  The image is checked as a whole before any file of it.     *)
PowerOn ==
    /\ pc = "off"
    /\ \/ bin = Absent /\ LoadRom
       \/ /\ Whole(bin) /\ pc' = "update" /\ todo' = DOMAIN bin.pack.kind
          /\ override' = TRUE /\ UNCHANGED writing
       \/ /\ bin # Absent /\ ~Whole(bin) /\ pc' = "failed"
          /\ UNCHANGED <<todo, override, writing>>
    /\ UNCHANGED <<fs, bin, flag, updTable, flashTable, restart, wrFile, base, faults>>

Kind(f) == IF pc = "update" THEN bin.pack.kind[f] ELSE Rom[f]
Version == IF pc = "update" THEN bin.pack.version ELSE 0

Parsing(f) == pc \in {"update", "rom"} /\ writing = {} /\ f \in todo

(* AddUncompressFileItem *)
AddItem(f) ==
    /\ Parsing(f) /\ Kind(f) = "plain" /\ todo' = todo \ {f}
    /\ IF pc = "update"
       THEN /\ updTable' = [g \in DOMAIN updTable \union {f} |->
                                IF g = f THEN Version ELSE updTable[g]]
            /\ UNCHANGED flashTable
       ELSE flashTable' = flashTable \union {f} /\ UNCHANGED updTable
    /\ UNCHANGED <<pc, fs, bin, flag, writing, override, restart, wrFile, base, faults>>

Skip(f) ==
    /\ Parsing(f) /\ Kind(f) # "plain" /\ Exists(f) /\ ~override
    /\ todo' = todo \ {f}
    /\ UNCHANGED <<pc, fs, bin, flag, updTable, flashTable, writing, override,
                   restart, wrFile, base, faults>>

(* slip: what is there is taken for what should be there *)
WriteBeginIfMissing(f) ==
    /\ Parsing(f) /\ Kind(f) # "plain"
    /\ IF Exists(f) THEN todo' = todo \ {f} /\ UNCHANGED <<fs, writing>>
       ELSE writing' = {f} /\ fs' = [fs EXCEPT ![f] = Torn] /\ UNCHANGED todo
    /\ UNCHANGED <<pc, bin, flag, updTable, flashTable, override, restart,
                   wrFile, base, faults>>

WriteBegin(f) ==
    /\ Parsing(f) /\ Kind(f) # "plain" /\ (override \/ ~Exists(f))
    /\ writing' = {f} /\ fs' = [fs EXCEPT ![f] = Torn]
    /\ UNCHANGED <<pc, bin, flag, updTable, flashTable, todo, override, restart,
                   wrFile, base, faults>>

WriteEnd(f) ==
    /\ writing = {f} /\ writing' = {} /\ todo' = todo \ {f}
    /\ fs' = [fs EXCEPT ![f] = Version] /\ wrFile' = TRUE
    /\ UNCHANGED <<pc, bin, flag, updTable, flashTable, override, restart, base, faults>>

(* A file that could not be written is removed; one that could not be      *)
(* decoded is not touched.  Of the flash image the other files are left.   *)
ParseFails(f) ==
    /\ Fault /\ writing' = {}
    /\ \/ writing = {f} /\ fs' = [fs EXCEPT ![f] = Missing]
       \/ /\ Parsing(f) /\ Kind(f) = "zip" /\ (override \/ ~Exists(f))
          /\ UNCHANGED fs
    /\ \/ pc = "update" /\ pc' = "failed" /\ UNCHANGED todo
       \/ pc = "rom" /\ "full" \in Habits /\ todo' = {} /\ UNCHANGED pc
    /\ UNCHANGED <<bin, flag, updTable, flashTable, override, restart, wrFile, base>>

(* A package adds to the files unpacked before it, and takes the place of  *)
(* one that was read in place.                                             *)
Installed ==
    [f \in Files |-> CASE f \in DOMAIN bin.pack.kind -> bin.pack.version
                       [] f \in Plain \ DOMAIN bin.pack.kind -> 0
                       [] OTHER -> base[f]]

(* slip: a package that is read in place is removed *)
UpdateEndRemoves ==
    /\ pc = "update" /\ todo = {} /\ LoadRom /\ bin' = Absent /\ restart' = TRUE
    /\ wrFile' = FALSE
    /\ base' = Installed
    /\ UNCHANGED <<fs, flag, updTable, flashTable, faults>>

(* The end of parse_luadb_data for update.bin: delupdpack, wrFile *)
UpdateEnd ==
    /\ pc = "update" /\ todo = {} /\ LoadRom
    /\ LET zipped == \A f \in DOMAIN bin.pack.kind : Kind(f) = "zip"
       IN  /\ bin' = IF zipped THEN Absent ELSE bin
           /\ restart' = (zipped \/ wrFile)
    /\ wrFile' = FALSE
    /\ base' = Installed
    /\ UNCHANGED <<fs, flag, updTable, flashTable, faults>>

(* slip: what is there of the flash image is kept *)
UpdateFailsKeeping ==
    /\ pc = "failed" /\ bin' = Absent /\ restart' = TRUE /\ LoadRom
    /\ base' = [f \in Files |-> 0]
    /\ UNCHANGED <<fs, flag, updTable, flashTable, wrFile, faults>>

(* slip: the package is tried again *)
UpdateFailsStays ==
    /\ pc = "failed" /\ restart' = TRUE /\ ParseRom(TRUE)
    /\ base' = [f \in Files |-> 0]
    /\ UNCHANGED <<fs, bin, flag, updTable, flashTable, wrFile, faults>>

(* A package that cannot be parsed: back to the flash image *)
UpdateFails ==
    /\ pc = "failed" /\ bin' = Absent /\ restart' = TRUE /\ ParseRom(TRUE)
    /\ base' = [f \in Files |-> 0]
    /\ UNCHANGED <<fs, flag, updTable, flashTable, wrFile, faults>>

Finish ==
    IF restart THEN Off
    ELSE pc' = "run" /\ UNCHANGED boot

RomEnd ==
    /\ pc = "rom" /\ todo = {}
    /\ IF override THEN flag' = "torn" /\ pc' = "flag" /\ UNCHANGED boot
       ELSE Finish /\ UNCHANGED flag
    /\ UNCHANGED <<fs, bin, base, faults>>

FlagEnd ==
    /\ pc = "flag" /\ flag' = "good" /\ Finish
    /\ UNCHANGED <<fs, bin, base, faults>>

----------------------------------------------------------------------------
(* lua_shell_main, when the program has ended: its files are removed, one  *)
(* by one, and the system restarts.                                        *)

Exit ==
    /\ pc = "run" /\ Fault /\ pc' = "exit"
    /\ UNCHANGED <<fs, bin, flag, boot, base>>

RemoveFile(f) ==
    /\ pc = "exit" /\ fs[f] # Missing /\ fs' = [fs EXCEPT ![f] = Missing]
    /\ UNCHANGED <<pc, bin, flag, boot, base, faults>>

ExitEnd ==
    /\ pc = "exit" /\ \A f \in Files : fs[f] = Missing
    /\ bin' = Absent /\ base' = [f \in Files |-> 0] /\ Off
    /\ UNCHANGED <<fs, flag, faults>>

(* The moments at which a power loss leaves files that the mark vouches for *)
Repairing ==
    \/ pc = "rom" /\ flag = "good" /\ (override \/ writing # {})
    \/ pc = "exit"

(* Power is lost, or the program restarts the module. *)
PowerLoss ==
    /\ pc # "off" /\ Fault /\ ("repair" \in Habits \/ ~Repairing) /\ Off
    /\ UNCHANGED <<fs, bin, flag, base>>

FileStep ==
    \E f \in Files : AddItem(f) \/ Skip(f) \/ WriteBegin(f) \/ WriteEnd(f)

Booting ==
    \/ PowerOn \/ FileStep \/ UpdateEnd \/ UpdateFails \/ RomEnd \/ FlagEnd
    \/ (\E f \in Files : RemoveFile(f)) \/ ExitEnd
=============================================================================
