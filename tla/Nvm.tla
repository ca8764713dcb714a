--------------------------------- MODULE Nvm --------------------------------
(***************************************************************************)
(* The parameter store (nvm.lua): parameters live in memory and in the     *)
(* file paraname, which save and restore truncate and write again; the     *)
(* module may restart between any two writes.  At start-up load reads what *)
(* the file still says, and restores the default configuration when it is  *)
(* empty or cannot be parsed.                                              *)
(*                                                                         *)
(* A file is empty, or "torn" in the middle of a line so that it is no Lua *)
(* program, or a set of whole lines.  A number that is cut short is still  *)
(* a number.  Tables are objects: upd makes a parameter the very table of  *)
(* the default configuration, which sett then changes.                     *)
(***************************************************************************)
EXTENDS Naturals

CONSTANTS
    Numbers,   \* keys of the parameters that are numbers
    Tables,    \* keys of the parameters that are tables
    Values,    \* the numbers, and the elements of the tables
    Fields,    \* the keys of the elements of a table
    Default,   \* the number, and the elements, of the default configuration
    MaxCrashes \* bound: restarts

ASSUME NvmAssumption ==
    /\ Numbers \cap Tables = {} /\ Values \subseteq Nat /\ Default \in Values
    /\ MaxCrashes \in Nat /\ Fields # {}

VARIABLES
    phase,    \* "off", "run", "open" and "copy" in restore, "header", "lines"
    file,     \* paraname: its kind and its lines
    para,     \* the parameters in memory
    dft,      \* libdftconfig, as it is in memory
    shared,   \* the tables of para that are those of libdftconfig
    broken,   \* load has assigned an error message to para
    unwritten, \* the keys that save has not written yet
    unsaved,  \* the keys whose value need not be in the file
    crashes

memory == <<para, dft, shared>>
nvmvars == <<phase, file, memory, broken, unwritten, unsaved, crashes>>

Keys == Numbers \cup Tables

(* f with a value for k *)
With(f, k, v) == [j \in DOMAIN f \cup {k} |-> IF j = k THEN v ELSE f[j]]

(* A table may lack some of its fields. *)
TableValues == UNION {[F -> Values] : F \in (SUBSET Fields) \ {{}}}

(* The configuration file that comes with the scripts *)
Factory == [k \in Keys |-> IF k \in Numbers THEN Default
                           ELSE [f \in Fields |-> Default]]

NoLines == [k \in {} |-> 0]
Empty == [kind |-> "empty", lines |-> NoLines]
TornFile == [kind |-> "torn", lines |-> NoLines]
Text(lines) == [kind |-> "text", lines |-> lines]

NvmInit ==
    /\ phase = "off" /\ file = Empty /\ para = NoLines /\ dft = Factory
    /\ shared = {} /\ broken = FALSE /\ unwritten = {} /\ unsaved = {}
    /\ crashes = 0

----------------------------------------------------------------------------
(* Start-up: init and load.  A file that cannot be parsed leaves an error  *)
(* message in para.                                                        *)

Load ==
    /\ phase = "off" /\ file.kind = "text"
    /\ phase' = "run" /\ dft' = Factory
    /\ para' = [k \in Keys |-> IF k \in DOMAIN file.lines THEN file.lines[k]
                               ELSE Factory[k]]
    /\ shared' = Tables \ DOMAIN file.lines
    /\ unsaved' = Keys \ DOMAIN file.lines
    /\ UNCHANGED <<file, broken, unwritten, crashes>>

LoadFails ==
    /\ phase = "off" /\ file.kind # "text"
    /\ phase' = "open" /\ dft' = Factory
    /\ para' = NoLines /\ shared' = {} /\ unsaved' = {}
    /\ broken' = (file.kind = "torn")
    /\ UNCHANGED <<file, unwritten, crashes>>

----------------------------------------------------------------------------
(* restore *)

Restore ==
    /\ phase = "run" /\ phase' = "open"
    /\ UNCHANGED <<file, memory, broken, unwritten, unsaved, crashes>>

RestoreOpen ==
    /\ phase = "open" /\ phase' = "copy" /\ file' = Empty
    /\ UNCHANGED <<memory, broken, unwritten, unsaved, crashes>>

(* slip: upd comes first, and its error keeps the file from being written  *)
RestoreCopyLate ==
    /\ phase = "copy"
    /\ broken' = FALSE /\ unsaved' = {}
    /\ IF broken THEN phase' = "off" /\ file' = TornFile /\ UNCHANGED memory
                 ELSE phase' = "run" /\ para' = dft /\ shared' = Tables
                      /\ file' = Text(Factory) /\ UNCHANGED dft
    /\ UNCHANGED <<unwritten, crashes>>

(* The file is written before upd(true), which raises an error when para   *)
(* is a string: the module restarts, and finds the file whole.             *)
RestoreCopy ==
    /\ phase = "copy" /\ file' = Text(Factory)
    /\ broken' = FALSE /\ unsaved' = {}
    /\ IF broken THEN phase' = "off" /\ UNCHANGED memory
                 ELSE phase' = "run" /\ para' = dft /\ shared' = Tables
                      /\ UNCHANGED dft
    /\ UNCHANGED <<unwritten, crashes>>

----------------------------------------------------------------------------
(* set, sett, flush and save *)

(* set compares a table by the keys of the old one. *)
Differs(k, v) ==
    IF k \in Numbers THEN para[k] # v
    ELSE \E f \in DOMAIN para[k] : ~(f \in DOMAIN v /\ v[f] = para[k][f])

(* What follows a change of k: the file is written unless the caller said  *)
(* otherwise.                                                              *)
SaveIf(k, s) ==
    IF s THEN phase' = "header" /\ file' = Empty /\ unwritten' = DOMAIN para'
              /\ UNCHANGED unsaved
         ELSE unsaved' = unsaved \cup {k} /\ UNCHANGED <<phase, file, unwritten>>

Set(k, v, s) ==
    /\ phase = "run" /\ Differs(k, v)
    /\ para' = [para EXCEPT ![k] = v]
    /\ shared' = shared \ {k}
    /\ SaveIf(k, s)
    /\ UNCHANGED <<dft, broken, crashes>>

(* The element of the table, which may be that of libdftconfig, changes. *)
Sett(k, f, v, s) ==
    /\ phase = "run" /\ (f \in DOMAIN para[k] => para[k][f] # v)
    /\ LET t == With(para[k], f, v) IN
         /\ para' = [para EXCEPT ![k] = t]
         /\ dft' = IF k \in shared THEN [dft EXCEPT ![k] = t] ELSE dft
    /\ SaveIf(k, s)
    /\ UNCHANGED <<shared, broken, crashes>>

Flush ==
    /\ phase = "run" /\ phase' = "header"
    /\ file' = Empty /\ unwritten' = DOMAIN para
    /\ UNCHANGED <<memory, broken, unsaved, crashes>>

WriteHeader ==
    /\ phase = "header" /\ phase' = "lines" /\ file' = Text(NoLines)
    /\ UNCHANGED <<memory, broken, unwritten, unsaved, crashes>>

(* slip: a table is not written *)
WriteNumber(k) ==
    /\ phase = "lines" /\ k \in unwritten /\ unwritten' = unwritten \ {k}
    /\ file' = IF k \in Numbers THEN Text(With(file.lines, k, para[k]))
               ELSE file
    /\ UNCHANGED <<phase, memory, broken, unsaved, crashes>>

(* pairs visits the parameters in any order. *)
WriteLine(k) ==
    /\ phase = "lines" /\ k \in unwritten /\ unwritten' = unwritten \ {k}
    /\ file' = Text(With(file.lines, k, para[k]))
    /\ UNCHANGED <<phase, memory, broken, unsaved, crashes>>

Close ==
    /\ phase = "lines" /\ unwritten = {} /\ phase' = "run" /\ unsaved' = {}
    /\ UNCHANGED <<file, memory, broken, unwritten, crashes>>

----------------------------------------------------------------------------
(* A restart.  What the file system keeps of a file that is being written  *)
(* ends anywhere: between two lines (an earlier restart shows the shorter  *)
(* files), in the middle of one that is no program then, or in the middle  *)
(* of a number, whose last digits are lost.                                *)

CutNumbers == {Text(With(file.lines, k, para[k] \div 10)) :
                 k \in {n \in unwritten \cap Numbers : para[n] >= 10}}

Prefixes ==
    CASE phase = "lines" -> {file, TornFile} \cup CutNumbers
      [] phase = "header" -> {file, TornFile}
      [] phase = "copy" -> {file, TornFile} \cup
             {Text([k \in K |-> Factory[k]]) : K \in SUBSET Keys}
      [] OTHER -> {file}

Crash ==
    /\ phase # "off" /\ crashes < MaxCrashes /\ crashes' = crashes + 1
    /\ phase' = "off" /\ file' \in Prefixes
    /\ para' = NoLines /\ shared' = {} /\ broken' = FALSE /\ unwritten' = {}
    /\ unsaved' = {} /\ dft' = Factory

Operation ==
    \/ Load \/ LoadFails \/ RestoreOpen \/ RestoreCopy
    \/ WriteHeader \/ Close \/ \E k \in Keys : WriteLine(k)

NvmNext ==
    \/ Operation \/ Restore \/ Flush \/ Crash
    \/ \E s \in BOOLEAN :
         \/ \E k \in Numbers, v \in Values : Set(k, v, s)
         \/ \E k \in Tables, v \in TableValues : Set(k, v, s)
         \/ \E k \in Tables, f \in Fields, v \in Values : Sett(k, f, v, s)

NvmSpec == NvmInit /\ [][NvmNext]_nvmvars

(* An operation that was begun goes on. *)
NvmFairSpec == NvmSpec /\ WF_nvmvars(Operation)

----------------------------------------------------------------------------
(* Properties *)

Typed(f) ==
    /\ DOMAIN f \subseteq Keys
    /\ \A k \in DOMAIN f : IF k \in Numbers THEN f[k] \in Nat
                           ELSE f[k] \in TableValues

(* Parameters keep their types through every file that a restart leaves.   *)
NvmTypeOK ==
    /\ phase \in {"off", "run", "open", "copy", "header", "lines"}
    /\ file.kind \in {"empty", "torn", "text"} /\ Typed(file.lines)
    /\ Typed(para) /\ Typed(dft) /\ shared \subseteq Tables
    /\ broken \in BOOLEAN /\ unwritten \subseteq Keys /\ unsaved \subseteq Keys
    /\ crashes \in 0..MaxCrashes

(* Every parameter of the configuration has a value while programs run,    *)
(* whatever a restart left of the file: get would return nil, and set of a *)
(* table, which walks through the old one, would fail.                     *)
EveryParameterHasAValue == phase = "run" => DOMAIN para = Keys

(* The default configuration has been changed in memory (sett). *)
Altered(k) == dft[k] # Factory[k]

(* While programs run, the file says what memory says of every parameter   *)
(* whose last change was to be saved, so that a restart changes none of    *)
(* them; the exceptions are the tables whose default sett has altered.     *)
FileIsMemory ==
    phase = "run" =>
        \A k \in Keys \ unsaved :
            \/ Altered(k)
            \/ /\ file.kind = "text" /\ k \in DOMAIN file.lines
               /\ file.lines[k] = para[k]

(* Memory is complete and the file says the same, whenever the module was  *)
(* restarted.                                                              *)
NvmInv == NvmTypeOK /\ EveryParameterHasAValue /\ FileIsMemory

(* However often the module restarts while the file is being written, the  *)
(* programs run again.                                                     *)
Recovers == phase = "off" ~> phase = "run"
=============================================================================
