--------------------------- MODULE RestartProofs ----------------------------
(***************************************************************************)
(* What a restart of the module leaves of its files, whenever it comes.    *)
(*                                                                         *)
(* Update: a program never runs on torn, missing or mixed files, for all   *)
(* images and packages, whenever power is lost outside of the moments that *)
(* Repairing names.                                                        *)
(*                                                                         *)
(* Nvm: memory is complete, and the file of the parameters says the same,  *)
(* for any set of parameters, any values and any number of restarts at any *)
(* point of a save.  NvmInv speaks of the times at which programs run;     *)
(* what carries it through a save is which parameters the file still lacks *)
(* (Saving).                                                               *)
(***************************************************************************)
EXTENDS Update, Nvm, TLAPS

(* What the theorems assume of packages, failures and power losses *)
Careful == {"rekind", "repair", "full"} \cap Habits = {}

Stored == Files \ Plain

(* Scripts are read in place, and the tables say where. *)
InPlace ==
    \A f \in Plain :
        base[f] = IF f \in DOMAIN updTable THEN updTable[f] ELSE 0

(* Until integrity.bin is written there is nothing but the flash image.    *)
Unmarked ==
    flag # "good" =>
        /\ pc \in {"off", "rom", "flag"} /\ bin = Absent
        /\ \A f \in Files : base[f] = 0
        /\ pc = "rom" => override

(* What a boot finds: files to be unpacked again from the package, or, if  *)
(* there is none, missing files of the flash image                         *)
OnDisk ==
    /\ bin = Absent =>
          \A f \in Stored : fs[f] = base[f] \/ (fs[f] = Missing /\ base[f] = 0)
    /\ Whole(bin) =>
          \A f \in Stored : fs[f] = base[f] \/ f \in DOMAIN bin.pack.kind

AtOff ==
    pc = "off" =>
        /\ updTable = NoTable /\ flashTable = {} /\ writing = {} /\ todo = {}
        /\ ~restart
        /\ flag = "good" => OnDisk

AtUpdate ==
    pc = "update" =>
        /\ Whole(bin) /\ override /\ OnDisk /\ flashTable = {}
        /\ todo \subseteq DOMAIN bin.pack.kind
        /\ \A f \in DOMAIN bin.pack.kind \ todo :
              IF f \in Plain THEN f \in DOMAIN updTable
              ELSE fs[f] = bin.pack.version
        /\ \A f \in DOMAIN updTable :
              f \in Plain \cap DOMAIN bin.pack.kind /\ updTable[f] = bin.pack.version

AtFailed == pc = "failed" => bin # Absent /\ OnDisk /\ writing = {} /\ flashTable = {}

(* The flash image is written over what is there. *)
AtOverride ==
    (pc = "rom" /\ override) \/ pc = "flag" =>
        /\ bin = Absent /\ flashTable = Plain \ todo
        /\ \A f \in Files : base[f] = 0
        /\ \A f \in Stored \ todo : fs[f] = 0
        /\ restart \/ updTable = NoTable
        /\ pc = "flag" => todo = {}

(* Only missing files are written. *)
AtRom ==
    pc = "rom" /\ ~override =>
        /\ InPlace /\ flashTable = Plain \ todo
        /\ \A f \in Stored :
              \/ fs[f] = base[f] /\ f \notin writing
              \/ base[f] = 0 /\ f \in todo
                   /\ fs[f] = (IF f \in writing THEN Torn ELSE Missing)
        /\ \A f \in writing : base[f] = 0
        /\ bin # Absent => \A f \in Stored : fs[f] = base[f]

AtRun ==
    pc = "run" =>
        /\ InPlace /\ flashTable = Plain /\ todo = {}
        /\ \A f \in Stored : fs[f] = base[f]

(* Scripts are not in the file system, other files are not in the table.   *)
Placed ==
    /\ \A f \in Plain : fs[f] = Missing
    /\ writing \subseteq Stored
    /\ writing # {} => pc \in {"update", "rom"}
    /\ DOMAIN updTable \subseteq Plain
    /\ bin = Absent => \A f \in Plain : base[f] = 0

BootInv ==
    /\ Placed /\ Unmarked /\ AtOff /\ AtUpdate /\ AtFailed /\ AtOverride /\ AtRom /\ AtRun

IInv == TypeOK /\ BootInv

----------------------------------------------------------------------------
(* Kinds and packages *)

LEMMA RomKind == \A f \in Files : /\ Rom[f] \in Kinds
                                  /\ Rom[f] = "plain" <=> f \in Plain
BY LuaBootAssumption DEF Files, Rom, Kinds

LEMMA Package ==
    ASSUME NEW p \in Packages
    PROVE  /\ p.version \in 1..MaxVersion /\ p # NoOffer
           /\ p.kind \in [DOMAIN p.kind -> Kinds]
           /\ DOMAIN p.kind \subseteq Files /\ Usual(p.kind)
<1>1. p \in [version : 1..MaxVersion,
             kind : {k \in UNION {[S -> Kinds] : S \in SUBSET Files \ {{}}} :
                        Usual(k)}]
  BY DEF Packages
<1>2. p.version \in 1..MaxVersion /\ Usual(p.kind)
      /\ p.kind \in UNION {[S -> Kinds] : S \in SUBSET Files \ {{}}}
  BY <1>1
<1>3. PICK S \in SUBSET Files : p.kind \in [S -> Kinds]
  BY <1>2
<1>4. p # NoOffer
  <2>1. NoOffer.version = 0
    BY DEF NoOffer, Absent
  <2> QED BY <2>1, <1>2
<1> QED BY <1>2, <1>3, <1>4

LEMMA PackageKind ==
    ASSUME Careful, NEW p \in Packages
    PROVE  \A f \in DOMAIN p.kind : p.kind[f] = Rom[f]
BY Package DEF Careful, Usual

LEMMA Versions ==
    MaxVersion \in Nat /\ Missing \notin 0..MaxVersion /\ Torn \notin 0..MaxVersion
        /\ Missing # Torn
BY LuaBootAssumption DEF Missing, Torn

----------------------------------------------------------------------------
(* update.lua *)

(* What every state of update.lua satisfies *)
UOK(t) ==
    /\ t \in UState
    /\ t.lid = "open" \/ t.net # {} => t.offer \in Packages

LEMMA IdleOK == UOK(Idle)
BY LuaBootAssumption, UpdateAssumption
   DEF UOK, Idle, UState, Datagrams, NoOffer

LEMMA RequestOK ==
    ASSUME NEW t, UOK(t), NEW a, a \subseteq SUBSET Datagrams,
           NEW v \in Request(t, a)
    PROVE  UOK(v)
<1>1. PICK b \in SUBSET Datagrams :
         /\ v = [t EXCEPT !.timer = TRUE, !.net = @ \union b]
         /\ t.lid # "open" => b = {}
  BY DEF Request
<1> QED BY <1>1 DEF UOK, UState

LEMMA ReqCheckOK ==
    ASSUME NEW t, UOK(t), NEW v \in ReqCheck(t)
    PROVE  UOK(v)
<1> DEFINE s == [t EXCEPT !.state = "CHECK"]
           a == {{}, {NewVersion}, {NoVersion}}
<1>1. UOK(s)
  BY DEF UOK, UState
<1>2. a \subseteq SUBSET Datagrams
  BY DEF Datagrams
<1>3. v \in Request(s, a)
  BY DEF ReqCheck
<1> HIDE DEF s, a
<1> QED BY <1>1, <1>2, <1>3, RequestOK

LEMMA ReqGetOK ==
    ASSUME NEW t, UOK(t), NEW i \in 1..Total, NEW v \in ReqGet(t, i)
    PROVE  UOK(v)
<1> DEFINE a == {{}, {i}, {Err}}
<1>2. a \subseteq SUBSET Datagrams
  BY DEF Datagrams
<1>3. v \in Request(t, a)
  BY DEF ReqGet
<1> HIDE DEF a
<1> QED BY <1>2, <1>3, RequestOK

LEMMA UpEndOK ==
    ASSUME NEW t, UOK(t), NEW succ \in BOOLEAN
    PROVE  UOK(UpEnd(t, succ))
BY DEF UOK, UState, UpEnd

LEMMA UpBeginOK ==
    ASSUME NEW t, UOK(t), NEW v \in UpBegin(t)
    PROVE  UOK(v)
<1> DEFINE s == [t EXCEPT !.getretries = 0, !.state = "UPDATE", !.packid = 1]
<1>1. UOK(s)
  <2>1. 0 \in 0..Retries /\ 1 \in 1..Total
    BY LuaBootAssumption, UpdateAssumption
  <2>2. s \in UState
    BY <2>1 DEF UOK, UState
  <2> QED BY <2>2 DEF UOK, UState
<1>2. v \in ReqGet(s, 1)
  BY DEF UpBegin
<1>3. 1 \in 1..Total
  BY LuaBootAssumption
<1> HIDE DEF s
<1> QED BY <1>1, <1>2, <1>3, ReqGetOK

LEMMA RetryOK ==
    ASSUME NEW t, UOK(t), NEW v \in Retry(t)
    PROVE  UOK(v)
<1> DEFINE n == IF t.getretries < Retries THEN t.getretries + 1 ELSE Retries
           s == [t EXCEPT !.getretries = n]
<1>0. n \in 0..Retries
  BY UpdateAssumption DEF UOK, UState
<1>1. UOK(s) /\ s.packid \in 1..Total
  BY <1>0 DEF UOK, UState
<1>2. v = t \/ v = UpEnd(s, FALSE) \/ v \in ReqGet(s, s.packid) \/ v \in ReqCheck(s)
  <2>1. s.packid = t.packid /\ s.state = t.state
    BY DEF UOK, UState
  <2> QED BY <2>1 DEF Retry
<1> HIDE DEF s
<1> QED BY <1>1, <1>2, UpEndOK, ReqGetOK, ReqCheckOK

(* The steps of update.lua that leave update.bin alone *)
LEMMA DownloadU ==
    ASSUME TypeOK,
           Connect \/ Connected \/ ServerCloses \/ LinkCloses \/ RetryTimer
           \/ Select \/ RecvCheck \/ RecvOther \/ RecvIdle
    PROVE  /\ UOK(u') /\ pc = "run"
           /\ UNCHANGED <<pc, fs, flag, boot, base, mode, bin>>
<1>0. UOK(u)
  BY DEF TypeOK, UOK
<1>1. ASSUME NEW d \in u.net, NEW again \in BOOLEAN
      PROVE  UOK(After(d, again))
  BY <1>0 DEF UOK, UState, After
<1>2. CASE Connect
  BY <1>0, <1>2 DEF Connect, Stays, Running, UOK, UState
<1>3. CASE Connected
  <2> DEFINE t == [u EXCEPT !.net = {}]
  <2>0. UOK(t)
    BY <1>0 DEF UOK, UState
  <2>1. UOK(UpEnd(t, FALSE))
    <3> HIDE DEF t
    <3> QED BY <2>0, UpEndOK
  <2>2. ASSUME NEW o \in Packages,
               u' \in ReqCheck([t EXCEPT !.lid = "open", !.offer = o])
        PROVE  UOK(u')
    <3>1. UOK([t EXCEPT !.lid = "open", !.offer = o])
      BY <2>0 DEF UOK, UState
    <3> QED BY <3>1, <2>2, ReqCheckOK
  <2> QED BY <1>3, <2>1, <2>2 DEF Connected, Stays, Running
<1>4. CASE ServerCloses \/ LinkCloses
  <2>1. UOK([u EXCEPT !.net = {}])
    BY <1>0 DEF UOK, UState
  <2> QED BY <2>1, <1>4, UpEndOK DEF ServerCloses, LinkCloses, Stays, Running
<1>5. CASE RetryTimer
  <2>1. UOK([u EXCEPT !.timer = FALSE])
    BY <1>0 DEF UOK, UState
  <2> QED BY <2>1, <1>5, RetryOK DEF RetryTimer, Stays, Running
<1>6. CASE Select
  <2>1. UOK([u EXCEPT !.asked = FALSE])
    BY <1>0 DEF UOK, UState
  <2>2. UOK([[u EXCEPT !.asked = FALSE] EXCEPT !.lid = "none"])
    BY <1>0 DEF UOK, UState
  <2> QED BY <2>1, <2>2, <1>6, UpBeginOK DEF Select, Stays, Running
<1>7. CASE RecvCheck
  <2>1. PICK d \in u.net, again \in BOOLEAN :
          \/ u' \in UpBegin(After(d, again))
          \/ u' = [After(d, again) EXCEPT !.asked = TRUE]
          \/ u' = UpEnd(After(d, again), FALSE)
    BY <1>7 DEF RecvCheck
  <2>2. UOK(After(d, again))
    BY <1>1
  <2>3. UOK([After(d, again) EXCEPT !.asked = TRUE])
    BY <2>2 DEF UOK, UState
  <2>4. UOK(u')
    BY <2>1, <2>2, <2>3, UpBeginOK, UpEndOK
  <2> QED BY <2>4, <1>7 DEF RecvCheck, Stays, Receive, Running
<1>8. CASE RecvOther
  <2>1. PICK d \in u.net, again \in BOOLEAN :
          u' = IF d = Err THEN UpEnd(After(d, again), FALSE)
               ELSE ErrorPack(After(d, again))
    BY <1>8 DEF RecvOther
  <2>2. UOK(ErrorPack(After(d, again))) /\ UOK(UpEnd(After(d, again), FALSE))
    <3>1. UOK(After(d, again))
      BY <1>1
    <3> QED BY <3>1, UpEndOK DEF UOK, UState, ErrorPack
  <2> QED BY <2>1, <2>2, <1>8 DEF RecvOther, Stays, Receive, Running
<1>9. CASE RecvIdle
  BY <1>1, <1>9, UpEndOK DEF RecvIdle, Stays, Receive, Running
<1> QED BY <1>2, <1>3, <1>4, <1>5, <1>6, <1>7, <1>8, <1>9

(* The last case: a part comes                                             *)
LEMMA PartU ==
    ASSUME TypeOK, RecvPart
    PROVE  /\ pc = "run" /\ bin'.pack \in Packages
           /\ UNCHANGED <<fs, flag, base, mode>>
           /\ \/ UOK(u') /\ UNCHANGED <<pc, boot>>
              \/ u' = Idle /\ Off
<1>0. UOK(u)
  BY DEF TypeOK, UOK
<1>1. PICK d \in u.net, trouble \in {"none", "again", "short"} :
        LET t == [After(d, trouble = "again") EXCEPT !.getretries = 0]
        IN  /\ Receive(d, trouble # "none") /\ IsWanted(u, d)
            /\ bin' = IF trouble = "short" THEN SaveShort(bin, u) ELSE Save(bin, u, d)
            /\ \/ /\ u.packid < Total /\ Stays
                  /\ u' \in ReqGet([t EXCEPT !.packid = @ + 1], u.packid + 1)
               \/ u' = Idle /\ Off /\ UNCHANGED <<fs, flag, base, mode>>
               \/ u' = UpEnd(t, TRUE) /\ Stays
  BY DEF RecvPart
<1> DEFINE t == [After(d, trouble = "again") EXCEPT !.getretries = 0]
<1>2. u.offer \in Packages /\ u.packid \in 1..Total /\ Total \in Nat /\ Total > 0
  BY <1>0, LuaBootAssumption DEF UOK, UState
<1>3. UOK(t)
  <2>1. 0 \in 0..Retries
    BY UpdateAssumption
  <2> QED BY <2>1, <1>0 DEF UOK, UState, After
<1>4. bin'.pack \in Packages
  BY <1>1, <1>2 DEF Save, SaveShort
<1>5. pc = "run"
  BY <1>1 DEF Receive, Running
<1>6. CASE /\ u.packid < Total /\ Stays
            /\ u' \in ReqGet([t EXCEPT !.packid = @ + 1], u.packid + 1)
  <2>1. u.packid + 1 \in 1..Total /\ t.packid = u.packid
    BY <1>2, <1>6, <1>0 DEF UOK, UState, After
  <2>2. UOK([t EXCEPT !.packid = @ + 1])
    BY <1>3, <2>1 DEF UOK, UState
  <2> QED BY <2>1, <2>2, <1>6, ReqGetOK, <1>4, <1>5 DEF Stays
<1>7. CASE u' = UpEnd(t, TRUE) /\ Stays
  BY <1>7, <1>3, <1>4, <1>5, UpEndOK DEF Stays
<1> QED BY <1>1, <1>4, <1>5, <1>6, <1>7

----------------------------------------------------------------------------
(* The boot loader: every action preserves each part of BootInv            *)

(* What a file of an image is, and what the loader has of it               *)
LEMMA KindOf ==
    ASSUME Careful, IInv, NEW f \in Files, Parsing(f)
    PROVE  /\ Kind(f) = "plain" <=> f \in Plain
           /\ pc = "update" => /\ bin.pack \in Packages /\ f \in DOMAIN bin.pack.kind
                              /\ bin.pack.version \in 1..MaxVersion
<1>1. CASE pc = "rom"
  BY <1>1, RomKind DEF Kind
<1>2. CASE pc = "update"
  <2>1. bin # Absent /\ f \in DOMAIN bin.pack.kind
    BY <1>2 DEF IInv, BootInv, AtUpdate, Whole, Parsing
  <2>2. bin.pack \in Packages
    BY <2>1 DEF IInv, TypeOK
  <2>3. bin.pack.kind[f] = Rom[f] /\ bin.pack.version \in 1..MaxVersion
    BY <2>1, <2>2, Package, PackageKind
  <2> QED BY <1>2, <2>1, <2>2, <2>3, RomKind DEF Kind
<1> QED BY <1>1, <1>2 DEF Parsing

USE Versions DEF IInv, TypeOK, BootInv, Placed, Unmarked, AtOff, AtUpdate, AtFailed,
    AtOverride, AtRom, AtRun, InPlace, OnDisk, Stored, Files, NoTable, Whole, Careful

(* A boot reads the package first, if there is one                         *)
LEMMA PowerOnInv ==
    ASSUME Careful, IInv, PowerOn
    PROVE  BootInv'
<1> USE DEF PowerOn, LoadRom, ParseRom
<1>1. Placed'
  OBVIOUS
<1>2. Unmarked'
  OBVIOUS
<1>3. AtOff'
  OBVIOUS
<1>4. AtUpdate'
  OBVIOUS
<1>5. AtFailed'
  OBVIOUS
<1>6. AtOverride'
  OBVIOUS
<1>7. AtRom'
  OBVIOUS
<1>8. AtRun'
  OBVIOUS
<1> QED BY <1>1, <1>2, <1>3, <1>4, <1>5, <1>6, <1>7, <1>8

(* A script enters the table of the image that is parsed                   *)
LEMMA AddItemInv ==
    ASSUME Careful, IInv, NEW f \in Files, AddItem(f)
    PROVE  BootInv'
<1>0. /\ Kind(f) = "plain" <=> f \in Plain
      /\ pc = "update" => f \in DOMAIN bin.pack.kind
      /\ Parsing(f)
  BY KindOf DEF AddItem
<1> USE DEF AddItem, Parsing, Version
<1>1. Placed'
  BY <1>0
<1>2. Unmarked'
  BY <1>0
<1>3. AtOff'
  BY <1>0
<1>4. AtUpdate'
  BY <1>0
<1>5. AtFailed'
  BY <1>0
<1>6. AtOverride'
  BY <1>0
<1>7. AtRom'
  BY <1>0
<1>8. AtRun'
  BY <1>0
<1> QED BY <1>1, <1>2, <1>3, <1>4, <1>5, <1>6, <1>7, <1>8

(* A file that is there is left as it is                                   *)
LEMMA SkipInv ==
    ASSUME Careful, IInv, NEW f \in Files, Skip(f)
    PROVE  BootInv'
<1>0. /\ Kind(f) = "plain" <=> f \in Plain
      /\ pc = "update" => f \in DOMAIN bin.pack.kind
      /\ Parsing(f)
  BY KindOf DEF Skip
<1> USE DEF Skip, Parsing, Exists
<1>1. Placed'
  BY <1>0
<1>2. Unmarked'
  BY <1>0
<1>3. AtOff'
  BY <1>0
<1>4. AtUpdate'
  BY <1>0
<1>5. AtFailed'
  BY <1>0
<1>6. AtOverride'
  BY <1>0
<1>7. AtRom'
  BY <1>0
<1>8. AtRun'
  BY <1>0
<1> QED BY <1>1, <1>2, <1>3, <1>4, <1>5, <1>6, <1>7, <1>8

(* A file is torn while it is written                                      *)
LEMMA WriteBeginInv ==
    ASSUME Careful, IInv, NEW f \in Files, WriteBegin(f)
    PROVE  BootInv'
<1>0. /\ Kind(f) = "plain" <=> f \in Plain
      /\ pc = "update" => f \in DOMAIN bin.pack.kind
      /\ Parsing(f)
  BY KindOf DEF WriteBegin
<1> USE DEF WriteBegin, Parsing, Exists
<1>1. Placed'
  BY <1>0
<1>2. Unmarked'
  BY <1>0
<1>3. AtOff'
  BY <1>0
<1>4. AtUpdate'
  BY <1>0
<1>5. AtFailed'
  BY <1>0
<1>6. AtOverride'
  BY <1>0
<1>7. AtRom'
  BY <1>0
<1>8. AtRun'
  BY <1>0
<1> QED BY <1>1, <1>2, <1>3, <1>4, <1>5, <1>6, <1>7, <1>8

(* A file that was written has the version of its image                    *)
LEMMA WriteEndInv ==
    ASSUME Careful, IInv, NEW f \in Files, WriteEnd(f)
    PROVE  BootInv'
<1>0. /\ f \in Stored /\ f \in todo /\ pc \in {"update", "rom"}
      /\ pc = "update" => bin.pack.version \in 1..MaxVersion
  BY Package DEF WriteEnd
<1> USE DEF WriteEnd, Version
<1>1. Placed'
  BY <1>0
<1>2. Unmarked'
  BY <1>0
<1>3. AtOff'
  BY <1>0
<1>4. AtUpdate'
  BY <1>0
<1>5. AtFailed'
  BY <1>0
<1>6. AtOverride'
  BY <1>0
<1>7. AtRom'
  BY <1>0
<1>8. AtRun'
  BY <1>0
<1> QED BY <1>1, <1>2, <1>3, <1>4, <1>5, <1>6, <1>7, <1>8

(* A package is given up, and what was unpacked stays torn or mixed        *)
LEMMA ParseFailsInv ==
    ASSUME Careful, IInv, NEW f \in Files, ParseFails(f)
    PROVE  BootInv'
<1>0. f \in Stored /\ pc = "update"
  BY KindOf DEF ParseFails
<1> USE DEF ParseFails, Parsing, Fault, Exists
<1>1. Placed'
  BY <1>0
<1>2. Unmarked'
  BY <1>0
<1>3. AtOff'
  BY <1>0
<1>4. AtUpdate'
  BY <1>0
<1>5. AtFailed'
  BY <1>0
<1>6. AtOverride'
  BY <1>0
<1>7. AtRom'
  BY <1>0
<1>8. AtRun'
  BY <1>0
<1> QED BY <1>1, <1>2, <1>3, <1>4, <1>5, <1>6, <1>7, <1>8

(* All files of the package are where the program will find them           *)
LEMMA UpdateEndInv ==
    ASSUME Careful, IInv, UpdateEnd
    PROVE  BootInv'
<1>0. /\ bin.pack \in Packages /\ bin.pack.version \in 1..MaxVersion
      /\ DOMAIN bin.pack.kind \subseteq Files
      /\ \A f \in DOMAIN bin.pack.kind : Kind(f) = "plain" <=> f \in Plain
  <2>1. bin.pack \in Packages /\ pc = "update"
    BY DEF UpdateEnd
  <2> QED BY <2>1, Package, PackageKind, RomKind DEF Kind
<1> USE DEF UpdateEnd, LoadRom, ParseRom, Installed
<1>1. Placed'
  BY <1>0
<1>2. Unmarked'
  BY <1>0
<1>3. AtOff'
  BY <1>0
<1>4. AtUpdate'
  BY <1>0
<1>5. AtFailed'
  BY <1>0
<1>6. AtOverride'
  BY <1>0
<1>7. AtRom'
  BY <1>0
<1>8. AtRun'
  BY <1>0
<1> QED BY <1>1, <1>2, <1>3, <1>4, <1>5, <1>6, <1>7, <1>8

(* The flash image is going to be written over everything                  *)
LEMMA UpdateFailsInv ==
    ASSUME Careful, IInv, UpdateFails
    PROVE  BootInv'
<1> USE DEF UpdateFails, ParseRom
<1>1. Placed'
  OBVIOUS
<1>2. Unmarked'
  OBVIOUS
<1>3. AtOff'
  OBVIOUS
<1>4. AtUpdate'
  OBVIOUS
<1>5. AtFailed'
  OBVIOUS
<1>6. AtOverride'
  OBVIOUS
<1>7. AtRom'
  OBVIOUS
<1>8. AtRun'
  OBVIOUS
<1> QED BY <1>1, <1>2, <1>3, <1>4, <1>5, <1>6, <1>7, <1>8

(* The image is parsed: the mark is written, or the program runs           *)
LEMMA RomEndInv ==
    ASSUME Careful, IInv, RomEnd
    PROVE  BootInv'
<1> USE DEF RomEnd, Finish, Off, boot
<1>1. Placed'
  OBVIOUS
<1>2. Unmarked'
  OBVIOUS
<1>3. AtOff'
  OBVIOUS
<1>4. AtUpdate'
  OBVIOUS
<1>5. AtFailed'
  OBVIOUS
<1>6. AtOverride'
  OBVIOUS
<1>7. AtRom'
  OBVIOUS
<1>8. AtRun'
  OBVIOUS
<1> QED BY <1>1, <1>2, <1>3, <1>4, <1>5, <1>6, <1>7, <1>8

(* The mark vouches for the files that were just written                   *)
LEMMA FlagEndInv ==
    ASSUME Careful, IInv, FlagEnd
    PROVE  BootInv'
<1> USE DEF FlagEnd, Finish, Off, boot
<1>1. Placed'
  OBVIOUS
<1>2. Unmarked'
  OBVIOUS
<1>3. AtOff'
  OBVIOUS
<1>4. AtUpdate'
  OBVIOUS
<1>5. AtFailed'
  OBVIOUS
<1>6. AtOverride'
  OBVIOUS
<1>7. AtRom'
  OBVIOUS
<1>8. AtRun'
  OBVIOUS
<1> QED BY <1>1, <1>2, <1>3, <1>4, <1>5, <1>6, <1>7, <1>8

(* A program ends                                                          *)
LEMMA ExitInv ==
    ASSUME Careful, IInv, Exit
    PROVE  BootInv'
<1> USE DEF Exit, Fault, boot
<1>1. Placed'
  OBVIOUS
<1>2. Unmarked'
  OBVIOUS
<1>3. AtOff'
  OBVIOUS
<1>4. AtUpdate'
  OBVIOUS
<1>5. AtFailed'
  OBVIOUS
<1>6. AtOverride'
  OBVIOUS
<1>7. AtRom'
  OBVIOUS
<1>8. AtRun'
  OBVIOUS
<1> QED BY <1>1, <1>2, <1>3, <1>4, <1>5, <1>6, <1>7, <1>8

(* The files of a program that ended are removed                           *)
LEMMA RemoveFileInv ==
    ASSUME Careful, IInv, NEW f \in Files, RemoveFile(f)
    PROVE  BootInv'
<1> USE DEF RemoveFile, boot
<1>1. Placed'
  OBVIOUS
<1>2. Unmarked'
  OBVIOUS
<1>3. AtOff'
  OBVIOUS
<1>4. AtUpdate'
  OBVIOUS
<1>5. AtFailed'
  OBVIOUS
<1>6. AtOverride'
  OBVIOUS
<1>7. AtRom'
  OBVIOUS
<1>8. AtRun'
  OBVIOUS
<1> QED BY <1>1, <1>2, <1>3, <1>4, <1>5, <1>6, <1>7, <1>8

(* Only the flash image is left                                            *)
LEMMA ExitEndInv ==
    ASSUME Careful, IInv, ExitEnd
    PROVE  BootInv'
<1> USE DEF ExitEnd, Off
<1>1. Placed'
  OBVIOUS
<1>2. Unmarked'
  OBVIOUS
<1>3. AtOff'
  OBVIOUS
<1>4. AtUpdate'
  OBVIOUS
<1>5. AtFailed'
  OBVIOUS
<1>6. AtOverride'
  OBVIOUS
<1>7. AtRom'
  OBVIOUS
<1>8. AtRun'
  OBVIOUS
<1> QED BY <1>1, <1>2, <1>3, <1>4, <1>5, <1>6, <1>7, <1>8

(* Memory is lost, at a moment that Repairing does not name                *)
LEMMA PowerLossInv ==
    ASSUME Careful, IInv, PowerLoss
    PROVE  BootInv'
<1> USE DEF PowerLoss, Off, Fault, Repairing
<1>1. Placed'
  OBVIOUS
<1>2. Unmarked'
  OBVIOUS
<1>3. AtOff'
  OBVIOUS
<1>4. AtUpdate'
  OBVIOUS
<1>5. AtFailed'
  OBVIOUS
<1>6. AtOverride'
  OBVIOUS
<1>7. AtRom'
  OBVIOUS
<1>8. AtRun'
  OBVIOUS
<1> QED BY <1>1, <1>2, <1>3, <1>4, <1>5, <1>6, <1>7, <1>8

HIDE Versions DEF IInv, TypeOK, BootInv, Placed, Unmarked, AtOff, AtUpdate, AtFailed,
    AtOverride, AtRom, AtRun, InPlace, OnDisk, Stored, Files, NoTable, Whole, Careful

----------------------------------------------------------------------------
(* Types *)

TypesOfBoot ==
    /\ pc \in {"off", "update", "rom", "failed", "flag", "run", "exit"}
    /\ fs \in [Files -> Contents] /\ base \in [Files -> 0..MaxVersion]
    /\ flag \in {"none", "torn", "good"}
    /\ flashTable \subseteq Plain /\ writing \subseteq todo /\ todo \subseteq Files
    /\ bin = Absent \/ bin.pack \in Packages
    /\ writing # {} => pc \in {"update", "rom"}

TypeInv == TypesOfBoot /\ UOK(u) /\ mode \in Modes /\ (pc # "run" => u = Idle)

LEMMA TypeParts == TypeInv => TypeOK
BY DEF TypeInv, TypeOK, TypesOfBoot, UOK

LEMMA VersionOK ==
    ASSUME TypesOfBoot
    PROVE  /\ Version \in 0..MaxVersion /\ bin.pack.version \in 0..MaxVersion
           /\ bin # Absent => DOMAIN bin.pack.kind \subseteq Files
<1>1. CASE bin = Absent
  BY <1>1, LuaBootAssumption DEF Version, Absent
<1>2. CASE bin # Absent
  <2>1. bin.pack \in Packages
    BY <1>2 DEF TypesOfBoot
  <2> QED BY <2>1, Package, LuaBootAssumption DEF Version
<1> QED BY <1>1, <1>2

LEMMA BootTypes ==
    ASSUME TypesOfBoot, Booting \/ Exit \/ PowerLoss \/ \E f \in Files : ParseFails(f)
    PROVE  TypesOfBoot'
<1> USE DEF TypesOfBoot
<1>0. 0 \in 0..MaxVersion /\ 0..MaxVersion \subseteq Contents
      /\ Missing \in Contents /\ Torn \in Contents
  BY LuaBootAssumption DEF Contents
<1>1. CASE PowerOn
  BY <1>1, VersionOK DEF PowerOn, LoadRom, ParseRom, Whole
<1>2. ASSUME NEW f \in Files, AddItem(f)
      PROVE  TypesOfBoot'
  <2>1. pc = "rom" => f \in Plain
    BY <1>2, RomKind DEF AddItem, Parsing, Kind
  <2> QED BY <1>2, <2>1 DEF AddItem, Parsing
<1>3. ASSUME NEW f \in Files, Skip(f) \/ WriteBegin(f)
      PROVE  TypesOfBoot'
  BY <1>0, <1>3 DEF Skip, WriteBegin, Parsing
<1>4. ASSUME NEW f \in Files, WriteEnd(f)
      PROVE  TypesOfBoot'
  BY <1>0, <1>4, VersionOK DEF WriteEnd
<1>5. ASSUME NEW f \in Files, ParseFails(f)
      PROVE  TypesOfBoot'
  BY <1>0, <1>5 DEF ParseFails, Fault
<1>6. CASE UpdateEnd
  <2>1. Installed \in [Files -> 0..MaxVersion]
    BY <1>0, VersionOK DEF Installed
  <2> QED BY <1>6, <2>1 DEF UpdateEnd, LoadRom, ParseRom
<1>7. CASE UpdateFails
  BY <1>0, <1>7 DEF UpdateFails, ParseRom
<1>8. CASE RomEnd \/ FlagEnd \/ Exit \/ PowerLoss
  BY <1>8 DEF RomEnd, FlagEnd, Finish, Exit, PowerLoss, Off, Fault, boot
<1>9. CASE ExitEnd \/ \E f \in Files : RemoveFile(f)
  BY <1>0, <1>9 DEF RemoveFile, ExitEnd, Off, boot
<1> QED BY <1>1, <1>2, <1>3, <1>4, <1>5, <1>6, <1>7, <1>8, <1>9 DEF Booting, FileStep

(* A program starts with update.lua at rest and leaves it so.              *)
LEMMA TypeStep ==
    ASSUME TypeInv, [UpdateNext]_allvars
    PROVE  TypeInv'
<1>0. TypesOfBoot /\ UOK(u) /\ mode \in Modes /\ (pc # "run" => u = Idle) /\ TypeOK
  BY TypeParts DEF TypeInv
<1> SUFFICES TypesOfBoot' /\ UOK(u') /\ mode' \in Modes /\ (pc' # "run" => u' = Idle)
  BY DEF TypeInv, UOK
<1>1. CASE BootStep
  <2>1. TypesOfBoot'
    BY <1>0, <1>1, BootTypes DEF BootStep
  <2>2. pc # "run"
    BY <1>0, <1>1 DEF TypesOfBoot, BootStep, Booting, PowerOn, FileStep, AddItem, Skip, WriteBegin,
       WriteEnd, Parsing, UpdateEnd, UpdateFails, RomEnd, FlagEnd, RemoveFile, ExitEnd
  <2> QED BY <1>0, <1>1, <2>1, <2>2 DEF BootStep
<1>2. CASE LuaStops
  BY <1>0, <1>2, BootTypes, IdleOK DEF LuaStops
<1>3. CASE WriteFails
  <2>1. TypesOfBoot' /\ u' = u /\ mode' = mode
    BY <1>0, <1>3, BootTypes DEF WriteFails
  <2>2. pc # "run"
    BY <1>3 DEF WriteFails, ParseFails
  <2> QED BY <1>0, <2>1, <2>2
<1>4. CASE RecvPart
  <2>1. pc = "run" /\ bin'.pack \in Packages /\ UNCHANGED <<fs, flag, base, mode>>
    BY <1>0, <1>4, PartU
  <2>2. CASE UOK(u') /\ UNCHANGED <<pc, boot>>
    BY <1>0, <2>1, <2>2 DEF TypesOfBoot, boot
  <2>3. CASE u' = Idle /\ Off
    BY <1>0, <2>1, <2>3, IdleOK DEF TypesOfBoot, Off
  <2> QED BY <1>0, <1>4, PartU, <2>2, <2>3
<1>5. CASE \/ Connect \/ Connected \/ ServerCloses \/ LinkCloses \/ RetryTimer
           \/ Select \/ RecvCheck \/ RecvOther \/ RecvIdle
  BY <1>0, <1>5, DownloadU DEF TypesOfBoot, boot
<1>6. CASE UNCHANGED allvars
  BY <1>0, <1>6 DEF allvars, vars, boot, TypesOfBoot
<1> QED BY <1>1, <1>2, <1>3, <1>4, <1>5, <1>6 DEF UpdateNext, Downloading

LEMMA TypeInit == UpdateInit => TypeInv
<1> SUFFICES ASSUME UpdateInit PROVE TypesOfBoot /\ UOK(u) /\ mode \in Modes /\ u = Idle
  BY DEF TypeInv
<1>1. TypesOfBoot
  BY LuaBootAssumption DEF UpdateInit, Init, TypesOfBoot, Contents, Missing
<1> QED BY <1>1, IdleOK DEF UpdateInit

(* Every state has its types, and update.lua is at rest unless a program   *)
(* runs (update.lua 22-27: its variables are those of a new program).      *)
THEOREM UpdateTypes == UpdateSpec => []TypeOK
<1>1. TypeInv /\ [UpdateNext]_allvars => TypeInv'
  BY TypeStep
<1> QED BY TypeInit, <1>1, TypeParts, PTL DEF UpdateSpec

----------------------------------------------------------------------------
(* The invariant, and what follows from it *)

LEMMA InvInit == ASSUME UpdateInit PROVE BootInv
BY DEF UpdateInit, Init, BootInv, Placed, Unmarked, AtOff, AtUpdate, AtFailed, AtOverride,
   AtRom, AtRun, OnDisk, Whole, Stored, NoTable, Files

LEMMA InvStep ==
    ASSUME Careful, IInv, [UpdateNext]_allvars
    PROVE  BootInv'
<1>1. CASE BootStep
  BY <1>1, PowerOnInv, AddItemInv, SkipInv, WriteBeginInv, WriteEndInv, UpdateEndInv,
     UpdateFailsInv, RomEndInv, FlagEndInv, RemoveFileInv, ExitEndInv
     DEF BootStep, Booting, FileStep
<1>2. CASE LuaStops
  BY <1>2, ExitInv, PowerLossInv DEF LuaStops
<1>3. CASE WriteFails
  BY <1>3, ParseFailsInv DEF WriteFails
<1>4. CASE RecvPart
  <2>1. pc = "run" /\ bin' # Absent /\ UNCHANGED <<fs, flag, base>>
    BY <1>4, PartU, Package DEF IInv, NoOffer
  <2>2. CASE UNCHANGED <<pc, boot>>
    BY <2>1, <2>2 DEF IInv, BootInv, Placed, Unmarked, AtOff, AtUpdate, AtFailed,
       AtOverride, AtRom, AtRun, InPlace, boot
  <2>3. CASE Off
    BY <2>1, <2>3 DEF IInv, BootInv, Placed, Unmarked, AtOff, AtUpdate, AtFailed,
       AtOverride, AtRom, AtRun, OnDisk, Off, NoTable
  <2> QED BY <1>4, PartU, <2>2, <2>3 DEF IInv
<1>5. CASE \/ Connect \/ Connected \/ ServerCloses \/ LinkCloses \/ RetryTimer
           \/ Select \/ RecvCheck \/ RecvOther \/ RecvIdle
  BY <1>5, DownloadU DEF IInv, BootInv, Placed, Unmarked, AtOff, AtUpdate, AtFailed,
     AtOverride, AtRom, AtRun, InPlace, OnDisk, Whole, boot
<1>6. CASE UNCHANGED allvars
  BY <1>6 DEF IInv, BootInv, Placed, Unmarked, AtOff, AtUpdate, AtFailed,
     AtOverride, AtRom, AtRun, InPlace, OnDisk, Whole, allvars, vars, boot
<1> QED BY <1>1, <1>2, <1>3, <1>4, <1>5, <1>6 DEF UpdateNext, Downloading

LEMMA BootInvariant == Careful => (UpdateSpec => []IInv)
<1>1. ASSUME Careful PROVE UpdateSpec => []IInv
  <2>1. UpdateInit => IInv
    BY TypeInit, TypeParts, InvInit DEF IInv
  <2>2. IInv /\ [UpdateNext]_allvars => IInv'
    <3>1. IInv => TypeInv
      BY DEF IInv, TypeInv, TypeOK, TypesOfBoot, UOK, BootInv, Placed
    <3>2. TypeInv' => TypeOK'
      BY DEF TypeInv, TypeOK, TypesOfBoot, UOK
    <3> QED BY <1>1, <3>1, <3>2, TypeStep, InvStep DEF IInv
  <2> QED BY <2>1, <2>2, PTL DEF UpdateSpec
<1> QED BY <1>1

LEMMA InvConsistent == ASSUME IInv PROVE Consistent
<1> SUFFICES ASSUME pc = "run", Undisturbed, NEW f \in Files PROVE View(f) = base[f]
  BY DEF Consistent
<1>1. /\ InPlace /\ flashTable = Plain /\ DOMAIN updTable \subseteq Plain
      /\ \A g \in Stored : fs[g] = base[g]
      /\ \A g \in Plain : fs[g] = Missing
      /\ base[f] \in 0..MaxVersion
  BY DEF IInv, TypeOK, BootInv, Placed, AtRun
<1>2. CASE f \in DOMAIN updTable
  BY <1>1, <1>2 DEF View, Undisturbed, InPlace
<1>3. CASE f \in Plain \ DOMAIN updTable
  BY <1>1, <1>3 DEF View, InPlace
<1>4. CASE f \in Stored
  BY <1>1, <1>4, Versions DEF View, Stored
<1> QED BY <1>2, <1>3, <1>4 DEF Stored

(* A program never runs on torn, missing or mixed files (shell.c 88-195,   *)
(* preload.c 786-999), whatever the images, the packages, the datagrams of *)
(* the network and the moments at which power is lost, if packages keep    *)
(* the kinds of the flash image, the file system takes what the image      *)
(* holds, and power is not lost while the image is written another time.   *)
THEOREM ProgramIsConsistent == Careful => (UpdateSpec => []Consistent)
<1>1. IInv => Consistent
  BY InvConsistent
<1> QED BY <1>1, BootInvariant, PTL

LEMMA RemovalStep ==
    ASSUME Careful, IInv, UpdateNext, Whole(bin), bin' = Absent
    PROVE  \/ \A f \in DOMAIN bin.pack.kind : fs'[f] = bin.pack.version
           \/ \A f \in Files : base'[f] = 0
<1>0. bin # Absent
  BY DEF Whole
<1>1. CASE UpdateEnd
  <2>1. /\ \A f \in DOMAIN bin.pack.kind : Kind(f) = "zip"
        /\ fs' = fs /\ todo = {} /\ pc = "update"
    BY <1>0, <1>1 DEF UpdateEnd
  <2>2. bin.pack \in Packages
    BY <1>0 DEF IInv, TypeOK
  <2>3. \A f \in DOMAIN bin.pack.kind : f \notin Plain
    BY <2>1, <2>2, Package, PackageKind, RomKind DEF Kind
  <2> QED BY <2>1, <2>3 DEF IInv, BootInv, AtUpdate
<1>2. CASE UpdateFails \/ ExitEnd
  BY <1>2 DEF UpdateFails, ExitEnd
<1>3. CASE BootStep /\ ~UpdateEnd /\ ~UpdateFails /\ ~ExitEnd
  BY <1>0, <1>3 DEF BootStep, Booting, PowerOn, FileStep, AddItem, Skip, WriteBegin,
     WriteEnd, RomEnd, FlagEnd, RemoveFile
<1>4. CASE LuaStops \/ WriteFails
  BY <1>0, <1>4 DEF LuaStops, Exit, PowerLoss, WriteFails, ParseFails
<1>5. CASE RecvPart
  BY <1>5, PartU, Package DEF IInv, NoOffer
<1>6. CASE \/ Connect \/ Connected \/ ServerCloses \/ LinkCloses \/ RetryTimer
           \/ Select \/ RecvCheck \/ RecvOther \/ RecvIdle
  BY <1>0, <1>6, DownloadU DEF IInv
<1> QED BY <1>1, <1>2, <1>3, <1>4, <1>5, <1>6 DEF UpdateNext, Downloading

(* A package is removed (preload.c 985-997, shell.c 104-119) only when its *)
(* files are unpacked, or when the program is to be that of the flash      *)
(* image again.                                                            *)
THEOREM PackageIsRemovedWhenDone == Careful => (UpdateSpec => RemovedWhenDone)
<1> SUFFICES ASSUME Careful PROVE UpdateSpec => RemovedWhenDone
  OBVIOUS
<1>1. IInv /\ [UpdateNext]_allvars =>
         [Whole(bin) /\ bin' = Absent =>
            \/ \A f \in DOMAIN bin.pack.kind : fs'[f] = bin.pack.version
            \/ \A f \in Files : base'[f] = 0]_allvars
  BY RemovalStep
<1>2. UpdateSpec => []IInv
  BY BootInvariant
<1> QED BY <1>1, <1>2, PTL DEF UpdateSpec, RemovedWhenDone

----------------------------------------------------------------------------
(* The parts of update.bin *)

(* Where a download is in its package *)
At(t) == <<t.state, t.packid, t.offer>>

(* A download that is past its first part stays where it is, or ends.      *)
Follows(v, t) == v.state = "UPDATE" /\ v.packid > 1 => At(v) = At(t)

LEMMA RequestAt ==
    ASSUME NEW t, UOK(t), NEW a, NEW v \in Request(t, a)
    PROVE  At(v) = At(t)
BY DEF Request, UOK, UState, At

LEMMA EndAt ==
    ASSUME NEW t, UOK(t), NEW succ \in BOOLEAN
    PROVE  UpEnd(t, succ).state = "IDLE"
BY DEF UpEnd, UOK, UState

LEMMA BeginAt ==
    ASSUME NEW t, UOK(t), NEW v \in UpBegin(t)
    PROVE  v.packid = 1
<1> DEFINE s == [t EXCEPT !.getretries = 0, !.state = "UPDATE", !.packid = 1]
<1>1. UOK(s) /\ s.packid = 1
  <2>1. 0 \in 0..Retries /\ 1 \in 1..Total
    BY LuaBootAssumption, UpdateAssumption
  <2>2. s \in UState /\ s.packid = 1
    BY <2>1 DEF UOK, UState
  <2> QED BY <2>2 DEF UOK, UState
<1>2. v \in Request(s, {{}, {1}, {Err}})
  BY DEF UpBegin, ReqGet
<1> HIDE DEF s
<1> QED BY <1>1, <1>2, RequestAt DEF At

LEMMA CheckAt ==
    ASSUME NEW t, UOK(t), NEW v \in ReqCheck(t)
    PROVE  v.state = "CHECK"
<1> DEFINE s == [t EXCEPT !.state = "CHECK"]
<1>1. UOK(s) /\ s.state = "CHECK"
  BY DEF UOK, UState
<1>2. v \in Request(s, {{}, {NewVersion}, {NoVersion}})
  BY DEF ReqCheck
<1> HIDE DEF s
<1> QED BY <1>1, <1>2, RequestAt DEF At

LEMMA RetryAt ==
    ASSUME NEW t, UOK(t), NEW v \in Retry(t)
    PROVE  Follows(v, t)
<1> DEFINE n == IF t.getretries < Retries THEN t.getretries + 1 ELSE Retries
           s == [t EXCEPT !.getretries = n]
<1>0. n \in 0..Retries
  BY UpdateAssumption DEF UOK, UState
<1>1. UOK(s) /\ At(s) = At(t) /\ s.packid = t.packid
  BY <1>0 DEF UOK, UState, At
<1>2. v = t \/ v = UpEnd(s, FALSE) \/ v \in ReqGet(s, s.packid) \/ v \in ReqCheck(s)
  <2>1. s.packid = t.packid /\ s.state = t.state
    BY DEF UOK, UState
  <2> QED BY <2>1 DEF Retry
<1> HIDE DEF s
<1>3. v \in ReqGet(s, s.packid) => At(v) = At(s)
  BY <1>1, RequestAt DEF ReqGet
<1> QED BY <1>1, <1>2, <1>3, EndAt, CheckAt DEF Follows

(* Nothing but a part moves a download that is past its first part.        *)
LEMMA DownloadAt ==
    ASSUME TypeOK, faults \in Nat,
           Connect \/ Connected \/ ServerCloses \/ LinkCloses \/ RetryTimer
           \/ Select \/ RecvCheck \/ RecvOther \/ RecvIdle
    PROVE  Follows(u', u) /\ faults' \in Nat /\ faults' >= faults
<1>0. UOK(u)
  BY DEF TypeOK, UOK
<1>1. ASSUME NEW d \in u.net, NEW again \in BOOLEAN
      PROVE  UOK(After(d, again)) /\ At(After(d, again)) = At(u)
  BY <1>0 DEF UOK, UState, After, At
<1>2. faults' \in Nat /\ faults' >= faults
  <2>1. faults' = faults \/ faults' = faults + 1
    BY DEF Connect, Connected, ServerCloses, LinkCloses, RetryTimer, Select, RecvCheck,
       RecvOther, RecvIdle, Receive, Fault
  <2> QED BY <2>1
<1> SUFFICES Follows(u', u)
  BY <1>2
<1>3. CASE Connect
  BY <1>0, <1>3 DEF Connect, UOK, UState, Follows, At
<1>4. CASE Connected
  <2> DEFINE t == [u EXCEPT !.net = {}]
  <2>0. UOK(t)
    BY <1>0 DEF UOK, UState
  <2>1. ASSUME NEW o \in Packages PROVE UOK([t EXCEPT !.lid = "open", !.offer = o])
    BY <2>0 DEF UOK, UState
  <2> QED BY <2>0, <2>1, <1>4, CheckAt, EndAt DEF Connected, Follows
<1>5. CASE ServerCloses \/ LinkCloses
  <2>1. UOK([u EXCEPT !.net = {}]) /\ At([u EXCEPT !.net = {}]) = At(u)
    BY <1>0 DEF UOK, UState, At
  <2> QED BY <2>1, <1>5, EndAt DEF ServerCloses, LinkCloses, Follows
<1>6. CASE RetryTimer
  <2>1. UOK([u EXCEPT !.timer = FALSE]) /\ At([u EXCEPT !.timer = FALSE]) = At(u)
    BY <1>0 DEF UOK, UState, At
  <2> QED BY <2>1, <1>6, RetryAt DEF RetryTimer, Follows
<1>7. CASE Select
  <2>1. UOK([u EXCEPT !.asked = FALSE])
    BY <1>0 DEF UOK, UState
  <2>2. At([[u EXCEPT !.asked = FALSE] EXCEPT !.lid = "none"]) = At(u)
    BY <1>0 DEF UOK, UState, At
  <2> QED BY <2>1, <2>2, <1>7, BeginAt DEF Select, Follows
<1>8. CASE RecvCheck
  <2>1. PICK d \in u.net, again \in BOOLEAN :
          \/ u' \in UpBegin(After(d, again))
          \/ u' = [After(d, again) EXCEPT !.asked = TRUE]
          \/ u' = UpEnd(After(d, again), FALSE)
    BY <1>8 DEF RecvCheck
  <2>2. UOK(After(d, again)) /\ At(After(d, again)) = At(u)
    BY <1>1
  <2>3. At([After(d, again) EXCEPT !.asked = TRUE]) = At(After(d, again))
    BY <2>2 DEF UOK, UState, At
  <2>4. UpEnd(After(d, again), FALSE).state = "IDLE"
    BY <2>2, EndAt
  <2>5. CASE u' \in UpBegin(After(d, again))
    BY <2>2, <2>5, BeginAt DEF Follows
  <2> QED BY <2>1, <2>2, <2>3, <2>4, <2>5 DEF Follows
<1>9. CASE RecvOther
  <2>1. PICK d \in u.net, again \in BOOLEAN :
          u' = IF d = Err THEN UpEnd(After(d, again), FALSE)
               ELSE ErrorPack(After(d, again))
    BY <1>9 DEF RecvOther
  <2>2. UOK(After(d, again)) /\ At(After(d, again)) = At(u)
    BY <1>1
  <2>3. At(ErrorPack(After(d, again))) = At(After(d, again))
    BY <2>2 DEF UOK, UState, At, ErrorPack
  <2> QED BY <2>1, <2>2, <2>3, EndAt DEF Follows
<1>10. CASE RecvIdle
  BY <1>1, <1>10, EndAt DEF RecvIdle, Follows
<1> QED BY <1>3, <1>4, <1>5, <1>6, <1>7, <1>8, <1>9, <1>10

PartsInv ==
    /\ TypeInv /\ faults \in Nat /\ bin.parts \in Seq(Nat)
    /\ PartsInOrder

(* A part is appended to those before it, or is missing for a fault. *)
LEMMA PartAt ==
    ASSUME PartsInv, RecvPart
    PROVE  faults' \in Nat /\ bin'.parts \in Seq(Nat) /\ PartsInOrder'
<1>0. UOK(u) /\ TypeOK /\ faults \in Nat /\ bin.parts \in Seq(Nat)
      /\ Len(bin.parts) \in Nat /\ u.packid \in 1..Total /\ u.packid \in Nat \ {0}
  BY TypeParts, LuaBootAssumption DEF PartsInv, TypeInv, UOK, UState
<1>1. PICK d \in u.net, trouble \in {"none", "again", "short"} :
        LET t == [After(d, trouble = "again") EXCEPT !.getretries = 0]
        IN  /\ Receive(d, trouble # "none") /\ IsWanted(u, d)
            /\ bin' = IF trouble = "short" THEN SaveShort(bin, u) ELSE Save(bin, u, d)
            /\ \/ /\ u.packid < Total /\ Stays
                  /\ u' \in ReqGet([t EXCEPT !.packid = @ + 1], u.packid + 1)
               \/ u' = Idle
               \/ u' = UpEnd(t, TRUE)
  BY DEF RecvPart
<1> DEFINE t == [After(d, trouble = "again") EXCEPT !.getretries = 0]
           s == [t EXCEPT !.packid = @ + 1]
<1>2. /\ d = u.packid /\ u.state = "UPDATE" /\ faults' \in Nat /\ faults' >= faults
      /\ trouble = "short" => faults' = faults + 1
  BY <1>0, <1>1 DEF IsWanted, Receive, Fault, RecvPart
<1>3. bin'.pack = u.offer /\ bin'.parts =
         IF u.packid = 1 THEN IF trouble = "short" THEN <<>> ELSE <<u.packid>>
         ELSE IF trouble = "short" THEN bin.parts ELSE Append(bin.parts, u.packid)
  BY <1>1, <1>2 DEF Save, SaveShort
<1>4. u.packid > 1 => /\ \A i \in 1..Len(bin.parts) : bin.parts[i] < u.packid
                      /\ Len(bin.parts) + faults >= u.packid - 1
  BY <1>2 DEF PartsInv, PartsInOrder
<1>5. \A i, j \in 1..Len(bin.parts) : i < j => bin.parts[i] < bin.parts[j]
  BY DEF PartsInv, PartsInOrder
<1>6. /\ bin'.parts \in Seq(Nat)
      /\ \A i \in 1..Len(bin'.parts) : bin'.parts[i] < u.packid + 1
      /\ \A i, j \in 1..Len(bin'.parts) : i < j => bin'.parts[i] < bin'.parts[j]
      /\ Len(bin'.parts) + faults' >= u.packid
  <2>1. CASE u.packid = 1
    <3> PICK q : q = bin'.parts
      OBVIOUS
    <3> PICK z : z = faults'
      OBVIOUS
    <3>1. (trouble = "short" /\ q = <<>>) \/ (trouble # "short" /\ q = <<1>>)
      BY <1>3, <2>1
    <3>2. z \in Nat /\ (trouble = "short" => z >= 1)
      BY <1>0, <1>2
    <3>3. /\ q \in Seq(Nat) /\ \A i \in 1..Len(q) : q[i] < 2
          /\ \A i, j \in 1..Len(q) : i < j => q[i] < q[j]
          /\ Len(q) + z >= 1
      <4>1. CASE trouble = "short" /\ q = <<>>
        BY ONLY <3>2, <4>1
      <4>2. CASE trouble # "short" /\ q = <<1>>
        <5>1. q \in Seq(Nat) /\ Len(q) = 1 /\ q[1] = 1
          BY ONLY <4>2
        <5> QED
          BY ONLY <3>2, <5>1
      <4> QED
        BY <3>1, <4>1, <4>2
    <3> QED
      BY <2>1, <3>3
  <2>2. CASE u.packid > 1 /\ trouble = "short"
    BY <1>0, <1>2, <1>3, <1>4, <1>5, <2>2
  <2>3. CASE u.packid > 1 /\ trouble # "short"
    <3>1. bin'.parts = Append(bin.parts, u.packid)
      BY <1>3, <2>3
    <3>2. /\ Len(bin'.parts) = Len(bin.parts) + 1
          /\ \A i \in 1..Len(bin.parts) : bin'.parts[i] = bin.parts[i]
          /\ bin'.parts[Len(bin.parts) + 1] = u.packid
      BY <3>1, <1>0
    <3>3. \A i \in 1..Len(bin'.parts) : i \in 1..Len(bin.parts) \/ i = Len(bin.parts) + 1
      BY <1>0, <3>2
    <3>4. \A i \in 1..Len(bin.parts) : bin.parts[i] \in Nat /\ bin.parts[i] < u.packid
      BY <1>0, <1>4, <2>3
    <3>5. \A i \in 1..Len(bin'.parts) : bin'.parts[i] < u.packid + 1
      <4> TAKE i \in 1..Len(bin'.parts)
      <4>1. u.packid \in Nat
        BY <1>0
      <4>2. CASE i \in 1..Len(bin.parts)
        <5>1. bin'.parts[i] \in Nat /\ bin'.parts[i] < u.packid
          BY <3>2, <3>4, <4>2
        <5> QED
          BY <4>1, <5>1
      <4>3. CASE i = Len(bin.parts) + 1
        BY <3>2, <4>1, <4>3
      <4> QED
        BY <3>3, <4>2, <4>3
    <3>6. ASSUME NEW i \in 1..Len(bin'.parts), NEW j \in 1..Len(bin'.parts), i < j
          PROVE  bin'.parts[i] < bin'.parts[j]
      <4>1. CASE j \in 1..Len(bin.parts)
        <5>1. i \in 1..Len(bin.parts)
          BY <1>0, <3>2, <3>6, <4>1
        <5>2. bin.parts[i] < bin.parts[j]
          BY <1>5, <3>6, <4>1, <5>1
        <5> QED BY <3>2, <4>1, <5>1, <5>2
      <4>2. CASE j = Len(bin.parts) + 1
        <5>1. i \in 1..Len(bin.parts) /\ bin'.parts[j] = u.packid
          BY <1>0, <3>2, <3>3, <3>6, <4>2
        <5> QED BY <3>2, <3>4, <5>1
      <4> QED BY <3>3, <4>1, <4>2
    <3>7. bin'.parts \in Seq(Nat)
      BY <1>0, <3>1
    <3> QED BY <1>0, <1>2, <1>4, <2>3, <3>2, <3>5, <3>6, <3>7
  <2> QED BY <1>0, <2>1, <2>2, <2>3
<1>7. u'.state = "UPDATE" /\ u'.packid > 1 => u'.packid = u.packid + 1 /\ u'.offer = u.offer
  <2>1. UOK(t) /\ t.packid = u.packid /\ t.offer = u.offer
    <3>1. 0 \in 0..Retries
      BY UpdateAssumption
    <3> QED BY <3>1, <1>0 DEF UOK, UState, After
  <2>2. CASE u.packid < Total /\ u' \in ReqGet(s, u.packid + 1)
    <3>1. UOK(s) /\ s.packid = u.packid + 1 /\ s.offer = u.offer
      <4>1. u.packid + 1 \in 1..Total /\ t.packid = u.packid
        BY <1>0, <2>1, <2>2, LuaBootAssumption
      <4> QED BY <2>1, <4>1 DEF UOK, UState
    <3> HIDE DEF s
    <3> QED BY <3>1, <2>2, RequestAt DEF ReqGet, At
  <2>3. CASE u' = Idle
    BY <2>3 DEF Idle
  <2>4. CASE u' = UpEnd(t, TRUE)
    BY <2>1, <2>4 DEF UpEnd, UOK, UState
  <2> QED BY <1>1, <2>2, <2>3, <2>4
<1>8. PartsInOrder'
  <2>1. Len(bin'.parts) \in Nat /\ bin'.pack = u.offer
    BY <1>3, <1>6
  <2> QED BY <2>1, <1>0, <1>2, <1>3, <1>6, <1>7 DEF PartsInOrder
<1> QED BY <1>2, <1>6, <1>8

LEMMA PartsStep ==
    ASSUME PartsInv, [UpdateNext]_allvars
    PROVE  PartsInv'
<1>0. TypeInv /\ TypeOK /\ faults \in Nat /\ bin.parts \in Seq(Nat) /\ PartsInOrder
  BY TypeParts DEF PartsInv
<1>1. TypeInv'
  BY <1>0, TypeStep
<1>2. CASE BootStep \/ LuaStops \/ WriteFails
  <2>1. u' = Idle
    <3>1. CASE LuaStops
      BY <3>1 DEF LuaStops
    <3>2. CASE BootStep \/ WriteFails
      <4>1. u' = u /\ pc # "run"
        BY <1>0, <3>2 DEF WriteFails, ParseFails, TypeInv, TypesOfBoot, BootStep, Booting,
           PowerOn, FileStep, AddItem, Skip, WriteBegin, WriteEnd, Parsing, UpdateEnd,
           UpdateFails, RomEnd, FlagEnd, RemoveFile, ExitEnd
      <4> QED BY <1>0, <4>1 DEF TypeInv
    <3> QED BY <1>2, <3>1, <3>2
  <2>2. u'.state # "UPDATE"
    BY <2>1 DEF Idle
  <2>3. (bin' = bin \/ bin' = Absent) /\ (faults' = faults \/ faults' = faults + 1)
    BY <1>2 DEF LuaStops, Exit, PowerLoss, Fault, WriteFails, ParseFails, BootStep,
       Booting, PowerOn, FileStep, AddItem, Skip, WriteBegin, WriteEnd, UpdateEnd,
       UpdateFails, RomEnd, FlagEnd, RemoveFile, ExitEnd
  <2>4. Len(Absent.parts) = 0 /\ Absent.parts \in Seq(Nat)
    BY DEF Absent
  <2>5. bin'.parts \in Seq(Nat) /\ faults' \in Nat
    BY <1>0, <2>3, <2>4
  <2>6. \A i, j \in 1..Len(bin'.parts) : i < j => bin'.parts[i] < bin'.parts[j]
    BY <1>0, <2>3, <2>4 DEF PartsInOrder
  <2> QED BY <1>1, <2>2, <2>5, <2>6 DEF PartsInv, PartsInOrder
<1>3. CASE RecvPart
  BY <1>1, <1>3, PartAt DEF PartsInv
<1>4. CASE \/ Connect \/ Connected \/ ServerCloses \/ LinkCloses \/ RetryTimer
           \/ Select \/ RecvCheck \/ RecvOther \/ RecvIdle
  <2>1. Follows(u', u) /\ faults' \in Nat /\ faults' >= faults /\ bin' = bin
    BY <1>0, <1>4, DownloadAt, DownloadU
  <2>2. u'.state = "UPDATE" /\ u'.packid > 1 =>
           u.state = "UPDATE" /\ u.packid = u'.packid /\ u.offer = u'.offer
    BY <2>1 DEF Follows, At
  <2>3. Len(bin.parts) \in Nat /\ u.packid \in Nat
    BY <1>0 DEF TypeInv, UOK, UState
  <2> QED BY <1>0, <1>1, <2>1, <2>2, <2>3 DEF PartsInv, PartsInOrder
<1>5. CASE UNCHANGED allvars
  BY <1>0, <1>1, <1>5 DEF allvars, vars, PartsInv, PartsInOrder
<1> QED BY <1>2, <1>3, <1>4, <1>5 DEF UpdateNext, Downloading

(* update.bin has the parts of one package in order (update.lua 82-95 and  *)
(* 158-192), whatever the network loses, delays and repeats; one is        *)
(* missing only if it could not be written.                                *)
THEOREM PartsAreInOrder == UpdateSpec => []PartsInOrder
<1>1. UpdateInit => PartsInv
  <2>1. Len(Absent.parts) = 0 /\ Absent.parts \in Seq(Nat)
    BY DEF Absent
  <2>2. Idle.state = "IDLE"
    BY DEF Idle
  <2> QED BY <2>1, <2>2, TypeInit DEF UpdateInit, Init, PartsInv, PartsInOrder
<1>2. PartsInv /\ [UpdateNext]_allvars => PartsInv'
  BY PartsStep
<1>3. PartsInv => PartsInOrder
  BY DEF PartsInv
<1> QED BY <1>1, <1>2, <1>3, PTL DEF UpdateSpec

(* The download and the package on the file system agree (update.lua       *)
(* 158-192 and 229-250).                                                   *)
THEOREM DownloadIsSound == UpdateSpec => []Inv
<1>1. TypeOK /\ PartsInOrder => Inv
  BY DEF Inv
<1> QED BY <1>1, UpdateTypes, PartsAreInOrder, PTL

----------------------------------------------------------------------------
(* The parameters *)

(* While a file is written again, what is not on the list is in it. *)
Saving ==
    /\ phase \in {"header", "lines"} => DOMAIN para = Keys
    /\ phase = "header" => unwritten = Keys
    /\ phase = "lines" =>
          /\ file.kind = "text"
          /\ \A k \in Keys \ unwritten :
                k \in DOMAIN file.lines /\ file.lines[k] = para[k]

NvmIInv == NvmInv /\ Saving /\ DOMAIN dft = Keys

LEMMA FactoryType == Typed(Factory) /\ DOMAIN Factory = Keys
<1>1. \A k \in Numbers : Factory[k] \in Nat
  BY NvmAssumption DEF Factory, Keys
<1>2. [f \in Fields |-> Default] \in TableValues
  <2>1. [f \in Fields |-> Default] \in [Fields -> Values]
    BY NvmAssumption
  <2>2. Fields \in (SUBSET Fields) \ {{}}
    BY NvmAssumption
  <2> QED
    BY <2>1, <2>2 DEF TableValues
<1>3. \A k \in Tables : Factory[k] \in TableValues
  BY <1>2, NvmAssumption DEF Factory, Keys
<1> QED
  BY <1>1, <1>3 DEF Factory, Typed, Keys

(* A number or a table as the parameter k may be *)
ValueOf(k) == IF k \in Numbers THEN Nat ELSE TableValues

LEMMA WithType ==
    ASSUME NEW f, Typed(f), NEW k \in Keys, NEW v \in ValueOf(k)
    PROVE  /\ Typed(With(f, k, v)) /\ DOMAIN With(f, k, v) = DOMAIN f \cup {k}
           /\ With(f, k, v)[k] = v
           /\ \A j \in DOMAIN f \ {k} : With(f, k, v)[j] = f[j]
BY DEF Typed, With, ValueOf

LEMMA WithContents ==
    ASSUME NEW t \in TableValues, NEW f \in Fields, NEW v \in Values
    PROVE  With(t, f, v) \in TableValues
<1>1. PICK F \in (SUBSET Fields) \ {{}} : t \in [F -> Values]
  BY DEF TableValues
<1>2. With(t, f, v) \in [F \cup {f} -> Values]
  BY <1>1 DEF With
<1>3. F \cup {f} \in (SUBSET Fields) \ {{}}
  OBVIOUS
<1> QED
  BY <1>2, <1>3 DEF TableValues

LEMMA NoLinesType == Typed(NoLines)
BY DEF Typed, NoLines

LEMMA Fields3 ==
    /\ Empty.kind = "empty" /\ Empty.lines = NoLines
    /\ TornFile.kind = "torn" /\ TornFile.lines = NoLines
    /\ \A l : Text(l).kind = "text" /\ Text(l).lines = l
BY DEF Empty, TornFile, Text

LEMMA InitInv == NvmInit => NvmIInv
<1> SUFFICES ASSUME NvmInit PROVE NvmIInv
  OBVIOUS
<1>1. NvmTypeOK
  <2>1. crashes \in 0..MaxCrashes
    BY NvmAssumption DEF NvmInit
  <2>2. file.kind = "empty" /\ Typed(file.lines)
    BY Fields3, NoLinesType DEF NvmInit
  <2> QED
    BY <2>1, <2>2, FactoryType, NoLinesType DEF NvmInit, NvmTypeOK
<1> QED
  BY <1>1, FactoryType
     DEF NvmInit, NvmIInv, NvmInv, EveryParameterHasAValue, FileIsMemory, Saving

LEMMA LoadInv == NvmIInv /\ Load => NvmIInv'
<1> SUFFICES ASSUME NvmIInv, Load PROVE NvmIInv'
  OBVIOUS
<1> USE DEF Load
<1>1. DOMAIN para' = Keys
  OBVIOUS
<1>2. Typed(para)'
  BY FactoryType DEF NvmIInv, NvmInv, NvmTypeOK, Typed
<1>3. \A k \in Keys \ unsaved' : k \in DOMAIN file'.lines /\ file'.lines[k] = para'[k]
  OBVIOUS
<1>4. NvmTypeOK'
  BY <1>2, FactoryType DEF NvmIInv, NvmInv, NvmTypeOK
<1> QED
  BY <1>1, <1>3, <1>4, FactoryType
     DEF NvmIInv, NvmInv, EveryParameterHasAValue, FileIsMemory, Saving

LEMMA LoadFailsInv == NvmIInv /\ LoadFails => NvmIInv'
BY FactoryType, NoLinesType
   DEF LoadFails, NvmIInv, NvmInv, NvmTypeOK, EveryParameterHasAValue, FileIsMemory, Saving

LEMMA RestoreInv == NvmIInv /\ (Restore \/ RestoreOpen) => NvmIInv'
BY NoLinesType, Fields3
   DEF Restore, RestoreOpen, memory, NvmIInv, NvmInv, NvmTypeOK, EveryParameterHasAValue,
       FileIsMemory, Saving

LEMMA RestoreCopyInv == NvmIInv /\ RestoreCopy => NvmIInv'
<1> SUFFICES ASSUME NvmIInv, RestoreCopy PROVE NvmIInv'
  OBVIOUS
<1>1. file'.kind = "text" /\ file'.lines = Factory /\ Typed(Factory)
  BY Fields3, FactoryType DEF RestoreCopy
<1>2. NvmTypeOK'
  BY <1>1 DEF RestoreCopy, NvmIInv, NvmInv, NvmTypeOK, memory
<1>3. EveryParameterHasAValue' /\ Saving' /\ (DOMAIN dft = Keys)'
  BY DEF RestoreCopy, NvmIInv, memory, EveryParameterHasAValue, Saving
<1>4. FileIsMemory'
  BY <1>1, FactoryType DEF RestoreCopy, FileIsMemory, Altered
<1> QED
  BY <1>2, <1>3, <1>4 DEF NvmIInv, NvmInv

(* What follows a change of the parameter k *)
LEMMA SaveInv ==
    ASSUME NvmIInv, phase = "run", NEW k \in Keys, NEW s \in BOOLEAN, SaveIf(k, s),
           NEW v, para' = [para EXCEPT ![k] = v], v \in ValueOf(k),
           shared' \subseteq Tables, UNCHANGED <<broken, crashes>>,
           Typed(dft)', DOMAIN dft' = Keys,
           \A j \in Keys \ {k} : dft'[j] = dft[j]
    PROVE  NvmIInv'
<1>1. DOMAIN para = Keys /\ DOMAIN para' = Keys
  BY DEF NvmIInv, NvmInv, EveryParameterHasAValue
<1>2. Typed(para)'
  BY <1>1 DEF NvmIInv, NvmInv, NvmTypeOK, Typed, ValueOf
<1>3. CASE s
  <2>1. phase' = "header" /\ file' = Empty /\ unwritten' = Keys /\ unsaved' = unsaved
    BY <1>1, <1>3 DEF SaveIf
  <2> QED
    BY <2>1, <1>1, <1>2, NoLinesType, Fields3
       DEF NvmIInv, NvmInv, NvmTypeOK, EveryParameterHasAValue, FileIsMemory, Saving
<1>4. CASE ~s
  <2>1. unsaved' = unsaved \cup {k} /\ UNCHANGED <<phase, file, unwritten>>
    BY <1>4 DEF SaveIf
  <2>2. FileIsMemory'
    <3> SUFFICES ASSUME NEW j \in Keys \ unsaved', ~Altered(j)'
                 PROVE  file'.kind = "text" /\ j \in DOMAIN file'.lines
                        /\ file'.lines[j] = para'[j]
      BY DEF FileIsMemory
    <3>1. j \in Keys \ unsaved /\ j # k /\ para'[j] = para[j]
      BY <2>1, <1>1
    <3>2. ~Altered(j)
      BY <3>1 DEF Altered
    <3> QED
      BY <2>1, <3>1, <3>2 DEF NvmIInv, NvmInv, FileIsMemory
  <2> QED
    BY <2>1, <2>2, <1>1, <1>2
       DEF NvmIInv, NvmInv, NvmTypeOK, EveryParameterHasAValue, Saving
<1> QED
  BY <1>3, <1>4

LEMMA SetInv ==
    ASSUME NvmIInv, NEW k \in Keys, NEW v \in ValueOf(k), NEW s \in BOOLEAN,
           Set(k, v, s)
    PROVE  NvmIInv'
<1>1. /\ phase = "run" /\ para' = [para EXCEPT ![k] = v]
      /\ shared' = shared \ {k} /\ SaveIf(k, s) /\ UNCHANGED <<dft, broken, crashes>>
  BY DEF Set
<1>2. shared' \subseteq Tables /\ Typed(dft)' /\ DOMAIN dft' = Keys
  BY <1>1 DEF NvmIInv, NvmInv, NvmTypeOK
<1> QED
  BY <1>1, <1>2, SaveInv

LEMMA SettInv ==
    ASSUME NvmIInv, NEW k \in Tables, NEW f \in Fields, NEW v \in Values,
           NEW s \in BOOLEAN, Sett(k, f, v, s)
    PROVE  NvmIInv'
<1> DEFINE t == With(para[k], f, v)
<1>1. /\ phase = "run" /\ para' = [para EXCEPT ![k] = t]
      /\ dft' = IF k \in shared THEN [dft EXCEPT ![k] = t] ELSE dft
      /\ shared' = shared /\ SaveIf(k, s) /\ UNCHANGED <<broken, crashes>>
  BY DEF Sett
<1>2. k \in Keys /\ k \notin Numbers
  BY NvmAssumption DEF Keys
<1>3. para[k] \in TableValues
  BY <1>1, <1>2 DEF NvmIInv, NvmInv, NvmTypeOK, Typed, EveryParameterHasAValue
<1>4. t \in TableValues
  BY <1>3, WithContents
<1> HIDE DEF t
<1>5. t \in ValueOf(k)
  BY <1>2, <1>4 DEF ValueOf
<1>6. Typed(dft)' /\ DOMAIN dft' = Keys /\ \A j \in Keys \ {k} : dft'[j] = dft[j]
  BY <1>1, <1>2, <1>4 DEF NvmIInv, NvmInv, NvmTypeOK, Typed
<1>7. shared' \subseteq Tables
  BY <1>1 DEF NvmIInv, NvmInv, NvmTypeOK
<1> QED
  BY <1>1, <1>2, <1>5, <1>6, <1>7, SaveInv

LEMMA FlushInv == NvmIInv /\ Flush => NvmIInv'
BY NoLinesType, Fields3
   DEF Flush, memory, NvmIInv, NvmInv, NvmTypeOK, Typed, EveryParameterHasAValue,
       FileIsMemory, Saving

LEMMA WriteHeaderInv == NvmIInv /\ WriteHeader => NvmIInv'
BY NoLinesType, Fields3
   DEF WriteHeader, memory, NvmIInv, NvmInv, NvmTypeOK, EveryParameterHasAValue,
       FileIsMemory, Saving

LEMMA WriteLineInv == ASSUME NvmIInv, NEW k \in Keys, WriteLine(k) PROVE NvmIInv'
<1>1. DOMAIN para = Keys /\ Typed(para) /\ Typed(file.lines)
  BY DEF WriteLine, NvmIInv, NvmInv, NvmTypeOK, Saving
<1>2. para[k] \in ValueOf(k)
  BY <1>1 DEF Typed, ValueOf
<1> DEFINE l == With(file.lines, k, para[k])
<1> HIDE DEF l
<1>3. /\ Typed(l) /\ DOMAIN l = DOMAIN file.lines \cup {k} /\ l[k] = para[k]
      /\ \A j \in DOMAIN file.lines \ {k} : l[j] = file.lines[j]
  <2>1. ASSUME NEW f, NEW v, f = file.lines, v = para[k]
        PROVE  /\ Typed(With(f, k, v)) /\ DOMAIN With(f, k, v) = DOMAIN f \cup {k}
               /\ With(f, k, v)[k] = v
               /\ \A j \in DOMAIN f \ {k} : With(f, k, v)[j] = f[j]
    <3>1. Typed(f)
      BY <1>1, <2>1
    <3>2. v \in ValueOf(k)
      BY <1>2, <2>1
    <3> QED
      BY <3>1, <3>2, WithType
  <2> QED
    BY <2>1 DEF l
<1>4. file'.kind = "text" /\ file'.lines = l /\ unwritten' = unwritten \ {k}
  BY Fields3 DEF WriteLine, l
<1>5. UNCHANGED <<phase, memory, broken, unsaved, crashes>> /\ phase = "lines"
  BY DEF WriteLine
<1>6. NvmTypeOK'
  BY <1>3, <1>4, <1>5 DEF memory, NvmIInv, NvmInv, NvmTypeOK
<1>7. \A j \in Keys \ unwritten' : j \in DOMAIN l /\ l[j] = para[j]
  BY <1>3, <1>4, <1>5 DEF NvmIInv, Saving
<1> QED
  BY <1>4, <1>5, <1>6, <1>7
     DEF memory, NvmIInv, NvmInv, EveryParameterHasAValue, FileIsMemory, Saving

LEMMA CloseInv == NvmIInv /\ Close => NvmIInv'
BY DEF Close, memory, NvmIInv, NvmInv, NvmTypeOK, EveryParameterHasAValue, FileIsMemory,
       Saving

(* Whatever a restart leaves of the file, its lines have their types. *)
LEMMA PrefixType ==
    ASSUME NvmIInv, NEW p \in Prefixes
    PROVE  p.kind \in {"empty", "torn", "text"} /\ Typed(p.lines)
<1> DEFINE Good(q) == q.kind \in {"empty", "torn", "text"} /\ Typed(q.lines)
<1>1. Good(file)
  BY DEF NvmIInv, NvmInv, NvmTypeOK
<1>2. Good(TornFile)
  BY Fields3, NoLinesType
<1>3. ASSUME phase = "lines", NEW k \in unwritten \cap Numbers
      PROVE  Good(Text(With(file.lines, k, para[k] \div 10)))
  <2>1. k \in Keys /\ para[k] \in Nat
    BY <1>3 DEF NvmIInv, NvmInv, NvmTypeOK, Saving, Typed
  <2>2. para[k] \div 10 \in Nat
    BY <2>1
  <2>3. para[k] \div 10 \in ValueOf(k)
    BY <2>2 DEF ValueOf
  <2>4. Typed(With(file.lines, k, para[k] \div 10))
    BY <2>1, <2>3, <1>1, WithType
  <2> QED
    BY <2>4, Fields3
<1>4. ASSUME NEW K \in SUBSET Keys
      PROVE  Good(Text([k \in K |-> Factory[k]]))
  <2>1. Typed([k \in K |-> Factory[k]])
    BY FactoryType DEF Typed
  <2> QED
    BY <2>1, Fields3
<1>5. CASE phase = "lines"
  <2>1. p \in {file, TornFile} \cup CutNumbers
    BY <1>5 DEF Prefixes
  <2> QED
    BY <2>1, <1>1, <1>2, <1>3, <1>5 DEF CutNumbers
<1>6. CASE phase = "copy"
  <2>1. \/ p \in {file, TornFile}
        \/ \E K \in SUBSET Keys : p = Text([k \in K |-> Factory[k]])
    BY <1>6 DEF Prefixes
  <2> QED
    BY <2>1, <1>1, <1>2, <1>4
<1>7. CASE phase \notin {"lines", "copy"}
  <2>1. p \in {file, TornFile}
    BY <1>7 DEF Prefixes
  <2> QED
    BY <2>1, <1>1, <1>2
<1> QED
  BY <1>5, <1>6, <1>7

LEMMA CrashInv == NvmIInv /\ Crash => NvmIInv'
<1> SUFFICES ASSUME NvmIInv, Crash PROVE NvmIInv'
  OBVIOUS
<1>1. /\ phase' = "off" /\ para' = NoLines /\ shared' = {} /\ broken' = FALSE
      /\ unwritten' = {} /\ unsaved' = {} /\ dft' = Factory
      /\ crashes < MaxCrashes /\ crashes' = crashes + 1
  BY DEF Crash
<1>2. file'.kind \in {"empty", "torn", "text"} /\ Typed(file'.lines)
  BY PrefixType DEF Crash
<1>3. crashes' \in 0..MaxCrashes
  BY <1>1, NvmAssumption DEF NvmIInv, NvmInv, NvmTypeOK
<1>4. NvmTypeOK'
  BY <1>1, <1>2, <1>3, FactoryType, NoLinesType DEF NvmTypeOK
<1> QED
  BY <1>1, <1>4, FactoryType
     DEF NvmIInv, NvmInv, EveryParameterHasAValue, FileIsMemory, Saving

LEMMA StutterInv == NvmIInv /\ UNCHANGED nvmvars => NvmIInv'
BY DEF nvmvars, memory, NvmIInv, NvmInv, NvmTypeOK, Typed, EveryParameterHasAValue,
       FileIsMemory, Altered, Saving

(* Whenever programs run, every parameter of the configuration has a value *)
(* in memory, and the file says the same of it unless its last change was  *)
(* not to be saved or its default was altered: nvm.lua, for any parameters *)
(* and any restarts, also in the middle of a save.                         *)
THEOREM StoreIsSound == NvmSpec => []NvmInv
<1>1. NvmIInv /\ [NvmNext]_nvmvars => NvmIInv'
  <2> SUFFICES ASSUME NvmIInv, [NvmNext]_nvmvars PROVE NvmIInv'
    OBVIOUS
  <2>1. CASE Operation
    BY <2>1, LoadInv, LoadFailsInv, RestoreInv, RestoreCopyInv, WriteHeaderInv,
       CloseInv, WriteLineInv DEF Operation
  <2>2. CASE Restore \/ Flush \/ Crash
    BY <2>2, RestoreInv, FlushInv, CrashInv
  <2>3. ASSUME NEW s \in BOOLEAN, NEW k \in Numbers, NEW v \in Values, Set(k, v, s)
        PROVE  NvmIInv'
    <3>1. k \in Keys /\ v \in ValueOf(k)
      BY NvmAssumption DEF Keys, ValueOf
    <3> QED
      BY <2>3, <3>1, SetInv
  <2>4. ASSUME NEW s \in BOOLEAN, NEW k \in Tables, NEW v \in TableValues, Set(k, v, s)
        PROVE  NvmIInv'
    <3>1. k \in Keys /\ v \in ValueOf(k)
      BY NvmAssumption DEF Keys, ValueOf
    <3> QED
      BY <2>4, <3>1, SetInv
  <2>5. ASSUME NEW s \in BOOLEAN, NEW k \in Tables, NEW f \in Fields,
               NEW v \in Values, Sett(k, f, v, s)
        PROVE  NvmIInv'
    BY <2>5, SettInv
  <2> QED
    BY <2>1, <2>2, <2>3, <2>4, <2>5, StutterInv DEF NvmNext
<1>2. NvmIInv => NvmInv
  BY DEF NvmIInv
<1> QED
  BY <1>1, <1>2, InitInv, PTL DEF NvmSpec
=============================================================================
