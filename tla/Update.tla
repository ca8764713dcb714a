-------------------------------- MODULE Update -------------------------------
(***************************************************************************)
(* The download of an update (update.lua) by the program that LuaBoot      *)
(* starts, over a network that loses, delays and repeats datagrams.        *)
(*                                                                         *)
(* The functions of update.lua are operators from the state u of the       *)
(* module to the next; u is lost with the rest of the memory.  The link is *)
(* a handle that is open or not: see Link.                                 *)
(***************************************************************************)
EXTENDS LuaBoot

CONSTANTS
    Retries,  \* CMD_GET_RETRY_TIMES
    Modes     \* the values of UPDMODE: 0 installs at once, 1 asks the program

ASSUME UpdateAssumption == Retries \in Nat \ {0} /\ Modes \subseteq {0, 1}

VARIABLES u, mode

allvars == <<vars, u, mode>>

NoOffer == Absent.pack

(* Datagrams of the server: the parts 1..Total, and *)
Err == 0
NewVersion == Total + 1
NoVersion == Total + 2

Idle == [
    lid     |-> "none",  \* "none", "connecting" or "open"
    state   |-> "IDLE",
    updsuc  |-> FALSE,
    packid  |-> 1,
    getretries |-> 1,
    timer   |-> FALSE,   \* the timer of retry runs
    asked   |-> FALSE,   \* the program holds an upselcb
    offer   |-> NoOffer, \* the package that the server has for this link
    net     |-> {} ]     \* datagrams on the way to the module

UpdateInit == Init /\ u = Idle /\ mode \in Modes

(* A request, and what the server answers unless either is lost *)
Request(t, answers) ==
    {[t EXCEPT !.timer = TRUE, !.net = @ \union a] :
        a \in IF t.lid = "open" THEN answers ELSE {{}}}

ReqCheck(t) ==
    Request([t EXCEPT !.state = "CHECK"], {{}, {NewVersion}, {NoVersion}})

ReqGet(t, i) == Request(t, {{}, {i}, {Err}})

(* upend: link.close, until whose end datagrams go on to come to recv;     *)
(* whether to restart is decided where it is used                          *)
UpEnd(t, succ) ==
    [t EXCEPT !.updsuc = succ, !.state = "IDLE", !.timer = FALSE,
              !.lid = "none"]

UpBegin(t) ==
    ReqGet([t EXCEPT !.getretries = 0, !.state = "UPDATE", !.packid = 1], 1)

(* slip: the retries go on for ever *)
RetryAlways(t) ==
    CASE t.state = "UPDATE" -> ReqGet(t, t.packid)
      [] t.state = "CHECK" -> ReqCheck(t)
      [] OTHER -> {t}

(* retry, when its timer has elapsed.  The count is not begun again by a   *)
(* new check.                                                              *)
Retry(t) ==
    LET n == IF t.getretries < Retries THEN t.getretries + 1 ELSE Retries
        v == [t EXCEPT !.getretries = n]
    IN  CASE t.state = "IDLE" -> {t}
          [] t.state = "UPDATE" /\ n < Retries -> ReqGet(v, t.packid)
          [] t.state = "CHECK" /\ n < Retries -> ReqCheck(v)
          [] OTHER -> {UpEnd(v, FALSE)}

ErrorPack(t) == [t EXCEPT !.timer = TRUE]

(* slip: every part is saved *)
IsWantedAnyway(t, d) == d \in 1..Total

(* The length and the index of the part are those expected.                *)
IsWanted(t, d) == d = t.packid

(* save: the first part begins the file *)
Save(b, t, i) ==
    [pack |-> t.offer,
     parts |-> IF t.packid = 1 THEN <<i>> ELSE Append(b.parts, i)]

(* A part that does not fit is left out, and nothing is said. *)
SaveShort(b, t) ==
    [pack |-> t.offer, parts |-> IF t.packid = 1 THEN <<>> ELSE b.parts]

----------------------------------------------------------------------------

Running == pc = "run"

(* Nothing of the boot loader changes but what the action says. *)
Stays == UNCHANGED <<pc, fs, flag, boot, base, mode>>

(* connect: at start-up, periodically or when the program asks *)
Connect ==
    /\ Running /\ u.lid = "none" /\ ~u.updsuc
    /\ u' = [u EXCEPT !.lid = "connecting"]
    /\ Stays /\ UNCHANGED <<bin, faults>>

(* nofity: CONNECT.  The link before has been closed by then.              *)
Connected ==
    /\ Running /\ u.lid = "connecting"
    /\ LET t == [u EXCEPT !.net = {}]
       IN  \/ \E o \in Packages : u' \in ReqCheck([t EXCEPT !.lid = "open", !.offer = o])
           \/ u' = UpEnd(t, FALSE)
    /\ Stays /\ UNCHANGED <<bin, faults>>

(* nofity: STATE, CLOSED *)
ServerCloses ==
    /\ Running /\ u.lid = "open" /\ u' = UpEnd([u EXCEPT !.net = {}], FALSE)
    /\ Stays /\ UNCHANGED <<bin, faults>>

(* The link that was closed is gone. *)
LinkCloses ==
    /\ Running /\ u.lid # "open" /\ u.net # {} /\ u' = [u EXCEPT !.net = {}]
    /\ Stays /\ UNCHANGED <<bin, faults>>

RetryTimer ==
    /\ Running /\ u.timer
    /\ u' \in Retry([u EXCEPT !.timer = FALSE])
    /\ Stays /\ UNCHANGED <<bin, faults>>

(* recv gets datagram d, which may come again.  It stops the timer first,  *)
(* and does not ask whether the link is the one in use.                    *)
Receive(d, trouble) ==
    /\ Running /\ d \in u.net
    /\ IF trouble THEN Fault ELSE UNCHANGED faults

After(d, again) ==
    [u EXCEPT !.net = IF again THEN @ ELSE @ \ {d}, !.timer = FALSE]

RecvCheck ==
    /\ u.state = "CHECK"
    /\ \E d \in u.net, again \in BOOLEAN :
         LET t == After(d, again)
         IN  /\ Receive(d, again)
             /\ \/ d = NewVersion /\ mode = 0 /\ u' \in UpBegin(t)
                \/ d = NewVersion /\ mode = 1 /\ u' = [t EXCEPT !.asked = TRUE]
                \/ d # NewVersion /\ u' = UpEnd(t, FALSE)
    /\ Stays /\ UNCHANGED bin

(* Not the part that was asked for *)
RecvOther ==
    /\ u.state = "UPDATE"
    /\ \E d \in u.net, again \in BOOLEAN :
         LET t == After(d, again)
         IN  /\ Receive(d, again) /\ ~IsWanted(u, d)
             /\ u' = IF d = Err THEN UpEnd(t, FALSE) ELSE ErrorPack(t)
    /\ Stays /\ UNCHANGED bin

RecvIdle ==
    /\ u.state = "IDLE"
    /\ \E d \in u.net : Receive(d, FALSE) /\ u' = UpEnd(After(d, FALSE), FALSE)
    /\ Stays /\ UNCHANGED bin

(* getpack.  After the last part the module restarts, or leaves that to    *)
(* the program.                                                            *)
RecvPart ==
    /\ u.state = "UPDATE"
    /\ \E d \in u.net, trouble \in {"none", "again", "short"} :
         LET t == [After(d, trouble = "again") EXCEPT !.getretries = 0]
         IN  /\ Receive(d, trouble # "none") /\ IsWanted(u, d)
             /\ bin' = IF trouble = "short" THEN SaveShort(bin, u) ELSE Save(bin, u, d)
             /\ \/ /\ u.packid < Total /\ Stays
                   /\ u' \in ReqGet([t EXCEPT !.packid = @ + 1], u.packid + 1)
                \/ /\ u.packid >= Total /\ mode = 0 /\ u' = Idle
                   /\ Off /\ UNCHANGED <<fs, flag, base, mode>>
                \/ u.packid >= Total /\ mode = 1 /\ u' = UpEnd(t, TRUE) /\ Stays

(* upselcb, which the program calls when it likes *)
Select ==
    /\ Running /\ u.asked
    /\ LET t == [u EXCEPT !.asked = FALSE]
       IN  \/ u' \in UpBegin(t)
           \/ u' = [t EXCEPT !.lid = "none"]
    /\ Stays /\ UNCHANGED <<bin, faults>>

Downloading ==
    \/ Connected \/ RetryTimer \/ LinkCloses
    \/ RecvCheck \/ RecvOther \/ RecvIdle \/ RecvPart

(* The boot loader, and the ends of a program *)
BootStep == Booting /\ UNCHANGED <<u, mode>>

LuaStops == (Exit \/ PowerLoss) /\ u' = Idle /\ UNCHANGED mode

WriteFails == (\E f \in Files : ParseFails(f)) /\ UNCHANGED <<u, mode>>

UpdateNext ==
    \/ Connect \/ Downloading \/ ServerCloses \/ Select
    \/ BootStep \/ LuaStops \/ WriteFails

UpdateSpec == UpdateInit /\ [][UpdateNext]_allvars

(* The boot loader does not wait for anything; the sockets end an attempt  *)
(* to connect, and the timer of retry elapses.                             *)
UpdateFairSpec ==
    /\ UpdateSpec /\ WF_allvars(BootStep)
    /\ WF_allvars(Connected) /\ WF_allvars(RetryTimer)

----------------------------------------------------------------------------
(* Properties *)

Contents == 0..MaxVersion \union {Missing, Torn}

Datagrams == {Err, NewVersion, NoVersion} \union 1..Total

UState ==
    [lid : {"none", "connecting", "open"}, state : {"IDLE", "CHECK", "UPDATE"},
     updsuc : BOOLEAN, packid : 1..Total, getretries : 0..Retries,
     timer : BOOLEAN, asked : BOOLEAN, offer : Packages \union {NoOffer},
     net : SUBSET Datagrams]

(* update.lua is at rest unless a program runs, and what comes over a link *)
(* is of a package; a file is written only while an image is parsed.       *)
TypeOK ==
    /\ pc \in {"off", "update", "rom", "failed", "flag", "run", "exit"}
    /\ fs \in [Files -> Contents] /\ base \in [Files -> 0..MaxVersion]
    /\ flag \in {"none", "torn", "good"}
    /\ flashTable \subseteq Plain /\ writing \subseteq todo /\ todo \subseteq Files
    /\ bin = Absent \/ bin.pack \in Packages
    /\ u \in UState /\ mode \in Modes
    /\ u.lid = "open" \/ u.net # {} => u.offer \in Packages
    /\ pc # "run" => u = Idle

(* update.bin is the package whose files the program reads in place.       *)
Undisturbed ==
    \A f \in DOMAIN updTable : Whole(bin) /\ bin.pack.version = updTable[f]

(* A program never runs on torn, missing or mixed files: each file has the *)
(* version of the last package installed with it or, after a package that  *)
(* could not be installed and after an error of a program, the version of  *)
(* the flash image, whenever power was lost on the way.                    *)
Consistent ==
    pc = "run" /\ Undisturbed => \A f \in Files : View(f) = base[f]

(* update.bin has the parts of one package in order and each once,         *)
(* whatever the network repeats, and while a package is loaded its first   *)
(* parts; parts are missing only if they could not be written.             *)
PartsInOrder ==
    /\ \A i, j \in 1..Len(bin.parts) : i < j => bin.parts[i] < bin.parts[j]
    /\ u.state = "UPDATE" /\ u.packid > 1 =>
          /\ bin.pack = u.offer
          /\ \A i \in 1..Len(bin.parts) : bin.parts[i] < u.packid
          /\ Len(bin.parts) + faults >= u.packid - 1

(* The download and the package on the file system agree.                  *)
Inv == TypeOK /\ PartsInOrder

(* A package is removed from update.bin only when the files of it are all  *)
(* unpacked, or when the program is to be that of the flash image again.   *)
RemovedWhenDone ==
    [][Whole(bin) /\ bin' = Absent =>
         \/ \A f \in DOMAIN bin.pack.kind : fs'[f] = bin.pack.version
         \/ \A f \in Files : base'[f] = 0]_allvars

(* The system never restarts for ever: a program runs again and again.     *)
Runs == []<>(pc = "run")

(* A whole package that a restart finds is installed, if nothing more goes *)
(* wrong.                                                                  *)
Installs ==
    \A v \in 1..MaxVersion :
        (pc = "off" /\ Whole(bin) /\ bin.pack.version = v /\ faults = MaxFaults) ~>
            (pc = "run" /\ \E f \in Files : View(f) = v)

(* A download ends, by itself or by a restart, unless the program is asked *)
(* and does not answer.                                                    *)
DownloadEnds == (u.lid = "open") ~> (u.lid = "none" \/ u.asked)
=============================================================================
