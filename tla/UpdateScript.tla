---------------------------- MODULE UpdateScript ---------------------------
(***************************************************************************)
(* scripts/update_ccat.sh on the device of FlashDevice.                    *)
(*                                                                         *)
(* The script is a series of cat commands between a file and the device:   *)
(*   backup -> write -> verify [-> restore -> check]                       *)
(* Any of them may fail half-way, and a cat that was writing still closes  *)
(* the device, which then programs what it has got.  The flash may be worn *)
(* out, the script may be killed, power may fail, and after all that the   *)
(* user may run the script again.                                          *)
(***************************************************************************)
EXTENDS Integers, Sequences

CONSTANTS
  FLASH_SIZE,  \* CCAT_FLASH_SIZE, in blocks of cat
  Values,      \* contents of a block
  Erased,      \* a block of 0xff
  Unknown,     \* see FlashDevice
  Rbfs,        \* names of *.rbf files
  Image,       \* their contents
  Absent       \* no such file

ASSUME UpdateScriptAssumption ==
  /\ FLASH_SIZE \in Nat \ {0}
  /\ Erased \in Values
  /\ Unknown \notin Values
  /\ Unknown \notin [0 .. FLASH_SIZE - 1 -> Values]
  /\ Image \in [Rbfs -> Seq(Values)]
  /\ Absent \notin Seq(Values)

VARIABLES
  state, image, out, contents,  \* the device, see FlashDevice
  pc,      \* the command the script is at, or "idle"
  cat,     \* that command: "start", "run", then its exit status "ok" or "fail"
  rbf,     \* $rbf
  backup,  \* $backup for each $rbf
  tmp,     \* $tmp
  says,    \* what the script said last
  before,  \* history: contents of the flash when the backup was made
  good,    \* history: the contents before an update was tried
  overwritten  \* history: was the script started on a damaged flash for the
               \* *.rbf whose backup is the last copy of the good contents?

device  == <<state, image, out, contents>>
files   == <<backup, tmp>>
history == <<before, good, overwritten>>
vars    == <<state, image, out, contents, pc, cat, rbf, backup, tmp, says,
             before, good, overwritten>>

Dev == INSTANCE FlashDevice

Firmware == [Dev!Cells -> Values]

\* all that can be read from the device
Dump(c) == [i \in 1 .. FLASH_SIZE |-> c[i - 1]]

(***************************************************************************)
(* cat                                                                     *)
(***************************************************************************)

Reads  == pc \in {"backup", "verify", "check"}
Writes == pc \in {"write", "restore"}

\* the file that is copied to the device
Input == IF pc = "write" THEN Image[rbf] ELSE backup[rbf]

\* the file a dump goes to
Output == IF pc = "backup" THEN backup[rbf] ELSE tmp

Store(f) ==
  IF pc = "backup" THEN backup' = [backup EXCEPT ![rbf] = f] /\ UNCHANGED tmp
                   ELSE tmp' = f /\ UNCHANGED backup

\* The redirection truncates the file, whether or not the device can be opened.
CatOpen ==
  /\ pc # "idle" /\ cat = "start"
  /\ \/ Dev!Open         /\ cat' = "run"
     \/ UNCHANGED device /\ cat' = "fail"
  /\ IF Reads THEN Store(<<>>) ELSE UNCHANGED files
  /\ before' = IF pc = "backup" /\ cat' = "run" THEN contents ELSE before
  /\ UNCHANGED <<pc, rbf, says, good, overwritten>>

CatRead ==
  /\ cat = "run" /\ Reads
  /\ Dev!Read(Len(Output), 1)
  /\ Store(Output \o out')
  /\ UNCHANGED <<pc, cat, rbf, says, history>>

CatWrite ==
  /\ cat = "run" /\ Writes
  /\ Len(image) < Len(Input)
  /\ Dev!Write(Len(image), 1, Input[Len(image) + 1])
  /\ UNCHANGED <<pc, cat, rbf, files, says, history>>

\* The end of the file, or an error; either way the device is closed.
CatExit ==
  /\ cat = "run"
  /\ Dev!Close
  /\ \/ cat' = "ok" /\ IF Reads THEN Len(Output) = FLASH_SIZE ELSE image = Input
     \/ cat' = "fail"
  /\ UNCHANGED <<pc, rbf, files, says, history>>

(***************************************************************************)
(* The script                                                              *)
(***************************************************************************)

\* what the flash holds is what the user wants
Settled == says \in {"nothing", "complete"}

\* "[ -c $update ]"
Start(r) ==
  /\ pc = "idle" /\ state # "off"
  /\ pc' = "backup"
  /\ cat' = "start"
  /\ rbf' = r
  /\ says' = "running"
  /\ good' = IF Settled THEN contents ELSE good
  /\ overwritten' = ( /\ ~Settled /\ contents # good
                     /\ \A s \in Rbfs \ {r} : backup[s] # Dump(good) )
  /\ UNCHANGED <<device, files, before>>

\* "[ $? -ne 0 ]": exit 1, without touching the files
Exit ==
  /\ cat = "fail" /\ state = "closed" /\ pc # "idle"
  /\ pc' = "idle"
  /\ says' = "failed"
  /\ UNCHANGED <<device, cat, rbf, files, history>>

\* the next command
Goto(label) ==
  /\ pc' = label
  /\ cat' = "start"
  /\ UNCHANGED <<files, says>>

Done(message) ==
  /\ pc' = "idle"
  /\ says' = message
  /\ UNCHANGED cat

\* a script that forgets "truncate -s $bytes $tmp" and looks at the length only
Equal_Length == Len(tmp) >= Len(Image[rbf])

\* "truncate -s $bytes $tmp; diff $rbf $tmp"
Equal == SubSeq(tmp, 1, Len(Image[rbf])) = Image[rbf]

\* a script that is done with the backup when it has written the flash
Written_NoBackup ==
  /\ pc = "write"
  /\ pc' = "verify"
  /\ cat' = "start"
  /\ backup' = [backup EXCEPT ![rbf] = Absent]
  /\ UNCHANGED <<tmp, says>>

Written == pc = "write" /\ Goto("verify")

Verified ==
  /\ pc = "verify"
  /\ \/ /\ Equal
        /\ Done("complete")
        /\ tmp' = Absent
        /\ backup' = [backup EXCEPT ![rbf] = Absent]
     \/ ~Equal /\ Goto("restore")

\* "diff $backup $tmp"; the backup is kept if they differ
Checked ==
  /\ pc = "check"
  /\ tmp' = Absent
  /\ \/ /\ tmp = backup[rbf]
        /\ Done("restored")
        /\ backup' = [backup EXCEPT ![rbf] = Absent]
     \/ tmp # backup[rbf] /\ Done("warning") /\ UNCHANGED backup

\* a command was successful
Advance ==
  /\ cat = "ok" /\ state = "closed"
  /\ \/ pc = "backup" /\ Goto("write")
     \/ Written
     \/ Verified
     \/ pc = "restore" /\ Goto("check")
     \/ Checked
  /\ UNCHANGED <<device, rbf, history>>

\* the user loses patience; the kernel closes the files
Kill ==
  /\ pc # "idle"
  /\ IF state = "open" THEN Dev!Close ELSE UNCHANGED device
  /\ pc' = "idle"
  /\ cat' = "fail"
  /\ says' = "killed"
  /\ UNCHANGED <<rbf, files, history>>

(***************************************************************************)
(* The hardware                                                            *)
(***************************************************************************)

\* the flash is programmed; a worn out one holds something else
Program ==
  /\ \/ Dev!Programmed
     \/ /\ state = "closing"
        /\ state' = "closed"
        /\ image' = <<>>
        /\ contents' \in Firmware
        /\ UNCHANGED out
  /\ UNCHANGED <<pc, cat, rbf, files, says, history>>

\* the files are on a disk
PowerFail ==
  /\ Dev!PowerFail
  /\ pc' = "idle"
  /\ cat' = "fail"
  /\ says' = IF pc = "idle" THEN says ELSE "killed"
  /\ UNCHANGED <<rbf, files, history>>

\* the FPGA loads its configuration; without a valid one there is no device
PowerOn ==
  /\ Dev!PowerOn
  /\ contents = good \/ \E r \in Rbfs : Dev!Holds(contents, Image[r])
  /\ UNCHANGED <<pc, cat, rbf, files, says, history>>

(***************************************************************************)
(* The specification                                                       *)
(***************************************************************************)

Init ==
  /\ Dev!Init
  /\ pc = "idle"
  /\ cat = "ok"
  /\ rbf \in Rbfs
  /\ backup = [r \in Rbfs |-> Absent]
  /\ tmp = Absent
  /\ says = "nothing"
  /\ before = contents
  /\ good = contents
  /\ overwritten = FALSE

Script == CatOpen \/ CatRead \/ CatWrite \/ CatExit \/ Exit \/ Advance

Next ==
  \/ \E r \in Rbfs : Start(r)
  \/ Script \/ Kill
  \/ Program \/ PowerFail \/ PowerOn

Spec == Init /\ [][Next]_vars

(***************************************************************************)
(* Properties                                                              *)
(***************************************************************************)

Files == Seq(Values) \cup {Absent}

TypeOK ==
  /\ state \in {"closed", "open", "closing", "off"}
  /\ image \in Seq(Values)
  /\ out \in Seq(Values)
  /\ contents \in Firmware \cup {Unknown}
  /\ pc \in {"idle", "backup", "write", "verify", "restore", "check"}
  /\ cat \in {"start", "run", "ok", "fail"}
  /\ rbf \in Rbfs
  /\ backup \in [Rbfs -> Files]
  /\ tmp \in Files
  /\ says \in {"nothing", "running", "complete", "restored", "failed",
               "warning", "killed"}
  /\ before \in Firmware
  /\ good \in Firmware
  /\ overwritten \in BOOLEAN

\* "Update complete" is said only if the flash begins with the *.rbf, and
\* "Restore: was successful" only if it is as it was when the backup was made.
VerdictTrue ==
  /\ says = "complete" => SubSeq(Dump(contents), 1, Len(Image[rbf])) = Image[rbf]
  /\ says = "restored" => contents = before

\* "As long as the FPGA stays powered on you have a chance to recover!"
\* (update_ccat.sh:9): what the flash held before an update was tried is still
\* there or in a backup file, until an update is complete.
ChanceToRecover ==
  says # "complete" => contents = good \/ \E r \in Rbfs : backup[r] = Dump(good)

\* The script keeps this promise, whatever command of it fails and wherever it
\* is killed, over a loss of power and over any number of runs on a flash that
\* a failed run has damaged.  The one exception is a run on a damaged flash for
\* the *.rbf whose backup file is the last good copy: "cat $update >$backup"
\* truncates it and dumps the damaged contents to it.
RecoveryKept == overwritten \/ ChanceToRecover

\* The device and the command that has it open.
DeviceState ==
  /\ state = "open" <=> cat = "run"
  /\ state = "closing" <=> contents = Unknown
  /\ state \in {"closed", "off"} \/ (state = "open" /\ Reads) => image = <<>>
  /\ cat \in {"start", "run"} => pc # "idle"
  /\ pc # "idle" => state # "off"

\* A file that is being read, or was read to its end, is a dump of the flash.
DumpState ==
  Reads /\ cat \in {"run", "ok"} =>
    /\ Output \in Seq(Values)
    /\ Len(Output) <= FLASH_SIZE
    /\ \A i \in 1 .. Len(Output) : Output[i] = contents[i - 1]
    /\ cat = "ok" => state = "closed" /\ Len(Output) = FLASH_SIZE

\* The good contents are in a file this run does not write to.
KeptElsewhere == \E r \in Rbfs \ {rbf} : backup[r] = Dump(good)

\* The backup is complete before the flash is touched.
BackupState ==
  /\ pc = "backup" /\ cat \in {"run", "ok"} => before = contents
  /\ pc = "backup" /\ ~overwritten => contents = good \/ KeptElsewhere
  /\ pc \notin {"idle", "backup"} => backup[rbf] = Dump(before)
  /\ pc \notin {"idle", "backup"} /\ ~overwritten => before = good \/ KeptElsewhere

\* The inductive invariant.
IndInv ==
  /\ TypeOK
  /\ DeviceState
  /\ DumpState
  /\ BackupState
  /\ says = "running" <=> pc # "idle"
  /\ says \in {"nothing", "complete", "restored"} => state \in {"closed", "off"}
  /\ VerdictTrue
  /\ RecoveryKept
=============================================================================
