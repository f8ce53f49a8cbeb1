------------------------- MODULE UpdateScriptProofs -------------------------
(***************************************************************************)
(* Proofs for UpdateScript: what the script says is true, and the backup   *)
(* survives whatever fails, for every size of the flash and every image.   *)
(***************************************************************************)
EXTENDS UpdateScript, TLAPS

USE UpdateScriptAssumption DEF UpdateScriptAssumption

(***************************************************************************)
(* Dumps of the flash                                                      *)
(***************************************************************************)

\* A flash can be told from its dump.
LEMMA DumpInjective ==
  ASSUME NEW c \in Firmware, NEW d \in Firmware, Dump(c) = Dump(d)
  PROVE  c = d
<1>1. ASSUME NEW i \in Dev!Cells
      PROVE  c[i] = d[i]
  <2>1. i + 1 \in 1 .. FLASH_SIZE /\ (i + 1) - 1 = i
    BY DEF Dev!Cells
  <2>2. Dump(c)[i + 1] = c[i] /\ Dump(d)[i + 1] = d[i]
    BY <2>1 DEF Dump
  <2> QED
    BY <2>2
<1> QED
  BY <1>1 DEF Firmware

\* A dump is a file.
LEMMA DumpType ==
  ASSUME NEW c \in Firmware
  PROVE  Dump(c) \in Seq(Values) /\ Len(Dump(c)) = FLASH_SIZE
<1>1. ASSUME NEW i \in 1 .. FLASH_SIZE
      PROVE  c[i - 1] \in Values
  BY DEF Firmware, Dev!Cells
<1> QED
  BY <1>1 DEF Dump

\* A file as long as the flash, with the same blocks, is the dump.
LEMMA FullDump ==
  ASSUME NEW c \in Firmware, NEW f \in Seq(Values), Len(f) = FLASH_SIZE,
         \A i \in 1 .. Len(f) : f[i] = c[i - 1]
  PROVE  f = Dump(c)
<1>1. DOMAIN f = 1 .. FLASH_SIZE
  OBVIOUS
<1> QED
  BY <1>1 DEF Dump

\* Sets the provers need not look into.
LEMMA Kinds ==
  /\ Unknown \notin Firmware
  /\ [Dev!Cells -> Values] = Firmware
  /\ Absent \in Files
  /\ <<>> \in Files
  /\ Seq(Values) \subseteq Files
<1>1. <<>> \in Seq(Values)
  OBVIOUS
<1> QED
  BY <1>1 DEF Firmware, Files, Dev!Cells

\* A step that writes to no other backup leaves the good one there.
LEMMA ElsewhereStays ==
  ASSUME UNCHANGED <<rbf, good>>,
         \A r \in Rbfs \ {rbf} : backup'[r] = backup[r]
  PROVE  KeptElsewhere => KeptElsewhere'
BY DEF KeptElsewhere

\* The files a command stores to.
LEMMA StoreElsewhere ==
  ASSUME TypeOK, NEW f, Store(f)
  PROVE  /\ \A r \in Rbfs \ {rbf} : backup'[r] = backup[r]
         /\ pc # "backup" => UNCHANGED backup
BY DEF TypeOK, Store

\* From the end of the backup to the end of the run the backup can be used.
LEMMA BackupUsable ==
  ASSUME IndInv, pc \notin {"idle", "backup"}
  PROVE  /\ rbf \in Rbfs
         /\ before \in Firmware
         /\ backup[rbf] = Dump(before)
         /\ backup[rbf] \in Seq(Values)
         /\ ~overwritten => \E r \in Rbfs : backup[r] = Dump(good)
<1>1. rbf \in Rbfs /\ before \in Firmware /\ backup[rbf] = Dump(before)
  BY DEF IndInv, TypeOK, BackupState
<1>2. backup[rbf] \in Seq(Values)
  BY <1>1, DumpType
<1>3. ~overwritten => backup[rbf] = Dump(good) \/ KeptElsewhere
  BY <1>1 DEF IndInv, BackupState
<1> QED
  BY <1>1, <1>2, <1>3 DEF KeptElsewhere

\* While the flash is programmed there is a backup.
LEMMA BackupWhileClosing ==
  ASSUME IndInv, state = "closing"
  PROVE  /\ contents = Unknown
         /\ pc = "backup" /\ ~overwritten => KeptElsewhere
         /\ pc = "backup" => cat \notin {"run", "ok"}
         /\ ~overwritten => \E r \in Rbfs : backup[r] = Dump(good)
<1>1. contents = Unknown /\ contents # good
  BY Kinds DEF IndInv, DeviceState, TypeOK
<1>2. /\ pc = "backup" /\ ~overwritten => KeptElsewhere
      /\ pc = "backup" => cat \notin {"run", "ok"}
  BY <1>1 DEF IndInv, BackupState, DumpState, DeviceState, Reads
<1>3. says # "complete"
  BY DEF IndInv
<1> QED
  BY <1>1, <1>2, <1>3 DEF IndInv, RecoveryKept, ChanceToRecover

\* The initial states.
LEMMA InitIndInv == Init => IndInv
<1> SUFFICES ASSUME Init
             PROVE  IndInv
  OBVIOUS
<1>0. <<>> \in Seq(Values)
  OBVIOUS
<1>1. TypeOK
  <2>1. backup \in [Rbfs -> Files] /\ tmp \in Files
    BY Kinds DEF Init
  <2>2. contents \in Firmware /\ image = <<>> /\ out = <<>> /\ state = "closed"
    BY DEF Init, Dev!Init, Firmware
  <2> QED
    BY <2>1, <2>2, <1>0 DEF Init, TypeOK
<1> QED
  BY <1>1 DEF Init, IndInv, Dev!Init, DeviceState, DumpState, BackupState,
     VerdictTrue, RecoveryKept, ChanceToRecover, Reads, Firmware, TypeOK,
     Dev!Cells

(***************************************************************************)
(* The steps                                                               *)
(***************************************************************************)

\* Opening truncates the output, and a backup starts from what the flash holds.
LEMMA CatOpenPreserves ==
  ASSUME IndInv, CatOpen
  PROVE  IndInv'
<1>1. TypeOK'
  <2>1. /\ backup' \in [Rbfs -> Files]
        /\ tmp' \in Files
    BY Kinds DEF CatOpen, Store, files, IndInv, TypeOK
  <2>2. before' \in Firmware
    BY DEF CatOpen, Dev!Open, device, IndInv, TypeOK, DeviceState
  <2> QED
    BY <2>1, <2>2 DEF CatOpen, Dev!Open, device, IndInv, TypeOK
<1>2. DeviceState'
  BY DEF CatOpen, Dev!Open, Store, device, files, IndInv, TypeOK, DeviceState,
     Reads
<1>3. DumpState'
  BY DEF CatOpen, Dev!Open, Store, device, files, IndInv, TypeOK, DeviceState,
     DumpState, Output, Reads
<1>e. /\ \A r \in Rbfs \ {rbf} : backup'[r] = backup[r]
      /\ pc # "backup" => UNCHANGED backup
      /\ UNCHANGED <<pc, rbf, says, good, overwritten, contents>>
  BY StoreElsewhere DEF CatOpen, Dev!Open, device, files, IndInv
<1>f. KeptElsewhere => KeptElsewhere'
  BY <1>e, ElsewhereStays
<1>4. BackupState'
  BY <1>e, <1>f DEF CatOpen, IndInv, BackupState
<1>5. /\ (says = "running" <=> pc # "idle")'
      /\ (says \in {"nothing", "complete", "restored"} => state \in {"closed", "off"})'
  BY DEF CatOpen, Dev!Open, Store, device, files, IndInv, TypeOK, DeviceState,
     Reads
<1>6. VerdictTrue'
  BY DEF CatOpen, Dev!Open, Store, device, files, IndInv, TypeOK, DeviceState,
     VerdictTrue
<1>7. RecoveryKept'
  <2>1. CASE pc = "backup"
    BY <1>e, <1>f, <2>1 DEF IndInv, BackupState, KeptElsewhere, RecoveryKept,
       ChanceToRecover
  <2>2. CASE pc # "backup"
    BY <1>e, <2>2 DEF IndInv, RecoveryKept, ChanceToRecover
  <2> QED
    BY <2>1, <2>2
<1> QED
  BY <1>1, <1>2, <1>3, <1>4, <1>5, <1>6, <1>7 DEF IndInv

\* A block that is read continues the dump.
LEMMA CatReadPreserves ==
  ASSUME IndInv, CatRead
  PROVE  IndInv'
<1>0. /\ out' \in Seq(Values)
      /\ Output \in Seq(Values)
      /\ Output \o out' \in Seq(Values)
      /\ Len(Output \o out') = Len(Output) + 1
      /\ Len(Output) + 1 <= FLASH_SIZE
      /\ \A i \in 1 .. Len(Output) + 1 : (Output \o out')[i] = contents[i - 1]
      /\ Output' = Output \o out'
  <2>1. /\ Output \in Seq(Values) /\ Len(Output) + 1 <= FLASH_SIZE
        /\ \A i \in 1 .. Len(Output) : Output[i] = contents[i - 1]
        /\ Len(Output) \in Nat
    BY DEF IndInv, DumpState, CatRead, Dev!Read
  <2>2. contents \in Firmware
    BY DEF CatRead, Dev!Read, IndInv, TypeOK, DeviceState
  <2>3. contents[Len(Output)] \in Values
    BY <2>1, <2>2 DEF Firmware, Dev!Cells
  <2>4. out' = <<contents[Len(Output)]>>
    <3>1. out' = [i \in 1 .. 1 |-> contents[Len(Output) + i - 1]]
      BY DEF CatRead, Dev!Read
    <3>2. \A i \in 1 .. 1 : Len(Output) + i - 1 = Len(Output)
      BY <2>1
    <3> QED
      BY <3>1, <3>2
  <2>5. Output' = Output \o out'
    BY DEF CatRead, Store, Output, IndInv, TypeOK
  <2> HIDE DEF Output
  <2> QED
    BY <2>1, <2>3, <2>4, <2>5
<1>1. TypeOK'
  <2>1. /\ backup' \in [Rbfs -> Files]
        /\ tmp' \in Files
    BY <1>0, Kinds DEF CatRead, Store, IndInv, TypeOK
  <2> QED
    BY <1>0, <2>1 DEF CatRead, Dev!Read, history, IndInv, TypeOK
<1>2. DeviceState'
  BY DEF CatRead, Dev!Read, Store, history, IndInv, TypeOK, DeviceState, Reads
<1>3. DumpState'
  BY <1>0 DEF CatRead, Dev!Read, IndInv, TypeOK, DumpState, Reads
<1>e. /\ \A r \in Rbfs \ {rbf} : backup'[r] = backup[r]
      /\ pc # "backup" => UNCHANGED backup
      /\ UNCHANGED <<pc, cat, rbf, says, before, good, overwritten, contents>>
  BY StoreElsewhere DEF CatRead, Dev!Read, history, IndInv
<1>f. KeptElsewhere => KeptElsewhere'
  BY <1>e, ElsewhereStays
<1>4. BackupState'
  BY <1>e, <1>f DEF IndInv, BackupState
<1>5. /\ (says = "running" <=> pc # "idle")'
      /\ (says \in {"nothing", "complete", "restored"} => state \in {"closed", "off"})'
  BY DEF CatRead, Dev!Read, Store, history, IndInv, TypeOK, DeviceState, Reads
<1>6. VerdictTrue'
  BY DEF CatRead, Dev!Read, Store, history, IndInv, TypeOK, DeviceState,
     VerdictTrue
<1>7. RecoveryKept'
  <2>1. CASE pc = "backup"
    BY <1>e, <1>f, <2>1 DEF IndInv, BackupState, KeptElsewhere, RecoveryKept,
       ChanceToRecover
  <2>2. CASE pc # "backup"
    BY <1>e, <2>2 DEF IndInv, RecoveryKept, ChanceToRecover
  <2> QED
    BY <2>1, <2>2
<1> QED
  BY <1>1, <1>2, <1>3, <1>4, <1>5, <1>6, <1>7 DEF IndInv

\* A block that is written leaves files and flash alone.
LEMMA CatWritePreserves ==
  ASSUME IndInv, CatWrite
  PROVE  IndInv'
<1>1. TypeOK'
  <2>1. Input \in Seq(Values)
    BY BackupUsable DEF CatWrite, Input, IndInv, TypeOK, Writes
  <2>2. Len(image) \in Nat /\ Len(image) + 1 \in 1 .. Len(Input)
    BY <2>1 DEF CatWrite, IndInv, TypeOK
  <2>3. Input[Len(image) + 1] \in Values
    BY <2>1, <2>2
  <2>4. image' \in Seq(Values)
    BY <2>2, <2>3 DEF CatWrite, Dev!Write, Dev!Put, IndInv, TypeOK
  <2>5. out' \in Seq(Values)
    BY DEF CatWrite, Dev!Write
  <2> QED
    BY <2>4, <2>5 DEF CatWrite, Dev!Write, files, history, IndInv, TypeOK
<1>2. DeviceState'
  BY DEF CatWrite, Dev!Write, Dev!Put, files, history, IndInv, TypeOK,
     DeviceState, Reads, Writes
<1>3. DumpState'
  BY DEF CatWrite, Dev!Write, Dev!Put, files, history, IndInv, TypeOK,
     DeviceState, DumpState, Output, Reads, Writes
<1>4. BackupState'
  BY DEF CatWrite, files, history, IndInv, BackupState, KeptElsewhere, Writes
<1>5. /\ (says = "running" <=> pc # "idle")'
      /\ (says \in {"nothing", "complete", "restored"} => state \in {"closed", "off"})'
  BY DEF CatWrite, Dev!Write, Dev!Put, files, history, IndInv, TypeOK,
     DeviceState, Reads, Writes
<1>6. VerdictTrue'
  BY DEF CatWrite, Dev!Write, Dev!Put, files, history, IndInv, TypeOK,
     DeviceState, VerdictTrue
<1>7. RecoveryKept'
  BY DEF CatWrite, Dev!Write, Dev!Put, files, history, IndInv, TypeOK,
     DeviceState, BackupState, RecoveryKept, ChanceToRecover
<1> QED
  BY <1>1, <1>2, <1>3, <1>4, <1>5, <1>6, <1>7 DEF IndInv

\* Closing the device may start programming, once there is a backup.
LEMMA CatExitPreserves ==
  ASSUME IndInv, CatExit
  PROVE  IndInv'
<1>1. TypeOK'
  BY DEF CatExit, Dev!Close, files, history, IndInv, TypeOK, DeviceState,
     Firmware, Files, Dev!Cells
<1>2. DeviceState'
  BY DEF CatExit, Dev!Close, files, history, IndInv, TypeOK, DeviceState, Reads
<1>3. DumpState'
  BY DEF CatExit, Dev!Close, files, history, IndInv, TypeOK, DeviceState,
     DumpState, Output, Reads
<1>4. BackupState'
  <2>1. pc = "backup" => UNCHANGED contents
    BY DEF CatExit, Dev!Close, IndInv, DeviceState, Reads
  <2>2. /\ UNCHANGED <<pc, rbf, backup, before, good, overwritten>>
        /\ cat = "run"
    BY DEF CatExit, files, history
  <2>3. KeptElsewhere => KeptElsewhere'
    BY <2>2 DEF KeptElsewhere
  <2> QED
    BY <2>1, <2>2, <2>3 DEF IndInv, BackupState
<1>5. /\ (says = "running" <=> pc # "idle")'
      /\ (says \in {"nothing", "complete", "restored"} => state \in {"closed", "off"})'
  BY DEF CatExit, Dev!Close, files, history, IndInv, TypeOK, DeviceState, Reads
<1>6. VerdictTrue'
  BY DEF CatExit, Dev!Close, files, history, IndInv, TypeOK, DeviceState,
     VerdictTrue
<1>7. RecoveryKept'
  <2>1. CASE image = <<>>
    BY <2>1 DEF CatExit, Dev!Close, files, history, IndInv, RecoveryKept,
       ChanceToRecover
  <2>2. CASE image # <<>>
    <3>1. pc \notin {"idle", "backup"}
      BY <2>2 DEF CatExit, IndInv, TypeOK, DeviceState, Reads
    <3> QED
      BY <3>1, BackupUsable DEF CatExit, files, history, RecoveryKept,
         ChanceToRecover
  <2> QED
    BY <2>1, <2>2
<1> QED
  BY <1>1, <1>2, <1>3, <1>4, <1>5, <1>6, <1>7 DEF IndInv

\* A run starts from the contents of a settled flash.
LEMMA StartPreserves ==
  ASSUME IndInv, NEW r \in Rbfs, Start(r)
  PROVE  IndInv'
<1>1. TypeOK'
  BY DEF Start, Settled, device, files, IndInv, TypeOK, DeviceState, Firmware,
     Files, Dev!Cells
<1>2. DeviceState'
  BY DEF Start, Settled, device, files, IndInv, TypeOK, DeviceState, Reads
<1>3. DumpState'
  BY DEF Start, Settled, device, files, IndInv, TypeOK, DeviceState, DumpState,
     Output, Reads
<1>4. BackupState'
  <2>1. pc' = "backup" /\ cat' = "start" /\ rbf' = r /\ UNCHANGED <<contents, backup>>
    BY DEF Start, device, files
  <2>2. ~overwritten' => contents = good' \/ \E s \in Rbfs \ {r} : backup[s] = Dump(good')
    BY DEF Start
  <2> QED
    BY <2>1, <2>2 DEF BackupState, KeptElsewhere
<1>5. /\ (says = "running" <=> pc # "idle")'
      /\ (says \in {"nothing", "complete", "restored"} => state \in {"closed", "off"})'
  BY DEF Start, Settled, device, files, IndInv, TypeOK, DeviceState, Reads
<1>6. VerdictTrue'
  BY DEF Start, Settled, device, files, IndInv, TypeOK, DeviceState, VerdictTrue
<1>7. RecoveryKept'
  BY DEF Start, Settled, device, files, IndInv, TypeOK, DeviceState,
     BackupState, RecoveryKept, ChanceToRecover
<1> QED
  BY <1>1, <1>2, <1>3, <1>4, <1>5, <1>6, <1>7 DEF IndInv

\* A failed command ends the script.
LEMMA ExitPreserves ==
  ASSUME IndInv, Exit
  PROVE  IndInv'
<1>1. TypeOK'
  BY DEF Exit, device, files, history, IndInv, TypeOK, DeviceState, Firmware,
     Files, Dev!Cells
<1>2. DeviceState'
  BY DEF Exit, device, files, history, IndInv, TypeOK, DeviceState, Reads
<1>3. DumpState'
  BY DEF Exit, device, files, history, IndInv, TypeOK, DeviceState, DumpState,
     Output, Reads
<1>4. BackupState'
  BY DEF Exit, device, files, history, IndInv, TypeOK, DeviceState, DumpState,
     BackupState, Output, Reads
<1>5. /\ (says = "running" <=> pc # "idle")'
      /\ (says \in {"nothing", "complete", "restored"} => state \in {"closed", "off"})'
  BY DEF Exit, device, files, history, IndInv, TypeOK, DeviceState, Reads
<1>6. VerdictTrue'
  BY DEF Exit, device, files, history, IndInv, TypeOK, DeviceState, VerdictTrue
<1>7. RecoveryKept'
  BY DEF Exit, device, files, history, IndInv, TypeOK, DeviceState, BackupState,
     RecoveryKept, ChanceToRecover
<1> QED
  BY <1>1, <1>2, <1>3, <1>4, <1>5, <1>6, <1>7 DEF IndInv

\* The script goes on, or says its verdict, after a command that succeeded.
LEMMA AdvancePreserves ==
  ASSUME IndInv, Advance
  PROVE  IndInv'
<1>0. Reads => contents \in Firmware /\ Output = Dump(contents)
  <2>1. contents \in Firmware
    BY DEF Advance, IndInv, TypeOK, DeviceState
  <2> QED
    BY <2>1, FullDump DEF Advance, IndInv, DumpState
<1>1. TypeOK'
  BY DEF Advance, Goto, Done, Written, Verified, Checked, device, files,
     history, IndInv, TypeOK, DeviceState, Firmware, Files, Dev!Cells
<1>2. DeviceState'
  BY DEF Advance, Goto, Done, Written, Verified, Checked, device, files,
     history, IndInv, TypeOK, DeviceState, Reads
<1>3. DumpState'
  BY DEF Advance, Goto, Done, Written, Verified, Checked, device, files,
     history, IndInv, TypeOK, DeviceState, DumpState, Output, Reads
<1>4. BackupState'
  <2>1. CASE pc = "backup"
    <3>1. /\ pc' = "write" /\ cat' = "start" /\ cat = "ok"
          /\ UNCHANGED <<contents, rbf, backup, before, good, overwritten>>
      BY <2>1 DEF Advance, Goto, Written, Verified, Checked, device, files, history
    <3>2. backup[rbf] = Dump(contents)
      BY <1>0, <2>1 DEF Reads, Output
    <3> QED
      BY <2>1, <3>1, <3>2 DEF IndInv, BackupState, KeptElsewhere
  <2>2. CASE pc' = "idle"
    BY <2>2 DEF BackupState
  <2>3. CASE pc # "backup" /\ pc' # "idle"
    <3>1. /\ pc # "idle" /\ pc' # "backup"
          /\ UNCHANGED <<contents, rbf, backup, before, good, overwritten>>
      BY <2>3 DEF Advance, Goto, Done, Written, Verified, Checked, device, files,
         history, IndInv, TypeOK
    <3> QED
      BY <2>3, <3>1 DEF IndInv, BackupState, KeptElsewhere
  <2> QED
    BY <2>1, <2>2, <2>3
<1>5. /\ (says = "running" <=> pc # "idle")'
      /\ (says \in {"nothing", "complete", "restored"} => state \in {"closed", "off"})'
  BY DEF Advance, Goto, Done, Written, Verified, Checked, device, files,
     history, IndInv, TypeOK, DeviceState, Reads
<1>6. VerdictTrue'
  <2>1. CASE Verified /\ Equal
    BY <1>0, <2>1 DEF Advance, Verified, Done, Equal, device, VerdictTrue,
       Reads,
       Output
  <2>2. CASE Checked /\ tmp = backup[rbf]
    <3>1. Dump(contents) = Dump(before) /\ contents \in Firmware
          /\ before \in Firmware
      BY <1>0, <2>2, BackupUsable DEF Checked, Reads, Output
    <3>2. contents = before
      BY <3>1, DumpInjective
    <3> QED
      BY <2>2, <3>2 DEF Advance, Checked, Done, device, history, VerdictTrue
  <2>3. CASE says' \notin {"complete", "restored"}
    BY <2>3 DEF VerdictTrue
  <2>4. \/ Verified /\ Equal
        \/ Checked /\ tmp = backup[rbf]
        \/ says' \notin {"complete", "restored"}
    BY DEF Advance, Goto, Done, Written, Verified, Checked, IndInv
  <2> QED
    BY <2>1, <2>2, <2>3, <2>4
<1>7. RecoveryKept'
  <2>1. CASE says' = "complete"
    BY <2>1 DEF RecoveryKept, ChanceToRecover
  <2>2. CASE Checked /\ tmp = backup[rbf]
    <3>1. /\ contents = before
          /\ ~overwritten => before = good \/ KeptElsewhere
      BY <1>0, <2>2, BackupUsable, DumpInjective DEF Checked, Reads, Output,
         IndInv, BackupState
    <3>2. /\ \A r \in Rbfs \ {rbf} : backup'[r] = backup[r]
          /\ UNCHANGED <<contents, rbf, good, overwritten>>
      BY <2>2 DEF Advance, Checked, Done, device, history, IndInv, TypeOK
    <3>3. KeptElsewhere => KeptElsewhere'
      BY <3>2, ElsewhereStays
    <3> QED
      BY <3>1, <3>2, <3>3 DEF RecoveryKept, ChanceToRecover, KeptElsewhere
  <2>0. says # "complete"
    BY DEF Advance, Written, Verified, Checked, IndInv
  <2>3. CASE UNCHANGED backup
    BY <2>0, <2>3 DEF Advance, device, history, IndInv, RecoveryKept,
       ChanceToRecover
  <2>4. \/ says' = "complete"
        \/ Checked /\ tmp = backup[rbf]
        \/ UNCHANGED backup
    BY DEF Advance, Goto, Done, Written, Verified, Checked, files
  <2> QED
    BY <2>1, <2>2, <2>3, <2>4
<1> QED
  BY <1>1, <1>2, <1>3, <1>4, <1>5, <1>6, <1>7 DEF IndInv

\* Killing the script closes the device.
LEMMA KillPreserves ==
  ASSUME IndInv, Kill
  PROVE  IndInv'
<1>1. TypeOK'
  <2>1. /\ state' \in {"closed", "open", "closing", "off"}
        /\ image' \in Seq(Values)
        /\ out' \in Seq(Values)
        /\ contents' \in Firmware \cup {Unknown}
    <3>1. CASE state = "open"
      <4>1. out' = <<>> /\ UNCHANGED image /\ state' \in {"closed", "closing"}
        BY <3>1 DEF Kill, Dev!Close
      <4>2. contents' \in {contents, Unknown}
        BY <3>1 DEF Kill, Dev!Close
      <4> QED
        BY <4>1, <4>2 DEF IndInv, TypeOK
    <3>2. CASE state # "open"
      BY <3>2 DEF Kill, device, IndInv, TypeOK
    <3> QED
      BY <3>1, <3>2
  <2> QED
    BY <2>1 DEF Kill, files, history, IndInv, TypeOK
<1>2. DeviceState'
  BY DEF Kill, Dev!Close, device, files, history, IndInv, TypeOK, DeviceState,
     Reads
<1>3. DumpState'
  BY DEF Kill, Dev!Close, device, files, history, IndInv, TypeOK, DeviceState,
     DumpState, Output, Reads
<1>4. BackupState'
  BY DEF Kill, Dev!Close, device, files, history, IndInv, TypeOK, DeviceState,
     DumpState, BackupState, Output, Reads
<1>5. /\ (says = "running" <=> pc # "idle")'
      /\ (says \in {"nothing", "complete", "restored"} => state \in {"closed", "off"})'
  BY DEF Kill, Dev!Close, device, files, history, IndInv, TypeOK, DeviceState,
     Reads
<1>6. VerdictTrue'
  BY DEF Kill, Dev!Close, device, files, history, IndInv, TypeOK, DeviceState,
     VerdictTrue
<1>7. RecoveryKept'
  <2>1. CASE contents' = contents
    BY <2>1 DEF Kill, files, history, IndInv, RecoveryKept, ChanceToRecover
  <2>2. CASE contents' # contents
    <3>1. pc \notin {"idle", "backup"}
      BY <2>2 DEF Kill, Dev!Close, device, IndInv, TypeOK, DeviceState, Reads
    <3> QED
      BY <3>1, BackupUsable DEF Kill, files, history, RecoveryKept,
         ChanceToRecover
  <2> QED
    BY <2>1, <2>2
<1> QED
  BY <1>1, <1>2, <1>3, <1>4, <1>5, <1>6, <1>7 DEF IndInv

\* The flash is done.
LEMMA ProgramPreserves ==
  ASSUME IndInv, Program
  PROVE  IndInv'
<1>0. /\ state = "closing" /\ state' = "closed"
      /\ image' = <<>> /\ contents' \in Firmware
      /\ UNCHANGED <<out, pc, cat, rbf, files, says, history>>
  BY Kinds DEF Program, Dev!Programmed
<1>1. TypeOK'
  <2>1. image' \in Seq(Values)
    BY <1>0
  <2> QED
    BY <1>0, <2>1 DEF files, history, IndInv, TypeOK
<1>2. DeviceState'
  BY <1>0, Kinds DEF IndInv, DeviceState
<1>3. DumpState'
  BY DEF Program, Dev!Programmed, files, history, IndInv, TypeOK, DeviceState,
     DumpState, Output, Reads
<1>4. BackupState'
  BY <1>0, BackupWhileClosing DEF files, history, IndInv, BackupState,
     KeptElsewhere
<1>5. /\ (says = "running" <=> pc # "idle")'
      /\ (says \in {"nothing", "complete", "restored"} => state \in {"closed", "off"})'
  BY DEF Program, Dev!Programmed, files, history, IndInv, TypeOK, DeviceState,
     Reads
<1>6. VerdictTrue'
  BY DEF Program, Dev!Programmed, files, history, IndInv, TypeOK, DeviceState,
     VerdictTrue
<1>7. RecoveryKept'
  BY <1>0, BackupWhileClosing DEF files, history, RecoveryKept,
     ChanceToRecover
<1> QED
  BY <1>1, <1>2, <1>3, <1>4, <1>5, <1>6, <1>7 DEF IndInv

\* Power fails.
LEMMA PowerFailPreserves ==
  ASSUME IndInv, PowerFail
  PROVE  IndInv'
<1>0. /\ state' = "off" /\ image' = <<>>
      /\ IF state = "closing" THEN contents' \in Firmware ELSE contents' = contents
  BY Kinds DEF PowerFail, Dev!PowerFail
<1>1. TypeOK'
  BY DEF PowerFail, Dev!PowerFail, files, history, IndInv, TypeOK, DeviceState,
     Firmware, Files, Dev!Cells
<1>2. DeviceState'
  BY <1>0, Kinds DEF PowerFail, IndInv, TypeOK, DeviceState
<1>3. DumpState'
  BY DEF PowerFail, Dev!PowerFail, files, history, IndInv, TypeOK, DeviceState,
     DumpState, Output, Reads
<1>4. BackupState'
  BY DEF PowerFail, Dev!PowerFail, files, history, IndInv, TypeOK, DeviceState,
     DumpState, BackupState, Output, Reads
<1>5. /\ (says = "running" <=> pc # "idle")'
      /\ (says \in {"nothing", "complete", "restored"} => state \in {"closed", "off"})'
  BY DEF PowerFail, Dev!PowerFail, files, history, IndInv, TypeOK, DeviceState,
     Reads
<1>6. VerdictTrue'
  BY DEF PowerFail, Dev!PowerFail, files, history, IndInv, TypeOK, DeviceState,
     VerdictTrue
<1>7. RecoveryKept'
  <2>1. CASE state = "closing"
    BY <2>1, BackupWhileClosing DEF PowerFail, files, history, RecoveryKept,
       ChanceToRecover
  <2>2. CASE state # "closing"
    BY <1>0, <2>2 DEF PowerFail, files, history, IndInv, RecoveryKept,
       ChanceToRecover
  <2> QED
    BY <2>1, <2>2
<1> QED
  BY <1>1, <1>2, <1>3, <1>4, <1>5, <1>6, <1>7 DEF IndInv

\* Power returns.
LEMMA PowerOnPreserves ==
  ASSUME IndInv, PowerOn
  PROVE  IndInv'
<1>1. TypeOK'
  BY DEF PowerOn, Dev!PowerOn, files, history, IndInv, TypeOK, DeviceState,
     Firmware, Files, Dev!Cells
<1>2. DeviceState'
  BY DEF PowerOn, Dev!PowerOn, files, history, IndInv, TypeOK, DeviceState,
     Reads
<1>3. DumpState'
  BY DEF PowerOn, Dev!PowerOn, files, history, IndInv, TypeOK, DeviceState,
     DumpState, Output, Reads
<1>4. BackupState'
  BY DEF PowerOn, Dev!PowerOn, files, history, IndInv, TypeOK, DeviceState,
     DumpState, BackupState, Output, Reads
<1>5. /\ (says = "running" <=> pc # "idle")'
      /\ (says \in {"nothing", "complete", "restored"} => state \in {"closed", "off"})'
  BY DEF PowerOn, Dev!PowerOn, files, history, IndInv, TypeOK, DeviceState,
     Reads
<1>6. VerdictTrue'
  BY DEF PowerOn, Dev!PowerOn, files, history, IndInv, TypeOK, DeviceState,
     VerdictTrue
<1>7. RecoveryKept'
  BY DEF PowerOn, Dev!PowerOn, files, history, IndInv, TypeOK, DeviceState,
     BackupState, RecoveryKept, ChanceToRecover
<1> QED
  BY <1>1, <1>2, <1>3, <1>4, <1>5, <1>6, <1>7 DEF IndInv

(***************************************************************************)
(* Theorems                                                                *)
(***************************************************************************)

\* Every step preserves the invariant.
LEMMA NextIndInv == IndInv /\ [Next]_vars => IndInv'
<1> SUFFICES ASSUME IndInv, [Next]_vars
             PROVE  IndInv'
  OBVIOUS
<1>1. ASSUME NEW r \in Rbfs, Start(r)
      PROVE  IndInv'
  BY <1>1, StartPreserves
<1>2. CASE Script
  BY <1>2, CatOpenPreserves, CatReadPreserves, CatWritePreserves,
     CatExitPreserves,
     ExitPreserves, AdvancePreserves DEF Script
<1>3. CASE Kill
  BY <1>3, KillPreserves
<1>4. CASE Program \/ PowerFail \/ PowerOn
  BY <1>4, ProgramPreserves, PowerFailPreserves, PowerOnPreserves
<1>5. CASE UNCHANGED vars
  BY <1>5 DEF vars, IndInv, TypeOK, DeviceState, DumpState, BackupState,
     KeptElsewhere, VerdictTrue, RecoveryKept, ChanceToRecover, Reads, Output
<1> QED
  BY <1>1, <1>2, <1>3, <1>4, <1>5 DEF Next

\* The inductive invariant holds in every reachable state.
THEOREM ScriptInvariant == Spec => []IndInv
BY InitIndInv, NextIndInv, PTL DEF Spec

\* "Update complete" and "Restore: was successful" are true when the script
\* says so, for every image and every size of the flash.
THEOREM VerdictsAreTrue == Spec => []VerdictTrue
<1>1. IndInv => VerdictTrue
  BY DEF IndInv
<1> QED
  BY <1>1, ScriptInvariant, PTL

\* Until an update is complete the good contents are in the flash or in a backup
\* file, unless the script is started on a damaged flash for the *.rbf whose
\* backup is the last copy of them (update_ccat.sh:58 overwrites it).
THEOREM RecoveryIsKept == Spec => []RecoveryKept
<1>1. IndInv => RecoveryKept
  BY DEF IndInv
<1> QED
  BY <1>1, ScriptInvariant, PTL
=============================================================================
