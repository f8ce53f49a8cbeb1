---------------------------- MODULE FlashDevice ----------------------------
(***************************************************************************)
(* What /dev/ccat_updateN promises to the process that has it open: read() *)
(* returns the contents of the configuration flash, and closing the file   *)
(* replaces the contents by what was written.  FlashUpdate implements it,  *)
(* UpdateScript uses it.                                                   *)
(***************************************************************************)
EXTENDS Integers, Sequences

CONSTANTS
  FLASH_SIZE,  \* CCAT_FLASH_SIZE
  Values,      \* bytes
  Erased,      \* 0xff
  Unknown      \* no byte: contents nobody can tell

VARIABLES
  state,     \* "closed", "open", "closing" while the flash is programmed, "off"
  image,     \* the file as the calls of write() built it
  out,       \* bytes the latest read() delivered, until the next call
  contents   \* contents of the flash, Unknown while it is programmed

device == <<state, image, out, contents>>

Cells == 0 .. FLASH_SIZE - 1

\* the file img after n bytes b are written at p; nobody wrote the bytes that
\* read() skipped
Put(img, p, n, b) ==
  [i \in 1 .. p + n |-> IF i > p THEN b
                        ELSE IF i <= Len(img) THEN img[i] ELSE Unknown]

\* the flash c holds the image img and nothing else
Holds(c, img) ==
  \A i \in Cells : IF i < Len(img) THEN img[i + 1] \in {c[i], Unknown}
                                   ELSE c[i] = Erased

Init ==
  /\ state = "closed"
  /\ image = <<>>
  /\ out = <<>>
  /\ contents \in [Cells -> Values]

Open ==
  /\ state = "closed"
  /\ state' = "open"
  /\ UNCHANGED <<image, out, contents>>

Write(p, n, b) ==
  /\ state = "open"
  /\ p + n <= FLASH_SIZE
  /\ image' = Put(image, p, n, b)
  /\ out' = <<>>
  /\ UNCHANGED <<state, contents>>

Read(p, n) ==
  /\ state = "open"
  /\ p + n <= FLASH_SIZE
  /\ out' = [i \in 1 .. n |-> contents[p + i - 1]]
  /\ UNCHANGED <<state, image, contents>>

\* a call that is refused, fails or has not delivered anything yet
Nothing ==
  /\ state = "open"
  /\ out' = <<>>
  /\ UNCHANGED <<state, image, contents>>

\* a file nobody wrote to leaves the flash alone
Close ==
  /\ state = "open"
  /\ out' = <<>>
  /\ \/ image = <<>> /\ state' = "closed"  /\ UNCHANGED contents
     \/ image # <<>> /\ state' = "closing" /\ contents' = Unknown
  /\ UNCHANGED image

Programmed ==
  /\ state = "closing"
  /\ state' = "closed"
  /\ image' = <<>>
  /\ contents' \in [Cells -> Values]
  /\ Holds(contents', image)
  /\ UNCHANGED out

\* power fails: only a flash that is being programmed suffers
PowerFail ==
  /\ state' = "off"
  /\ image' = <<>>
  /\ out' = <<>>
  /\ contents' \in IF state = "closing" THEN [Cells -> Values] ELSE {contents}

PowerOn ==
  /\ state = "off"
  /\ state' = "closed"
  /\ UNCHANGED <<image, out, contents>>

Next ==
  \/ Open \/ Nothing \/ Close \/ Programmed \/ PowerFail \/ PowerOn
  \/ \E p, n \in 0 .. FLASH_SIZE : Read(p, n)
  \/ \E p, n \in 0 .. FLASH_SIZE, b \in Values : Write(p, n, b)

Safety == Init /\ [][Next]_device

\* close() comes back
Spec == Safety /\ WF_device(Programmed)
=============================================================================
