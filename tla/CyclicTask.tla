----------------------------- MODULE CyclicTask ----------------------------
(***************************************************************************)
(* The EtherCAT test application (unittest/main.c).                        *)
(*                                                                         *)
(* A periodic timer counts alarms in a signal handler; main() sleeps in    *)
(* pause() and runs cyclic_task() once for every alarm.  The task writes a *)
(* value to the digital outputs, which are wired to the digital inputs,    *)
(* and counts an error when the inputs do not follow for too long.  Frames *)
(* of the bus take a while, and may be lost.                               *)
(***************************************************************************)
EXTENDS Integers

CONSTANTS
  FIRST_DELAY,   \* initial value of counter
  UPDATE_DELAY,  \* counter = 5
  OUTPUTS,       \* number of output values, 0x0F + 1
  ERROR_MAX,     \* 0xff
  MAX_ASYNC,     \* bound: where numAsyncCycles stops to count
  MAX_PENDING    \* bound: alarms that main() may lag behind before it sleeps

ASSUME CyclicTaskAssumption ==
  /\ FIRST_DELAY \in Nat
  /\ UPDATE_DELAY \in Nat /\ UPDATE_DELAY >= 3
  /\ OUTPUTS \in Nat \ {0, 1}
  /\ ERROR_MAX \in Nat \ {0}
  /\ MAX_ASYNC \in Nat /\ MAX_ASYNC >= 3
  /\ MAX_PENDING \in Nat \ {0}

VARIABLES
  main_pc,         \* main(): "loop", "paused" or "test"
  pending,         \* sig_alarms - user_alarms
  counter, outputValue, numAsyncCycles, error,  \* of cyclic_task()
  inputs,          \* the inputs in the process data domain1_pd
  flight,          \* the frame: "none", "sent" or "back" (not received yet)
  sent,            \* outputs in the frame
  answer,          \* inputs in the frame that is back
  wire,            \* level of the outputs, which are wired to the inputs
  cut,             \* is the cable cut?
  missed           \* history: cycles that waited for the inputs in vain, without
                   \* an answer, since an answer last showed the outputs

task == <<counter, outputValue, numAsyncCycles, error, inputs, missed>>
bus  == <<flight, sent, answer, wire>>
cyclic_vars ==
  <<main_pc, pending, counter, outputValue, numAsyncCycles, error, inputs,
    flight, sent, answer, wire, cut, missed>>

(***************************************************************************)
(* main()                                                                  *)
(***************************************************************************)

\* pause(): an alarm that came since the test does not wake it up
Pause ==
  /\ main_pc = "loop"
  /\ main_pc' = "paused"
  /\ UNCHANGED <<pending, task, bus, cut>>

\* a signal that runs the handler but is not delivered to pause()
Wake_Masked == main_pc

\* pause() returns when the handler has run
Wake == IF main_pc = "paused" THEN "test" ELSE main_pc

\* signal_handler(), by the interval timer
Alarm ==
  /\ pending < IF main_pc = "paused" THEN MAX_PENDING + 1 ELSE MAX_PENDING
  /\ pending' = pending + 1
  /\ main_pc' = Wake
  /\ UNCHANGED <<task, bus, cut>>

\* the end of "while (sig_alarms != user_alarms)"
LoopEnd ==
  /\ main_pc = "test" /\ pending = 0
  /\ main_pc' = "loop"
  /\ UNCHANGED <<pending, task, bus, cut>>

(***************************************************************************)
(* cyclic_task()                                                           *)
(***************************************************************************)

\* ecrt_master_receive(), ecrt_domain_process(): without an answer the
\* process data stay as they are
Received == IF flight = "back" THEN answer ELSE inputs

\* a task that looks at the inputs only if there is an answer
Async_Answered == flight = "back" /\ answer # outputValue

\* "inputValue != outputValue"
Async == Received # outputValue

AsyncCycles ==
  IF ~Async THEN 0
  ELSE IF numAsyncCycles < MAX_ASYNC THEN numAsyncCycles + 1 ELSE MAX_ASYNC

\* a task that tolerates a cycle less
Late_Strict == AsyncCycles > 1

\* "numAsyncCycles > 2"
Late == AsyncCycles > 2

NextError == IF Late /\ error # ERROR_MAX THEN error + 1 ELSE error

\* a value that outgrows the outputs
NextOutput_Wide == outputValue + 1

\* "(outputValue + 1) & 0x0F"
NextOutput == (outputValue + 1) % OUTPUTS

CyclicTask ==
  /\ main_pc = "test" /\ pending > 0
  /\ pending' = pending - 1
  /\ inputs' = Received
  /\ numAsyncCycles' = AsyncCycles
  /\ error' = NextError
  /\ missed' = IF flight = "back" THEN IF Async THEN missed ELSE 0
               ELSE IF Async /\ missed < MAX_ASYNC THEN missed + 1 ELSE missed
  /\ \/ /\ counter # 0
        /\ counter' = counter - 1
        /\ UNCHANGED outputValue
     \/ /\ counter = 0
        /\ counter' = UPDATE_DELAY
        /\ outputValue' = NextOutput
  /\ flight' = "sent"
  /\ sent' = outputValue'
  /\ UNCHANGED <<main_pc, answer, wire, cut>>

(***************************************************************************)
(* The bus                                                                 *)
(***************************************************************************)

\* the frame passes the inputs before the outputs and comes back
Exchange ==
  /\ flight = "sent" /\ ~cut
  /\ answer' = wire
  /\ wire' = sent
  /\ flight' = "back"
  /\ UNCHANGED <<main_pc, pending, task, sent, cut>>

\* a frame is lost on its way, before or after the terminals
Lose ==
  /\ flight # "none"
  /\ flight' = "none"
  /\ UNCHANGED <<main_pc, pending, task, sent, answer, wire, cut>>

Cut ==
  /\ cut' = ~cut
  /\ UNCHANGED <<main_pc, pending, task, bus>>

(***************************************************************************)
(* The specification                                                       *)
(***************************************************************************)

CyclicInit ==
  /\ main_pc = "loop"
  /\ pending = 0
  /\ counter = FIRST_DELAY
  /\ outputValue = 0
  /\ numAsyncCycles = 0
  /\ error = 0
  /\ inputs = 0
  /\ flight = "none"
  /\ sent = 0
  /\ answer = 0
  /\ wire = 0
  /\ cut = FALSE
  /\ missed = 0

Main == Pause \/ LoopEnd \/ CyclicTask

CyclicNext == Main \/ Alarm \/ Exchange \/ Lose \/ Cut

\* main() runs, and the interval timer goes on
Fairness == WF_cyclic_vars(Main) /\ WF_cyclic_vars(Alarm)

CyclicSpec == CyclicInit /\ [][CyclicNext]_cyclic_vars /\ Fairness

(***************************************************************************)
(* Properties                                                              *)
(***************************************************************************)

CyclicTypeOK ==
  /\ main_pc \in {"loop", "paused", "test"}
  /\ pending \in 0 .. MAX_PENDING + 1
  /\ counter \in Nat
  /\ outputValue \in 0 .. OUTPUTS - 1
  /\ numAsyncCycles \in 0 .. MAX_ASYNC
  /\ error \in 0 .. ERROR_MAX
  /\ inputs \in 0 .. OUTPUTS - 1
  /\ flight \in {"none", "sent", "back"}
  /\ sent \in 0 .. OUTPUTS - 1
  /\ answer \in 0 .. OUTPUTS - 1
  /\ wire \in 0 .. OUTPUTS - 1
  /\ cut \in BOOLEAN
  /\ missed \in 0 .. MAX_ASYNC

\* One lost or late frame is never an error, wherever it falls and however main()
\* catches up with its alarms: an error is counted only if at least two cycles
\* had no answer since an answer last showed the outputs.  (Inputs nobody has
\* read for long may equal the outputs by chance when these wrap around: that
\* ends nothing.)  And an error once counted stays visible: the counter only
\* goes up.
ErrorHasCause == [][error' # error => error' = error + 1 /\ missed' >= 2]_cyclic_vars

\* An answer that comes, now or later, shows the outputs.
Settled == wire = outputValue /\ (flight = "back" => answer = outputValue)

\* At most one answer since the outputs changed did not show them: the one
\* that set them.  So few cycles are out of step that the outputs do not change
\* before the inputs follow, unless frames are missed.
FewAsyncCycles ==
  /\ numAsyncCycles = UPDATE_DELAY - counter
  /\ numAsyncCycles <= missed + 1
  /\ numAsyncCycles = missed + 1 => Settled

\* What makes cyclic_task() tolerate a lost frame
InStep ==
  /\ sent = outputValue
  /\ flight = "back" => wire = outputValue
  /\ \/ missed >= 2
     \/ missed = 0 /\ numAsyncCycles = 0 /\ inputs = outputValue /\ Settled
     \/ inputs # outputValue /\ FewAsyncCycles

\* The inductive invariant behind ErrorHasCause
CyclicInv == CyclicTypeOK /\ InStep

\* A cable that is cut for good is noticed.
CutIsNoticed == <>[]cut => <>(error > 0)

\* Alarms go on being served: one that arrives between the test of the loop and
\* pause() is delayed until the next one, but main() never sleeps for good.
AlarmsServed == \A n \in 1 .. MAX_PENDING + 1 : pending = n ~> pending # n
=============================================================================
