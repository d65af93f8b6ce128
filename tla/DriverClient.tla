---------------------------- MODULE DriverClient ----------------------------
(***************************************************************************)
(* The serial port of DDSM115DriverClient under its two threads: the       *)
(* owner's, which opens, closes and, when a write fails, reopens the port, *)
(* and the I/O thread, which runs the completion handlers of asynchronous  *)
(* reads (src/src/ddsm115_driver_client.cpp).                              *)
(*                                                                         *)
(* Boost.Asio is external.  What is used of it: a read waits in the        *)
(* reactor until data comes, and tries for data at once when no other read *)
(* waits; a completed read fills the buffer it was given and queues its    *)
(* handler; closing the port queues the handlers of the waiting reads with *)
(* an error; a stopped context keeps its queue; run() returns when the     *)
(* context is stopped or nothing is left to do, which stops it.            *)
(*                                                                         *)
(* Data come in numbered chunks.  All reads share one buffer, read_buf_.   *)
(***************************************************************************)
EXTENDS Integers, SequencesExt

CONSTANTS
  MaxOpens,    \* how often the port is opened (bound)
  MaxChunks,   \* chunks that arrive (bound)
  OptionsFail  \* whether setting an option of an open port may fail

ASSUME ClientAssumption ==
  /\ MaxOpens \in Nat \ {0}
  /\ MaxChunks \in Nat
  /\ OptionsFail \in BOOLEAN

VARIABLES
  phase,      \* the owner: constructing, building its handler, running, over
  user,       \* where the owner's thread is in the client
  mutex,      \* whether the owner's thread holds the handler's state_mutex_
  reopening,  \* whether init_port follows close_port
  open,       \* serial_port_.is_open()
  reading,    \* reading_
  stopped,    \* io_context_.stopped()
  thread,     \* io_thread_: not joinable, running, or returned from run()
  io,         \* where the I/O thread is
  waiting,    \* reads in the reactor
  ready,      \* handlers queued: of reads with data, or without
  read_buf,   \* the chunk in read_buf_
  arrived,    \* chunks that have arrived on an open port
  buffer,     \* history: the chunks inserted into buffer_
  opens       \* successful calls of open()

ownerVars == <<phase, mutex, reopening, opens>>
asioVars == <<waiting, ready, read_buf, arrived>>
vars == <<ownerVars, user, open, reading, stopped, thread, io, asioVars, buffer>>

-----------------------------------------------------------------------------
(* Asio *)

(* start_async_read with reading_ set *)
StartRead ==
  \/ /\ waiting' = waiting + 1
     /\ UNCHANGED <<ready, read_buf, arrived>>
  \/ /\ waiting = 0 /\ arrived < MaxChunks
     /\ arrived' = arrived + 1 /\ read_buf' = arrived'
     /\ ready' = Append(ready, "data")
     /\ UNCHANGED waiting

(* The reactor finds the port readable, or failing, and completes as many  *)
(* of the reads as there is something for.                                 *)
ReactorEvent ==
  /\ \/ \E k \in 1 .. waiting :
          /\ arrived + k <= MaxChunks
          /\ arrived' = arrived + k /\ read_buf' = arrived'
          /\ ready' = ready \o [n \in 1 .. k |-> "data"]
          /\ waiting' = waiting - k
     \/ /\ waiting > 0
        /\ ready' = Append(ready, "none")
        /\ waiting' = waiting - 1
        /\ UNCHANGED <<read_buf, arrived>>

-----------------------------------------------------------------------------
(* init_port, from open() to the return: no I/O thread exists meanwhile.   *)
FailToOpen == UNCHANGED <<open, reading, stopped, thread, io, asioVars, opens>>

FailOnOptions ==
  /\ OptionsFail
  /\ open' = TRUE /\ opens' = opens + 1
  /\ UNCHANGED <<reading, stopped, thread, io, asioVars>>

(* Mutant: the context is not restarted. *)
OpenAndRead_keeps_stopped ==
  /\ open' = TRUE /\ opens' = opens + 1
  /\ reading' = TRUE
  /\ StartRead
  /\ thread' = IF thread = "none" THEN "running" ELSE thread
  /\ UNCHANGED <<stopped, io>>

OpenAndRead ==
  /\ open' = TRUE /\ opens' = opens + 1
  /\ reading' = TRUE
  /\ StartRead
  /\ stopped' = FALSE
  /\ thread' = IF thread = "none" THEN "running" ELSE thread
  /\ UNCHANGED io

(* The owner's constructor opens the port, or throws and is destroyed.     *)
(* Then it constructs its handler, which holds the mutex throughout.       *)
InitPort ==
  /\ phase = "new" /\ user = "out"
  /\ \/ /\ OpenAndRead
        /\ phase' = "building" /\ mutex' = TRUE /\ user' = "out"
     \/ /\ FailToOpen \/ FailOnOptions
        /\ user' = "clear" /\ UNCHANGED <<phase, mutex>>
  /\ UNCHANGED <<reopening, buffer>>

(* reinitialize_port after the 500 ms: its result is ignored. *)
Reopen ==
  /\ user = "reopen"
  /\ OpenAndRead \/ FailToOpen \/ FailOnOptions
  /\ user' = "out"
  /\ UNCHANGED <<phase, mutex, reopening, buffer>>

(* The handler is complete and assigned to handler_. *)
Built ==
  /\ phase = "building" /\ user = "out"
  /\ phase' = "running" /\ mutex' = FALSE
  /\ UNCHANGED <<reopening, opens, user, open, reading, stopped, thread, io, asioVars,
                 buffer>>

(* The owner's thread in a section of the handler that takes the mutex.    *)
EnterSection ==
  /\ phase = "running" /\ user = "out"
  /\ user' = "section" /\ mutex' = TRUE
  /\ UNCHANGED <<phase, reopening, opens, open, reading, stopped, thread, io, asioVars,
                 buffer>>

LeaveSection ==
  /\ user = "section"
  /\ user' = "out" /\ mutex' = FALSE
  /\ UNCHANGED <<phase, reopening, opens, open, reading, stopped, thread, io, asioVars,
                 buffer>>

(* Mutant: a frame is sent from within such a section. *)
WriteFails_in_section ==
  /\ phase \in {"building", "running"} /\ user \in {"out", "section"}
  /\ open /\ opens < MaxOpens
  /\ user' = "clear" /\ reopening' = TRUE
  /\ UNCHANGED <<phase, mutex, opens, open, reading, stopped, thread, io, asioVars,
                 buffer>>

(* write_packet throws, in the handler's constructor or in a control cycle *)
(* between two sections: close and reopen. *)
WriteFails ==
  /\ phase \in {"building", "running"} /\ user = "out"
  /\ open /\ opens < MaxOpens
  /\ user' = "clear" /\ reopening' = TRUE
  /\ UNCHANGED <<phase, mutex, opens, open, reading, stopped, thread, io, asioVars,
                 buffer>>

(* The owner is destroyed. *)
Finish ==
  /\ phase = "running" /\ user = "out"
  /\ user' = "clear" /\ reopening' = FALSE
  /\ UNCHANGED <<phase, mutex, opens, open, reading, stopped, thread, io, asioVars,
                 buffer>>

(* close_port, one statement after the other *)
ClearReading ==
  /\ user = "clear"
  /\ reading' = FALSE
  /\ user' = "stop"
  /\ UNCHANGED <<ownerVars, open, stopped, thread, io, asioVars, buffer>>

(* Mutant: the thread is only told to end by the flag. *)
StopContext_by_flag ==
  /\ user = "stop"
  /\ user' = "join"
  /\ UNCHANGED <<ownerVars, open, reading, stopped, thread, io, asioVars, buffer>>

StopContext ==
  /\ user = "stop"
  /\ stopped' = TRUE
  /\ user' = "join"
  /\ UNCHANGED <<ownerVars, open, reading, thread, io, asioVars, buffer>>

(* Mutant: the thread is left to itself. *)
Join_detaches ==
  /\ user = "join"
  /\ user' = "close"
  /\ UNCHANGED <<ownerVars, open, reading, stopped, thread, io, asioVars, buffer>>

Join ==
  /\ user = "join" /\ thread \in {"none", "returned"}
  /\ thread' = "none"
  /\ user' = "close"
  /\ UNCHANGED <<ownerVars, open, reading, stopped, io, asioVars, buffer>>

ClosePort ==
  /\ user = "close"
  /\ open' = FALSE
  /\ ready' = ready \o [n \in 1 .. waiting |-> "none"]
  /\ waiting' = 0
  /\ user' = IF reopening THEN "reopen" ELSE "out"
  /\ phase' = IF reopening THEN phase ELSE "over"
  /\ UNCHANGED <<mutex, reopening, opens, reading, stopped, thread, io, read_buf,
                 arrived, buffer>>

-----------------------------------------------------------------------------
(* The I/O thread: run() and the handler of start_async_read *)

Running == thread = "running"

TakeHandler ==
  /\ Running /\ io = "run" /\ ~stopped /\ ready # <<>>
  /\ io' = IF Head(ready) = "data" THEN "insert" ELSE "again"
  /\ ready' = Tail(ready)
  /\ UNCHANGED <<ownerVars, user, open, reading, stopped, thread, waiting, read_buf,
                 arrived, buffer>>

(* Mutant: the next read starts before the chunk is taken from read_buf_. *)
Insert_reads_first ==
  /\ Running /\ io = "insert"
  /\ IF reading THEN StartRead ELSE UNCHANGED asioVars
  /\ buffer' = Append(buffer, read_buf')
  /\ io' = "run"
  /\ UNCHANGED <<ownerVars, user, open, reading, stopped, thread>>

(* The chunk is appended and parsed; a packet goes to the owner's callback,*)
(* which takes the handler's mutex once there is a handler to call.        *)
CallbackBlocked == phase = "running" /\ mutex

Insert ==
  /\ Running /\ io = "insert"
  /\ ~CallbackBlocked
  /\ buffer' = Append(buffer, read_buf)
  /\ io' = "again"
  /\ UNCHANGED <<ownerVars, user, open, reading, stopped, thread, asioVars>>

(* Mutant: the handler starts a read, and so does its caller. *)
Again_twice ==
  /\ Running /\ io = "again"
  /\ waiting' = IF reading THEN waiting + 2 ELSE waiting
  /\ io' = "run"
  /\ UNCHANGED <<ownerVars, user, open, reading, stopped, thread, ready, read_buf,
                 arrived, buffer>>

Again ==
  /\ Running /\ io = "again"
  /\ IF reading THEN StartRead ELSE UNCHANGED asioVars
  /\ io' = "run"
  /\ UNCHANGED <<ownerVars, user, open, reading, stopped, thread, buffer>>

WaitForData ==
  /\ Running /\ io = "run" /\ ~stopped /\ ready = <<>>
  /\ ReactorEvent
  /\ UNCHANGED <<ownerVars, user, open, reading, stopped, thread, io, buffer>>

ReturnFromRun ==
  /\ Running /\ io = "run"
  /\ stopped \/ (ready = <<>> /\ waiting = 0)
  /\ stopped' = TRUE
  /\ thread' = "returned"
  /\ UNCHANGED <<ownerVars, user, open, reading, io, asioVars, buffer>>

Over == phase = "over" /\ UNCHANGED vars

-----------------------------------------------------------------------------
Init ==
  /\ phase = "new" /\ user = "out" /\ mutex = FALSE
  /\ reopening = FALSE /\ opens = 0
  /\ open = FALSE /\ reading = FALSE
  /\ stopped = FALSE /\ thread = "none" /\ io = "run"
  /\ waiting = 0 /\ ready = <<>> /\ read_buf = 0 /\ arrived = 0
  /\ buffer = <<>>

ClosingStep == Reopen \/ ClearReading \/ StopContext \/ Join \/ ClosePort

OwnerStep ==
  \/ InitPort \/ Built \/ EnterSection \/ LeaveSection \/ WriteFails \/ Finish
  \/ ClosingStep

HandlerStep == TakeHandler \/ Insert \/ Again \/ ReturnFromRun

Next == OwnerStep \/ HandlerStep \/ WaitForData \/ Over

Spec == Init /\ [][Next]_vars

(* Both threads are scheduled.  Nobody has to send data, write or finish.  *)
FairSpec == Spec /\ WF_vars(ClosingStep) /\ WF_vars(HandlerStep)

-----------------------------------------------------------------------------
(* Properties *)

TypeOK ==
  /\ phase \in {"new", "building", "running", "over"}
  /\ user \in {"out", "section", "clear", "stop", "join", "close", "reopen"}
  /\ mutex \in BOOLEAN /\ reopening \in BOOLEAN /\ open \in BOOLEAN /\ reading \in BOOLEAN
  /\ stopped \in BOOLEAN
  /\ thread \in {"none", "running", "returned"}
  /\ io \in {"run", "insert", "again"}
  /\ waiting \in 0 .. MaxOpens
  /\ ready \in Seq({"data", "none"})
  /\ read_buf \in 0 .. MaxChunks /\ arrived \in 0 .. MaxChunks
  /\ buffer \in Seq(0 .. MaxChunks)
  /\ opens \in 0 .. MaxOpens

(* A client that is reading has a thread that runs and a read under way,   *)
(* however often the port was reopened.                                    *)
Attended ==
  user = "out" /\ reading
    => /\ open /\ Running /\ ~stopped
       /\ waiting > 0 \/ ready # <<>> \/ io # "run"

(* After close_port no handler runs any more, so that nothing calls back   *)
(* into an owner that is being destroyed, and init_port is alone.          *)
Quiet ==
  user = "reopen" \/ phase = "over" => thread = "none" /\ io = "run" /\ ~open

(* Every open adds at most one chain of reads. *)
Chains == waiting + Len(ready) + (IF io = "run" THEN 0 ELSE 1)
ChainsBounded == Chains <= opens

(* Until the port is reopened for the first time, every chunk enters the   *)
(* buffer once and in order.                                               *)
ReadOnce ==
  opens <= 1 => \A m, n \in DOMAIN buffer : m < n => buffer[m] < buffer[n]

(* What the diagnostics take an open port for (communication active). *)
OpenMeansActive == user = "out" /\ phase # "over" /\ open => reading

(* The thread that joins the I/O thread never holds the mutex that a       *)
(* callback under way is waiting for.                                      *)
NoLockCycle == user = "join" /\ io = "insert" => ~CallbackBlocked

(* close_port returns, even if no more data come. *)
CloseReturns == user = "join" ~> user # "join"
=============================================================================
