------------------------- MODULE DriverClientProofs -------------------------
(***************************************************************************)
(* Theorems about the serial port under its two threads, for every number  *)
(* of reopens and every sequence of arrivals, failures and interleavings.  *)
(***************************************************************************)
EXTENDS DriverClient, SequenceTheorems, TLAPS

-----------------------------------------------------------------------------
(* The invariant *)

Closing == {"clear", "stop", "join", "close", "reopen"}

(* TypeOK, without the bound on the waiting reads, which ChainsBounded gives. *)
Types ==
  /\ phase \in {"new", "building", "running", "over"}
  /\ user \in {"out", "section"} \cup Closing
  /\ mutex \in BOOLEAN /\ reopening \in BOOLEAN /\ open \in BOOLEAN /\ reading \in BOOLEAN
  /\ stopped \in BOOLEAN
  /\ thread \in {"none", "running", "returned"}
  /\ io \in {"run", "insert", "again"}
  /\ waiting \in Nat
  /\ ready \in Seq({"data", "none"})
  /\ arrived \in 0 .. MaxChunks /\ read_buf = arrived
  /\ buffer \in Seq(0 .. MaxChunks)
  /\ opens \in 0 .. MaxOpens

(* Where the two threads can be with respect to each other *)
Owner ==
  /\ user \in {"close", "reopen"} \/ phase \in {"new", "over"} => thread = "none"
  /\ user = "reopen" \/ phase = "over" => ~ open
  /\ phase = "over" => user = "out"
  /\ phase \in {"new", "over"} \/ user \in Closing \ {"clear"} => ~ reading
  /\ phase = "new" => ~ reopening
  /\ phase = "new" /\ user = "out" => opens = 0
  /\ user = "section" => phase = "running"
  /\ user \in Closing /\ reopening => opens < MaxOpens /\ phase \in {"building", "running"}
  /\ user \in Closing /\ ~ reopening => phase \in {"new", "running"}
  /\ user = "reopen" => reopening
  /\ phase = "running" => (mutex <=> user = "section")

IoThread ==
  /\ thread = "none" => io = "run"
  /\ thread = "returned" => io = "run" /\ stopped
  /\ reading => /\ open /\ Running /\ ~ stopped
                /\ waiting > 0 \/ Len(ready) > 0 \/ io # "run"

(* A chunk that is read but not yet inserted *)
HasData == \E n \in 1 .. Len(ready) : ready[n] = "data"
Pending == io = "insert" \/ HasData

InOrder ==
  opens <= 1 =>
    /\ \A m, n \in 1 .. Len(buffer) : m < n => buffer[m] < buffer[n]
    /\ \A n \in 1 .. Len(buffer) : buffer[n] <= arrived /\ (Pending => buffer[n] < arrived)

ClientInv == Types /\ Owner /\ IoThread /\ ChainsBounded /\ InOrder

-----------------------------------------------------------------------------
(* The queue *)

Kinds == {"data", "none"}

(* A step adds d reads, takes no handler, and queues data as they arrive.  *)
QueueGrows(d) ==
  /\ waiting' \in Nat /\ ready' \in Seq(Kinds)
  /\ arrived' \in 0 .. MaxChunks /\ read_buf' = arrived' /\ arrived <= arrived'
  /\ waiting' + Len(ready') = waiting + Len(ready) + d
  /\ HasData' => HasData \/ arrived < arrived'

LEMMA Filled ==
  ASSUME NEW k \in Nat, NEW e \in Kinds
  PROVE  /\ [n \in 1 .. k |-> e] \in Seq(Kinds)
         /\ Len([n \in 1 .. k |-> e]) = k
         /\ \A n \in 1 .. k : [j \in 1 .. k |-> e][n] = e
OBVIOUS

LEMMA QueueStays ==
  ASSUME Types, UNCHANGED asioVars
  PROVE  QueueGrows(0)
<1>1. ready \in Seq(Kinds) /\ Len(ready) \in Nat
  BY LenProperties DEF Types, Kinds
<1> QED
  BY <1>1, ClientAssumption DEF Types, QueueGrows, HasData, asioVars

LEMMA StartReadGrows ==
  ASSUME Types, StartRead
  PROVE  QueueGrows(1) /\ waiting' + Len(ready') > 0
<1>0. ready \in Seq(Kinds) /\ Len(ready) \in Nat /\ waiting \in Nat
  BY LenProperties DEF Types, Kinds
<1>1. CASE /\ waiting' = waiting + 1
           /\ UNCHANGED <<ready, read_buf, arrived>>
  BY <1>0, <1>1, ClientAssumption DEF Types, QueueGrows, HasData
<1>2. CASE /\ waiting = 0 /\ arrived < MaxChunks
           /\ arrived' = arrived + 1 /\ read_buf' = arrived'
           /\ ready' = Append(ready, "data")
           /\ UNCHANGED waiting
  <2>1. ready' \in Seq(Kinds) /\ Len(ready') = Len(ready) + 1
    BY <1>0, <1>2, AppendProperties DEF Kinds
  <2> QED
    BY <1>0, <1>2, <2>1, ClientAssumption DEF Types, QueueGrows
<1> QED
  BY <1>1, <1>2 DEF StartRead

LEMMA ReactorGrows ==
  ASSUME Types, ReactorEvent
  PROVE  QueueGrows(0)
<1>0. ready \in Seq(Kinds) /\ Len(ready) \in Nat /\ waiting \in Nat
  BY LenProperties DEF Types, Kinds
<1>1. ASSUME NEW k \in 1 .. waiting,
             arrived + k <= MaxChunks,
             arrived' = arrived + k, read_buf' = arrived',
             ready' = ready \o [n \in 1 .. k |-> "data"],
             waiting' = waiting - k
      PROVE  QueueGrows(0)
  <2>1. ready' \in Seq(Kinds) /\ Len(ready') = Len(ready) + k
    BY <1>0, <1>1, Filled, ConcatProperties DEF Kinds
  <2> QED
    BY <1>0, <1>1, <2>1, ClientAssumption DEF Types, QueueGrows
<1>2. CASE /\ waiting > 0
           /\ ready' = Append(ready, "none")
           /\ waiting' = waiting - 1
           /\ UNCHANGED <<read_buf, arrived>>
  <2>1. /\ ready' \in Seq(Kinds) /\ Len(ready') = Len(ready) + 1
        /\ \A n \in 1 .. Len(ready) : ready'[n] = ready[n]
        /\ ready'[Len(ready) + 1] = "none"
    BY <1>0, <1>2, AppendProperties DEF Kinds
  <2>2. HasData' => HasData
    BY <1>0, <2>1 DEF HasData
  <2> QED
    BY <1>0, <1>2, <2>1, <2>2, ClientAssumption DEF Types, QueueGrows
<1> QED
  BY <1>1, <1>2 DEF ReactorEvent

LEMMA CloseGrows ==
  ASSUME Types, ClosePort
  PROVE  QueueGrows(0)
<1>0. ready \in Seq(Kinds) /\ Len(ready) \in Nat /\ waiting \in Nat
  BY LenProperties DEF Types, Kinds
<1>1. /\ ready' \in Seq(Kinds) /\ Len(ready') = Len(ready) + waiting
      /\ \A n \in 1 .. Len(ready') :
           ready'[n] = IF n <= Len(ready) THEN ready[n] ELSE "none"
  <2> DEFINE aborted == [n \in 1 .. waiting |-> "none"]
  <2>1. /\ aborted \in Seq(Kinds) /\ Len(aborted) = waiting
        /\ \A n \in 1 .. waiting : aborted[n] = "none"
    BY <1>0, Filled DEF Kinds
  <2>2. ready' = ready \o aborted
    BY DEF ClosePort
  <2> HIDE DEF aborted
  <2>3. /\ ready' \in Seq(Kinds) /\ Len(ready') = Len(ready) + waiting
        /\ \A n \in 1 .. Len(ready) + waiting :
             ready'[n] = IF n <= Len(ready) THEN ready[n] ELSE aborted[n - Len(ready)]
    BY <1>0, <2>1, <2>2, ConcatProperties
  <2> QED
    BY <1>0, <2>1, <2>3
<1>2. HasData' => HasData
  BY <1>0, <1>1 DEF HasData
<1> QED
  BY <1>0, <1>1, <1>2, ClientAssumption DEF ClosePort, Types, QueueGrows

-----------------------------------------------------------------------------
(* Induction: the types *)

LEMMA TypesNext ==
  ASSUME ClientInv, [Next]_vars
  PROVE  Types'
<1> USE ClientAssumption DEF ClientInv, Types, Closing, ownerVars
<1>0. ASSUME NEW d, QueueGrows(d)
      PROVE  /\ waiting' \in Nat /\ ready' \in Seq({"data", "none"})
             /\ arrived' \in 0 .. MaxChunks /\ read_buf' = arrived'
  BY <1>0 DEF QueueGrows, Kinds
<1>1. CASE InitPort
  <2>1. CASE OpenAndRead
    <3>1. QueueGrows(1)
      BY <2>1, StartReadGrows DEF OpenAndRead
    <3>2. opens' \in 0 .. MaxOpens
      BY <1>1, <2>1 DEF InitPort, OpenAndRead, Owner
    <3> QED
      BY <1>0, <1>1, <2>1, <3>1, <3>2 DEF InitPort, OpenAndRead, FailToOpen, FailOnOptions
  <2>2. CASE FailToOpen \/ FailOnOptions
    <3>1. opens' \in 0 .. MaxOpens
      BY <1>1, <2>2 DEF InitPort, FailToOpen, FailOnOptions, Owner
    <3> QED
      BY <1>1, <2>2, <3>1 DEF InitPort, FailToOpen, FailOnOptions, asioVars
  <2> QED
    BY <1>1, <2>1, <2>2 DEF InitPort
<1>2. CASE Reopen
  <2>1. CASE OpenAndRead
    <3>1. QueueGrows(1)
      BY <2>1, StartReadGrows DEF OpenAndRead
    <3>2. opens' \in 0 .. MaxOpens
      BY <1>2, <2>1 DEF Reopen, OpenAndRead, Owner
    <3> QED
      BY <1>0, <1>2, <2>1, <3>1, <3>2 DEF Reopen, OpenAndRead
  <2>2. CASE FailToOpen \/ FailOnOptions
    <3>1. opens' \in 0 .. MaxOpens
      BY <1>2, <2>2 DEF Reopen, FailToOpen, FailOnOptions, Owner
    <3> QED
      BY <1>2, <2>2, <3>1 DEF Reopen, FailToOpen, FailOnOptions, asioVars
  <2> QED
    BY <1>2, <2>1, <2>2 DEF Reopen
<1>3. CASE Built \/ EnterSection \/ LeaveSection \/ WriteFails \/ Finish
  BY <1>3 DEF Built, EnterSection, LeaveSection, WriteFails, Finish, asioVars
<1>4. CASE ClearReading \/ StopContext \/ Join
  BY <1>4 DEF ClearReading, StopContext, Join, asioVars
<1>5. CASE ClosePort
  <2>1. QueueGrows(0)
    BY <1>5, CloseGrows
  <2> QED
    BY <1>0, <1>5, <2>1 DEF ClosePort
<1>6. CASE TakeHandler
  BY <1>6, HeadTailProperties DEF TakeHandler
<1>7. CASE Insert
  <2>1. buffer' \in Seq(0 .. MaxChunks)
    BY <1>7, AppendProperties DEF Insert
  <2> QED
    BY <1>7, <2>1 DEF Insert, asioVars
<1>8. CASE Again
  <2>1. CASE reading
    <3>1. QueueGrows(1)
      BY <1>8, <2>1, StartReadGrows DEF Again
    <3> QED
      BY <1>0, <1>8, <3>1 DEF Again
  <2>2. CASE ~ reading
    BY <1>8, <2>2 DEF Again, asioVars
  <2> QED
    BY <2>1, <2>2
<1>9. CASE WaitForData
  <2>1. QueueGrows(0)
    BY <1>9, ReactorGrows DEF WaitForData
  <2> QED
    BY <1>0, <1>9, <2>1 DEF WaitForData
<1>10. CASE ReturnFromRun
  BY <1>10 DEF ReturnFromRun, asioVars
<1>11. CASE UNCHANGED vars
  BY <1>11 DEF vars, asioVars
<1> QED
  BY <1>1, <1>2, <1>3, <1>4, <1>5, <1>6, <1>7, <1>8, <1>9, <1>10, <1>11
     DEF Next, OwnerStep, ClosingStep, HandlerStep, Over

-----------------------------------------------------------------------------
(* Induction: where the threads are *)

LEMMA OwnerNext ==
  ASSUME ClientInv, [Next]_vars
  PROVE  Owner'
<1> USE ClientAssumption DEF ClientInv, Types, Closing, Owner, ownerVars
<1>1. CASE InitPort
  BY <1>1 DEF InitPort, OpenAndRead, FailToOpen, FailOnOptions
<1>2. CASE Reopen
  BY <1>2 DEF Reopen, OpenAndRead, FailToOpen, FailOnOptions
<1>3. CASE Built \/ EnterSection \/ LeaveSection
  BY <1>3 DEF Built, EnterSection, LeaveSection
<1>4. CASE WriteFails \/ Finish
  BY <1>4 DEF WriteFails, Finish
<1>5. CASE ClearReading \/ StopContext \/ Join
  BY <1>5 DEF ClearReading, StopContext, Join
<1>6. CASE ClosePort
  BY <1>6 DEF ClosePort
<1>7. CASE TakeHandler \/ Insert \/ Again \/ WaitForData \/ ReturnFromRun
  BY <1>7 DEF TakeHandler, Insert, Again, WaitForData, ReturnFromRun, Running
<1>8. CASE UNCHANGED vars
  BY <1>8 DEF vars
<1> QED
  BY <1>1, <1>2, <1>3, <1>4, <1>5, <1>6, <1>7, <1>8
     DEF Next, OwnerStep, ClosingStep, HandlerStep, Over

LEMMA IoThreadNext ==
  ASSUME ClientInv, [Next]_vars
  PROVE  IoThread'
<1> USE ClientAssumption DEF ClientInv, IoThread, Running, ownerVars
<1>0. Types /\ Owner /\ Types' /\ waiting \in Nat /\ Len(ready) \in Nat
  BY TypesNext, LenProperties DEF Types
<1>1. CASE InitPort \/ Reopen
  <2>1. CASE OpenAndRead
    <3>1. QueueGrows(1) /\ waiting' + Len(ready') > 0
      BY <1>0, <2>1, StartReadGrows DEF OpenAndRead
    <3>2. waiting' > 0 \/ Len(ready') > 0
      BY <3>1, LenProperties DEF QueueGrows
    <3> QED
      BY <1>0, <1>1, <2>1, <3>2 DEF InitPort, Reopen, OpenAndRead, Owner
  <2>2. CASE FailToOpen \/ FailOnOptions
    BY <1>0, <1>1, <2>2
       DEF InitPort, Reopen, FailToOpen, FailOnOptions, asioVars, Owner, Closing
  <2> QED
    BY <1>1, <2>1, <2>2 DEF InitPort, Reopen
<1>2. CASE Built \/ EnterSection \/ LeaveSection \/ WriteFails \/ Finish
  BY <1>2 DEF Built, EnterSection, LeaveSection, WriteFails, Finish, asioVars
<1>3. CASE ClearReading \/ StopContext \/ Join \/ ClosePort
  BY <1>0, <1>3 DEF ClearReading, StopContext, Join, ClosePort, asioVars, Owner, Closing
<1>4. CASE TakeHandler \/ Insert
  BY <1>0, <1>4 DEF TakeHandler, Insert, asioVars
<1>5. CASE Again
  <2>1. CASE reading
    <3>1. QueueGrows(1) /\ waiting' + Len(ready') > 0
      BY <1>0, <1>5, <2>1, StartReadGrows DEF Again
    <3>2. waiting' > 0 \/ Len(ready') > 0
      BY <3>1, LenProperties DEF QueueGrows
    <3> QED
      BY <1>5, <3>2 DEF Again
  <2>2. CASE ~ reading
    BY <1>5, <2>2 DEF Again
  <2> QED
    BY <2>1, <2>2
<1>6. CASE WaitForData
  <2>1. QueueGrows(0)
    BY <1>0, <1>6, ReactorGrows DEF WaitForData
  <2>2. Len(ready') \in Nat /\ waiting' \in Nat /\ waiting' + Len(ready') = waiting + Len(ready)
    BY <1>0, <2>1, LenProperties DEF QueueGrows
  <2> QED
    BY <1>0, <1>6, <2>2 DEF WaitForData
<1>7. CASE ReturnFromRun
  <2>1. ready = <<>> => Len(ready) = 0
    BY EmptySeq
  <2> QED
    BY <1>0, <1>7, <2>1 DEF ReturnFromRun, asioVars
<1>8. CASE UNCHANGED vars
  BY <1>8 DEF vars, asioVars
<1> QED
  BY <1>1, <1>2, <1>3, <1>4, <1>5, <1>6, <1>7, <1>8
     DEF Next, OwnerStep, ClosingStep, HandlerStep, Over

-----------------------------------------------------------------------------
(* Induction: the chains of reads and the order of the chunks *)

(* What every step does to the queue: it opens the port, it completes a    *)
(* read, or the chains stay as many as they are.                           *)
LEMMA ChainsNext ==
  ASSUME ClientInv, [Next]_vars
  PROVE  ChainsBounded'
<1> USE ClientAssumption DEF ClientInv, ChainsBounded, Chains, ownerVars
<1>0. /\ Types /\ Owner /\ IoThread /\ opens \in Nat /\ waiting \in Nat
      /\ Len(ready) \in Nat /\ ready \in Seq(Kinds)
  BY LenProperties DEF Types, Kinds
<1>1. CASE InitPort \/ Reopen
  <2>0. io' = io
    BY <1>1 DEF InitPort, Reopen, OpenAndRead, FailToOpen, FailOnOptions
  <2>1. CASE OpenAndRead
    <3>1. waiting' + Len(ready') = waiting + Len(ready) + 1
      BY <1>0, <2>1, StartReadGrows DEF OpenAndRead, QueueGrows
    <3> QED
      BY <1>0, <2>0, <2>1, <3>1 DEF OpenAndRead
  <2>2. CASE FailToOpen \/ FailOnOptions
    BY <1>0, <2>0, <2>2 DEF FailToOpen, FailOnOptions, asioVars
  <2> QED
    BY <1>1, <2>1, <2>2 DEF InitPort, Reopen
<1>2. CASE Built \/ EnterSection \/ LeaveSection \/ WriteFails \/ Finish
  BY <1>2 DEF Built, EnterSection, LeaveSection, WriteFails, Finish, asioVars
<1>3. CASE ClearReading \/ StopContext \/ Join \/ Insert \/ ReturnFromRun
  BY <1>0, <1>3 DEF ClearReading, StopContext, Join, Insert, ReturnFromRun, asioVars
<1>4. CASE ClosePort
  <2>1. waiting' + Len(ready') = waiting + Len(ready)
    BY <1>0, <1>4, CloseGrows DEF QueueGrows
  <2> QED
    BY <1>0, <1>4, <2>1 DEF ClosePort
<1>5. CASE TakeHandler
  <2>1. Len(ready') = Len(ready) - 1
    BY <1>0, <1>5, HeadTailProperties DEF TakeHandler
  <2> QED
    BY <1>0, <1>5, <2>1 DEF TakeHandler
<1>6. CASE Again
  <2>1. CASE reading
    <3>1. waiting' + Len(ready') = waiting + Len(ready) + 1
      BY <1>0, <1>6, <2>1, StartReadGrows DEF Again, QueueGrows
    <3> QED
      BY <1>0, <1>6, <3>1 DEF Again
  <2>2. CASE ~ reading
    BY <1>0, <1>6, <2>2 DEF Again, asioVars
  <2> QED
    BY <2>1, <2>2
<1>7. CASE WaitForData
  <2>1. waiting' + Len(ready') = waiting + Len(ready)
    BY <1>0, <1>7, ReactorGrows DEF WaitForData, QueueGrows
  <2> QED
    BY <1>0, <1>7, <2>1 DEF WaitForData
<1>8. CASE UNCHANGED vars
  BY <1>8 DEF vars, asioVars
<1> QED
  BY <1>1, <1>2, <1>3, <1>4, <1>5, <1>6, <1>7, <1>8
     DEF Next, OwnerStep, ClosingStep, HandlerStep, Over

(* Chunks that are not yet inserted are newer than all that are.           *)
LEMMA OrderKept ==
  ASSUME Types, InOrder, UNCHANGED buffer,
         opens' \in Nat, opens <= opens', arrived' \in Nat, arrived <= arrived',
         Pending' => Pending \/ arrived < arrived'
  PROVE  InOrder'
<1>1. \A n \in 1 .. Len(buffer) : buffer[n] \in Nat
  BY ElementOfSeq, ClientAssumption DEF Types
<1>2. opens \in Nat /\ arrived \in Nat
  BY ClientAssumption DEF Types
<1> QED
  BY <1>1, <1>2 DEF InOrder

LEMMA InOrderNext ==
  ASSUME ClientInv, [Next]_vars
  PROVE  InOrder'
<1> USE ClientAssumption DEF ClientInv, ownerVars
<1>0. /\ Types /\ Owner /\ Types' /\ ready \in Seq(Kinds) /\ Len(ready) \in Nat
      /\ opens \in Nat /\ opens' \in Nat /\ arrived \in Nat /\ arrived' \in Nat
  BY TypesNext, LenProperties DEF Types, Kinds
<1>g. ASSUME NEW d, QueueGrows(d), UNCHANGED buffer, opens <= opens',
             io' = "insert" => io = "insert"
      PROVE  InOrder'
  <2>1. arrived <= arrived' /\ (Pending' => Pending \/ arrived < arrived')
    BY <1>0, <1>g DEF QueueGrows, Pending
  <2> QED
    BY <1>0, <1>g, <2>1, OrderKept
<1>u. UNCHANGED asioVars => QueueGrows(0)
  BY <1>0, QueueStays
<1>1. CASE InitPort \/ Reopen
  <2>1. UNCHANGED <<buffer, io>> /\ opens <= opens'
    BY <1>0, <1>1 DEF InitPort, Reopen, OpenAndRead, FailToOpen, FailOnOptions
  <2>2. CASE OpenAndRead
    BY <1>0, <1>g, <2>1, <2>2, StartReadGrows DEF OpenAndRead
  <2>3. CASE FailToOpen \/ FailOnOptions
    BY <1>g, <1>u, <2>1, <2>3 DEF FailToOpen, FailOnOptions
  <2> QED
    BY <1>1, <2>2, <2>3 DEF InitPort, Reopen
<1>2. CASE Built \/ EnterSection \/ LeaveSection \/ WriteFails \/ Finish
  <2>1. UNCHANGED <<buffer, io, opens, asioVars>>
    BY <1>2 DEF Built, EnterSection, LeaveSection, WriteFails, Finish
  <2> QED
    BY <1>0, <1>g, <1>u, <2>1
<1>3. CASE ClearReading \/ StopContext \/ Join \/ ReturnFromRun
  <2>1. UNCHANGED <<buffer, io, opens, asioVars>>
    BY <1>3 DEF ClearReading, StopContext, Join, ReturnFromRun
  <2> QED
    BY <1>0, <1>g, <1>u, <2>1
<1>4. CASE ClosePort
  <2>1. UNCHANGED <<buffer, io, opens>>
    BY <1>4 DEF ClosePort
  <2>2. QueueGrows(0)
    BY <1>0, <1>4, CloseGrows
  <2> QED
    BY <1>0, <1>g, <2>1, <2>2
<1>5. CASE TakeHandler
  <2>1. /\ Len(ready) > 0 /\ Head(ready) = ready[1]
        /\ Len(ready') = Len(ready) - 1
        /\ \A n \in 1 .. Len(ready') : ready'[n] = ready[n + 1]
    BY <1>0, <1>5, HeadTailProperties, EmptySeq DEF TakeHandler
  <2>2. Pending' => Pending
    BY <1>0, <1>5, <2>1 DEF TakeHandler, Pending, HasData
  <2> QED
    BY <1>0, <1>5, <2>2, OrderKept DEF TakeHandler
<1>6. CASE Insert
  <2>1. /\ buffer \in Seq(0 .. MaxChunks) /\ Len(buffer) \in Nat
        /\ arrived \in 0 .. MaxChunks /\ read_buf = arrived
    BY <1>0, LenProperties DEF Types
  <2>2. /\ Len(buffer') = Len(buffer) + 1
        /\ \A n \in 1 .. Len(buffer) : buffer'[n] = buffer[n]
        /\ buffer'[Len(buffer) + 1] = arrived
    BY <1>6, <2>1, AppendProperties DEF Insert
  <2>3. \A n \in 1 .. Len(buffer) : buffer[n] \in Nat
    BY <2>1, ElementOfSeq
  <2>4. opens <= 1 => ~ Pending'
    <3>1. ASSUME opens <= 1 PROVE Len(ready) = 0
      BY <1>0, <1>6, <3>1 DEF Insert, ChainsBounded, Chains, Types
    <3> QED
      BY <1>6, <3>1 DEF Insert, Pending, HasData, asioVars
  <2>5. opens <= 1 => \A n \in 1 .. Len(buffer) : buffer[n] < arrived
    BY <1>6 DEF Insert, InOrder, Pending
  <2>6. ASSUME opens' <= 1
        PROVE  /\ \A m, n \in 1 .. Len(buffer') : m < n => buffer'[m] < buffer'[n]
               /\ \A n \in 1 .. Len(buffer') :
                    buffer'[n] <= arrived' /\ (Pending' => buffer'[n] < arrived')
    <3>1. opens' = opens /\ arrived' = arrived
      BY <1>6 DEF Insert, asioVars
    <3>2. \A n \in 1 .. Len(buffer') : n <= Len(buffer) \/ n = Len(buffer) + 1
      BY <2>1, <2>2
    <3>3. \A m, n \in 1 .. Len(buffer) : m < n => buffer[m] < buffer[n]
      BY <2>6, <3>1 DEF InOrder
    <3>4. ASSUME NEW m \in 1 .. Len(buffer'), NEW n \in 1 .. Len(buffer'), m < n
          PROVE  buffer'[m] < buffer'[n]
      <4>1. m \in 1 .. Len(buffer)
        BY <2>1, <2>2, <3>4
      <4>2. CASE n \in 1 .. Len(buffer)
        BY <2>2, <3>3, <3>4, <4>1, <4>2
      <4>3. CASE n = Len(buffer) + 1
        BY <2>2, <2>5, <2>6, <3>1, <4>1, <4>3
      <4> QED
        BY <2>1, <3>2, <3>4, <4>2, <4>3
    <3>5. ASSUME NEW n \in 1 .. Len(buffer')
          PROVE  buffer'[n] <= arrived'
      <4>1. CASE n \in 1 .. Len(buffer)
        BY <1>0, <2>2, <2>3, <2>5, <2>6, <3>1, <4>1
      <4>2. CASE n = Len(buffer) + 1
        BY <1>0, <2>2, <3>1, <4>2
      <4> QED
        BY <2>1, <3>2, <3>5, <4>1, <4>2
    <3>6. ~ Pending'
      BY <2>4, <2>6, <3>1
    <3> QED
      BY <3>4, <3>5, <3>6
  <2> QED
    BY <2>6 DEF InOrder
<1>7. CASE Again
  <2>1. CASE reading
    BY <1>0, <1>7, <1>g, <2>1, StartReadGrows DEF Again
  <2>2. CASE ~ reading
    BY <1>0, <1>7, <1>g, <1>u, <2>2 DEF Again
  <2> QED
    BY <2>1, <2>2
<1>8. CASE WaitForData
  BY <1>0, <1>8, <1>g, ReactorGrows DEF WaitForData
<1>9. CASE UNCHANGED vars
  <2>1. UNCHANGED <<buffer, io, opens, asioVars>>
    BY <1>9 DEF vars
  <2> QED
    BY <1>0, <1>g, <1>u, <2>1
<1> QED
  BY <1>1, <1>2, <1>3, <1>4, <1>5, <1>6, <1>7, <1>8, <1>9
     DEF Next, OwnerStep, ClosingStep, HandlerStep, Over

-----------------------------------------------------------------------------
(* The theorems *)

LEMMA ClientInvInit == Init => ClientInv
<1> SUFFICES ASSUME Init PROVE ClientInv
  OBVIOUS
<1>1. Types
  <2>1. <<>> \in Seq({"data", "none"}) /\ <<>> \in Seq(0 .. MaxChunks)
    BY EmptySeq
  <2>2. ready \in Seq({"data", "none"}) /\ buffer \in Seq(0 .. MaxChunks)
    BY <2>1, Zenon DEF Init
  <2>3. arrived \in 0 .. MaxChunks /\ opens \in 0 .. MaxOpens /\ waiting \in Nat
    BY ClientAssumption DEF Init
  <2> QED
    BY <2>2, <2>3 DEF Init, Types, Closing
<1>2. Owner /\ IoThread /\ ChainsBounded /\ InOrder
  BY EmptySeq, ClientAssumption DEF Init, Owner, IoThread, Closing, Running,
     ChainsBounded, Chains, InOrder
<1> QED
  BY <1>1, <1>2 DEF ClientInv

LEMMA ClientInvAlways == Spec => []ClientInv
<1>1. ASSUME ClientInv, [Next]_vars PROVE ClientInv'
  <2>1. Types' /\ Owner' /\ IoThread' /\ ChainsBounded' /\ InOrder'
    BY <1>1, TypesNext, OwnerNext, IoThreadNext, ChainsNext, InOrderNext
  <2> QED
    BY <2>1 DEF ClientInv
<1> QED
  BY <1>1, ClientInvInit, PTL DEF Spec

(* Every variable keeps its type, and never more reads wait than the port  *)
(* has been opened.                                                        *)
THEOREM ClientTypes == Spec => []TypeOK
<1>1. ASSUME ClientInv PROVE TypeOK
  <2>1. waiting \in 0 .. MaxOpens
    BY <1>1, LenProperties, ClientAssumption
       DEF ClientInv, Types, ChainsBounded, Chains
  <2> QED
    BY <1>1, <2>1 DEF ClientInv, Types, TypeOK, Closing
<1> QED
  BY <1>1, ClientInvAlways, PTL

(* A port that is being read has a live thread and a read under way, after *)
(* every number of reopens (init_port: restart, thread, first read).       *)
THEOREM PortAttended == Spec => []Attended
<1>1. ASSUME ClientInv PROVE Attended
  <2>1. Len(ready) > 0 => ready # <<>>
    BY EmptySeq
  <2> QED
    BY <1>1, <2>1 DEF ClientInv, IoThread, Attended
<1> QED
  BY <1>1, ClientInvAlways, PTL

(* Between close_port and the next init_port, and after the owner's end,   *)
(* nothing of the I/O thread is left and the port is closed.               *)
THEOREM ClosedIsQuiet == Spec => []Quiet
<1>1. ClientInv => Quiet
  BY DEF ClientInv, Owner, IoThread, Quiet
<1> QED
  BY <1>1, ClientInvAlways, PTL

(* Reopening the port may leave a chain of reads behind, but never more    *)
(* than one for each time the port was opened.                             *)
THEOREM OneChainPerOpen == Spec => []ChainsBounded
<1>1. ClientInv => ChainsBounded
  BY DEF ClientInv
<1> QED
  BY <1>1, ClientInvAlways, PTL

(* Until the first reopen every chunk enters buffer_ at most once, in the  *)
(* order of arrival.                                                       *)
THEOREM ChunksInOrder == Spec => []ReadOnce
<1>1. ASSUME ClientInv PROVE ReadOnce
  <2>1. DOMAIN buffer = 1 .. Len(buffer)
    BY <1>1, LenProperties DEF ClientInv, Types
  <2> QED
    BY <1>1, <2>1 DEF ClientInv, InOrder, ReadOnce
<1> QED
  BY <1>1, ClientInvAlways, PTL

(* The owner's thread never joins the I/O thread while it holds the mutex  *)
(* that the callback of a packet under way is waiting for.                 *)
THEOREM JoinHoldsNoLock == Spec => []NoLockCycle
<1>1. ClientInv => NoLockCycle
  BY DEF ClientInv, Owner, NoLockCycle, CallbackBlocked
<1> QED
  BY <1>1, ClientInvAlways, PTL
=============================================================================
