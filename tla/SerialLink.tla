----------------------------- MODULE SerialLink -----------------------------
(***************************************************************************)
(* SerialCommsPosix, the serial port object, and SerialWorker, the thread  *)
(* that reads from it: the owner's thread opens and closes the port and    *)
(* starts and stops the worker while the reader is anywhere in read(), and *)
(* other parts of the process open and close files of their own, so the    *)
(* kernel may hand out a descriptor number again while the reader still    *)
(* remembers it.                                                           *)
(*                                                                         *)
(* A section that holds m_handleMutex is one step.                         *)
(***************************************************************************)
EXTENDS Integers, FiniteSets

CONSTANTS
    Descriptors,   \* the numbers the kernel may hand out, a finite set of naturals
    MaxOpens,      \* bound: files opened, by the port or by others
    MaxSelfStops   \* bound: calls of stop() the callbacks of one thread make

ASSUME DescriptorAssumption == Descriptors \subseteq Nat /\ IsFiniteSet(Descriptors)
ASSUME BoundAssumption == MaxOpens \in Nat /\ MaxSelfStops \in Nat

VARIABLES
    \* The kernel's table: which open file a number stands for.
    table,       \* an open file, or NoFile
    opens,       \* files opened so far
    ours,        \* those the port opened
    \* SerialCommsPosix
    fd,          \* m_fd
    generation,  \* m_generation
    \* SerialWorker
    running,     \* m_running
    stopRequested,  \* the stop token of the thread
    pc,          \* the reader thread: where it is, "none" or "exited"
    \* Local variables of read() and run()
    readFd, readGeneration,
    revents,     \* what poll() reported
    result,      \* what read() returned: "data", "none" or "error"
    \* The owner's thread
    owner,       \* "free", or waiting in "stop" or "start"
    \* History
    readFile,    \* the file the port stood for when the present read() began
    source,      \* the file the data of the present read() came from
    closedForeign,  \* the port closed a file that was not its own
    selfStops       \* calls of stop() the callbacks of the present thread made

tableVars  == <<table, opens, ours>>
portVars   == <<fd, generation, closedForeign>>
workerVars == <<running, stopRequested, selfStops>>
readVars   == <<readFd, readGeneration, revents, result, readFile, source>>
vars == <<tableVars, portVars, workerVars, readVars, pc, owner>>

NoFile == 0
NoFd == -1

Free(d) == table[d] = NoFile

\* The kernel hands out the lowest free number of a table.
LowestFree(t, d) == t[d] = NoFile /\ \A e \in Descriptors : t[e] = NoFile => d <= e

Init ==
    /\ table = [d \in Descriptors |-> NoFile] /\ opens = 0 /\ ours = {}
    /\ fd = NoFd /\ generation = 0 /\ closedForeign = FALSE
    /\ running = FALSE /\ stopRequested = FALSE /\ selfStops = 0
    /\ pc = "none"
    /\ readFd = NoFd /\ readGeneration = 0 /\ revents = {} /\ result = "none"
    /\ readFile = NoFile /\ source = NoFile
    /\ owner = "free"

-----------------------------------------------------------------------------
(***************************************************************************)
(* The port object.                                                        *)
(***************************************************************************)

\* ::close(d) with m_fd and m_generation updated before it.
CloseNumber(d) ==
    /\ table' = [table EXCEPT ![d] = NoFile]
    /\ closedForeign' = (closedForeign \/ table[d] \notin ours)
    /\ fd' = NoFd
    /\ generation' = generation + 1
    /\ UNCHANGED <<opens, ours>>

\* close()
ClosePort == IF fd = NoFd THEN UNCHANGED <<tableVars, portVars>> ELSE CloseNumber(fd)

\* open(): an open port is closed first, so its number may come back at once.
OpenPort ==
    \/ ClosePort
    \/ \E d \in Descriptors :
          LET closed == IF fd = NoFd THEN table ELSE [table EXCEPT ![fd] = NoFile]
          IN  /\ opens < MaxOpens
              /\ LowestFree(closed, d)
              /\ table' = [closed EXCEPT ![d] = opens + 1]
              /\ opens' = opens + 1
              /\ ours' = ours \cup {opens + 1}
              /\ fd' = d
              /\ generation' = generation + (IF fd = NoFd THEN 1 ELSE 2)
              /\ UNCHANGED closedForeign

\* Some other part of the process opens or closes a file.
OthersOpen(d) ==
    /\ opens < MaxOpens
    /\ LowestFree(table, d)
    /\ table' = [table EXCEPT ![d] = opens + 1]
    /\ opens' = opens + 1
    /\ UNCHANGED <<ours, portVars, workerVars, readVars, pc, owner>>

OthersClose(d) ==
    /\ ~Free(d) /\ table[d] \notin ours
    /\ table' = [table EXCEPT ![d] = NoFile]
    /\ UNCHANGED <<opens, ours, portVars, workerVars, readVars, pc, owner>>

-----------------------------------------------------------------------------
(***************************************************************************)
(* SerialWorker::run and SerialCommsPosix::read, on the reader thread.     *)
(***************************************************************************)

\* The loop condition.
LoopTest ==
    /\ pc = "loop"
    /\ pc' = IF stopRequested THEN "ending" ELSE "reading"
    /\ UNCHANGED <<tableVars, portVars, workerVars, readVars, owner>>

\* read() remembers the descriptor and its generation.
BeginRead ==
    /\ pc = "reading"
    /\ readFd' = fd /\ readGeneration' = generation
    /\ readFile' = IF fd = NoFd THEN NoFile ELSE table[fd]
    /\ source' = NoFile
    /\ result' = "error"
    /\ pc' = IF fd = NoFd THEN "returned" ELSE "polling"
    /\ UNCHANGED <<tableVars, portVars, workerVars, revents, owner>>

\* poll() waits without the lock.  It times out or fails, or reports whatever the
\* file now behind the number has to say, or that there is none.
Poll ==
    /\ pc = "polling"
    /\ \/ result' \in {"none", "error"} /\ revents' = {} /\ pc' = "returned"
       \/ /\ revents' \in (SUBSET {"in", "terminal"}) \ {{}}
          /\ Free(readFd) => revents' = {"terminal"}
          /\ pc' = IF "in" \in revents' THEN "readable" ELSE "terminal"
          /\ UNCHANGED result
    /\ UNCHANGED <<tableVars, portVars, workerVars, readFd, readGeneration, readFile,
                   source, owner>>

Bug_SameConnectionByNumber == fd = readFd

\* The connection is still the one read() began with.
SameConnection == fd = readFd /\ generation = readGeneration

\* POLLIN: the bytes are taken under the lock, or the read was cancelled.
ReadBytes ==
    /\ pc = "readable"
    /\ \/ /\ ~SameConnection
          /\ result' = "error" /\ pc' = "returned"
          /\ UNCHANGED source
       \/ /\ SameConnection
          /\ result' = "data" /\ pc' = "returned"
          /\ source' = table[readFd]
       \/ /\ SameConnection
          /\ IF "terminal" \in revents
             THEN result' = "error" /\ pc' = "terminal"
             ELSE result' \in {"none", "error"} /\ pc' = "returned"
          /\ UNCHANGED source
    /\ UNCHANGED <<tableVars, portVars, workerVars, readFd, readGeneration, revents,
                   readFile, owner>>

\* A terminal event closes the port, if it still is that connection.
HangUp ==
    /\ pc = "terminal"
    /\ IF SameConnection THEN CloseNumber(readFd) ELSE UNCHANGED <<tableVars, portVars>>
    /\ result' = "error"
    /\ pc' = "returned"
    /\ UNCHANGED <<workerVars, readFd, readGeneration, revents, readFile, source, owner>>

\* After read(): the stop token again, then the three kinds of answer.
AfterRead ==
    /\ pc = "returned"
    /\ pc' = IF stopRequested THEN "ending"
             ELSE IF result = "error" THEN "failing"
             ELSE IF result = "data" THEN "callback" ELSE "loop"
    /\ UNCHANGED <<tableVars, portVars, workerVars, readVars, owner>>

\* The data callback returns, or throws.
CallbackEnds ==
    /\ pc = "callback"
    /\ pc' \in {"loop", "failing"}
    /\ UNCHANGED <<tableVars, portVars, workerVars, readVars, owner>>

Bug_CallbackOnlyClosesPort ==
    /\ pc \in {"callback", "failing"}
    /\ selfStops < MaxSelfStops
    /\ owner # "start"
    /\ running' = FALSE /\ selfStops' = selfStops + 1
    /\ ClosePort
    /\ UNCHANGED <<stopRequested, readVars, pc, owner>>

\* The data callback, or the error callback, calls stop(), which on the
\* reader's own thread closes the port and returns without joining ...
CallbackStops ==
    /\ pc \in {"callback", "failing"}
    /\ selfStops < MaxSelfStops
    /\ owner # "start"
    /\ running' = FALSE /\ stopRequested' = TRUE /\ selfStops' = selfStops + 1
    /\ ClosePort
    /\ UNCHANGED <<readVars, pc, owner>>

\* ... unless start() holds m_lifecycleMutex, as it does while it joins: then the
\* callback waits for that mutex.
CallbackBlocks ==
    /\ pc \in {"callback", "failing"}
    /\ selfStops < MaxSelfStops
    /\ owner = "start"
    /\ pc' = "blocked"
    /\ UNCHANGED <<tableVars, portVars, workerVars, readVars, owner>>

\* The error is reported, then the port closed, and the loop left.
Fail ==
    /\ pc = "failing"
    /\ ClosePort
    /\ pc' = "ending"
    /\ UNCHANGED <<workerVars, readVars, owner>>

End ==
    /\ pc = "ending"
    /\ running' = FALSE
    /\ pc' = "exited"
    /\ UNCHANGED <<tableVars, portVars, stopRequested, selfStops, readVars, owner>>

-----------------------------------------------------------------------------
(***************************************************************************)
(* The owner's thread.                                                     *)
(***************************************************************************)

OwnerOpens ==
    /\ owner = "free"
    /\ OpenPort
    /\ UNCHANGED <<workerVars, readVars, pc, owner>>

OwnerCloses ==
    /\ owner = "free" /\ fd # NoFd
    /\ ClosePort
    /\ UNCHANGED <<workerVars, readVars, pc, owner>>

\* start() on a worker that has a thread which is not running any more joins it.
StartJoins ==
    /\ owner = "free" /\ pc # "none" /\ ~running
    /\ owner' = "start"
    /\ UNCHANGED <<tableVars, portVars, workerVars, readVars, pc>>

\* start() needs an open port and a thread, which has a new stop token.
Start ==
    /\ \/ owner = "free" /\ pc = "none"
       \/ owner = "start" /\ pc = "exited"
    /\ owner' = "free"
    /\ \/ /\ fd # NoFd
          /\ pc' = "loop"
          /\ running' = TRUE /\ stopRequested' = FALSE /\ selfStops' = 0
       \/ pc' = "none" /\ UNCHANGED workerVars
    /\ UNCHANGED <<tableVars, portVars, readVars>>

Bug_StopDoesNotRequest ==
    /\ owner = "free" /\ pc # "none"
    /\ running' = FALSE
    /\ owner' = "stop"
    /\ UNCHANGED <<tableVars, portVars, stopRequested, selfStops, readVars, pc>>

\* stop() from the owner's thread: request, close, then join.
Stop ==
    /\ owner = "free" /\ pc # "none"
    /\ running' = FALSE /\ stopRequested' = TRUE
    /\ ClosePort
    /\ owner' = "stop"
    /\ UNCHANGED <<selfStops, readVars, pc>>

StopReturns ==
    /\ owner = "stop" /\ pc = "exited"
    /\ owner' = "free"
    /\ pc' = "none"
    /\ UNCHANGED <<tableVars, portVars, workerVars, readVars>>

-----------------------------------------------------------------------------

ReaderStep ==
    \/ LoopTest
    \/ BeginRead
    \/ Poll
    \/ ReadBytes
    \/ HangUp
    \/ AfterRead
    \/ CallbackEnds
    \/ Fail
    \/ End

OwnerStep == OwnerOpens \/ OwnerCloses \/ StartJoins \/ Start \/ Stop \/ StopReturns

Next ==
    \/ ReaderStep
    \/ CallbackStops
    \/ CallbackBlocks
    \/ OwnerStep
    \/ \E d \in Descriptors : OthersOpen(d) \/ OthersClose(d)

\* The reader runs and its callbacks return, and a join returns once the thread
\* has exited.  Nothing obliges the owner to call anything.
Fairness ==
    /\ WF_vars(ReaderStep)
    /\ WF_vars(StopReturns)
    /\ WF_vars(owner = "start" /\ Start)

Spec == Init /\ [][Next]_vars /\ Fairness

-----------------------------------------------------------------------------

TypeOK ==
    /\ table \in [Descriptors -> 0..MaxOpens]
    /\ opens \in 0..MaxOpens /\ ours \in SUBSET (1..MaxOpens)
    /\ fd \in Descriptors \cup {NoFd} /\ readFd \in Descriptors \cup {NoFd}
    /\ generation \in Nat /\ readGeneration \in 0..generation
    /\ readFile \in 0..MaxOpens /\ source \in 0..MaxOpens
    /\ running \in BOOLEAN /\ stopRequested \in BOOLEAN /\ selfStops \in 0..MaxSelfStops
    /\ revents \in SUBSET {"in", "terminal"} /\ result \in {"data", "none", "error"}
    /\ closedForeign \in BOOLEAN
    /\ pc \in {"none", "loop", "reading", "polling", "readable", "terminal", "returned",
               "callback", "failing", "blocked", "ending", "exited"}
    /\ owner \in {"free", "stop", "start"}

\* The port's descriptor always stands for the file the port opened last, every
\* earlier one is closed, and the port never closes a number that has meanwhile
\* been given to somebody else.
PortOwnsItsDescriptor ==
    /\ ~closedForeign
    /\ {f \in ours : \E d \in Descriptors : table[d] = f}
          = IF fd = NoFd THEN {} ELSE {table[fd]}

\* The bytes the reader hands on come from the connection its read() began on:
\* a descriptor closed during poll() is never mistaken for one that reuses the
\* number.
ReadsItsOwnConnection == result = "data" => source = readFile /\ source \in ours

\* SerialCommsPosix: a descriptor number that the kernel hands out again is never
\* taken for the connection it stood for before.
FilesAreItsOwn == PortOwnsItsDescriptor /\ ReadsItsOwnConnection

\* After a callback has stopped the worker, the reader hands on no more data.
SilentAfterSelfStop == [][pc' = "callback" /\ pc # "callback" => selfStops = 0]_vars

\* stop() returns, and so does a start() that joins, wherever the reader is.
JoinsReturn == owner # "free" ~> owner = "free"

\* They do, unless a callback of the thread that start() joins waits for the
\* mutex start() holds.
JoinsReturnUnlessBlocked == owner # "free" ~> owner = "free" \/ pc = "blocked"

=============================================================================
