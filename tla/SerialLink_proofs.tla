-------------------------- MODULE SerialLink_proofs --------------------------
(***************************************************************************)
(* Proofs about SerialLink, for every set of descriptor numbers and every  *)
(* bound: type correctness, the port's exclusive hold on its descriptor,   *)
(* the origin of the bytes the reader hands on, and the silence after a    *)
(* callback's stop.                                                        *)
(*                                                                         *)
(* The inductive invariant has three parts: what holds of the port and the *)
(* kernel's table whoever moves, what a read() in progress may still rely  *)
(* on, and what a callback's stop leaves behind.                           *)
(***************************************************************************)
EXTENDS SerialLink, TLAPS

\* The port's own descriptor stands for a file the port opened, no other number
\* does, and files are numbered as they are opened.
PortInv ==
    /\ table \in [Descriptors -> 0..MaxOpens]
    /\ opens \in 0..MaxOpens
    /\ ours \in SUBSET (1..opens)
    /\ fd \in Descriptors \cup {NoFd}
    /\ generation \in Nat
    /\ closedForeign = FALSE
    /\ \A d \in Descriptors : table[d] <= opens
    /\ fd # NoFd => table[fd] \in ours
    /\ \A d \in Descriptors : table[d] \in ours => d = fd

\* While the generation a read() remembers is the present one, its descriptor is
\* the port's and stands for the file it began with.
ReadInv ==
    /\ readFd \in Descriptors \cup {NoFd}
    /\ readGeneration \in 0..generation
    /\ readFile \in 0..MaxOpens /\ source \in 0..MaxOpens
    /\ revents \in SUBSET {"in", "terminal"}
    /\ result \in {"data", "none", "error"}
    /\ pc \in {"polling", "readable", "terminal"} /\ readGeneration = generation =>
          fd = readFd /\ fd # NoFd /\ table[fd] = readFile
    /\ result = "data" => source = readFile /\ source \in ours

ThreadInv ==
    /\ running \in BOOLEAN /\ stopRequested \in BOOLEAN /\ selfStops \in 0..MaxSelfStops
    /\ pc \in {"none", "loop", "reading", "polling", "readable", "terminal", "returned",
               "callback", "failing", "blocked", "ending", "exited"}
    /\ owner \in {"free", "stop", "start"}
    /\ selfStops > 0 => stopRequested

IInv == PortInv /\ ReadInv /\ ThreadInv

\* What every step of the port guarantees a reader: generations never go back,
\* and in one generation the descriptor and its file stay the same.
Progressed ==
    /\ ours \subseteq ours'
    /\ generation <= generation'
    /\ generation' = generation =>
          fd' = fd /\ (fd # NoFd => table'[fd] = table[fd])

-----------------------------------------------------------------------------

\* The inductive invariant implies what the runs check.
LEMMA IInvImplies == IInv => TypeOK /\ PortOwnsItsDescriptor /\ ReadsItsOwnConnection
<1> SUFFICES ASSUME IInv PROVE TypeOK /\ PortOwnsItsDescriptor /\ ReadsItsOwnConnection
  OBVIOUS
<1> USE DescriptorAssumption, BoundAssumption
<1>1. TypeOK
  <2>1. ours \in SUBSET (1..MaxOpens)
    BY DEF IInv, PortInv
  <2>2. closedForeign \in BOOLEAN
    BY DEF IInv, PortInv
  <2>3. /\ table \in [Descriptors -> 0..MaxOpens]
        /\ opens \in 0..MaxOpens
        /\ fd \in Descriptors \cup {NoFd}
        /\ generation \in Nat
    BY DEF IInv, PortInv
  <2>4. /\ readFd \in Descriptors \cup {NoFd}
        /\ readGeneration \in 0..generation
        /\ readFile \in 0..MaxOpens /\ source \in 0..MaxOpens
        /\ revents \in SUBSET {"in", "terminal"}
        /\ result \in {"data", "none", "error"}
    BY DEF IInv, ReadInv
  <2> QED
    BY <2>1, <2>2, <2>3, <2>4 DEF IInv, ThreadInv, TypeOK
<1>2. PortOwnsItsDescriptor
  <2>1. CASE fd = NoFd
    <3>1. \A d \in Descriptors : table[d] \notin ours
      BY <2>1 DEF IInv, PortInv, NoFd
    <3> QED
      BY <2>1, <3>1 DEF IInv, PortInv, PortOwnsItsDescriptor
  <2>2. CASE fd # NoFd
    <3>1. fd \in Descriptors /\ table[fd] \in ours
      BY <2>2 DEF IInv, PortInv
    <3>2. {f \in ours : \E d \in Descriptors : table[d] = f} = {table[fd]}
      BY <3>1 DEF IInv, PortInv
    <3> QED
      BY <2>2, <3>2 DEF IInv, PortInv, PortOwnsItsDescriptor
  <2> QED
    BY <2>1, <2>2
<1>3. ReadsItsOwnConnection
  BY DEF IInv, ReadInv, ReadsItsOwnConnection
<1> QED
  BY <1>1, <1>2, <1>3

LEMMA InitIInv == Init => IInv
<1> SUFFICES ASSUME Init PROVE IInv
  OBVIOUS
<1> USE DescriptorAssumption, BoundAssumption DEF NoFd, NoFile
<1>1. PortInv
  BY DEF Init, PortInv
<1>2. ReadInv
  BY DEF Init, ReadInv
<1>3. selfStops \in 0..MaxSelfStops /\ ~(selfStops > 0)
  BY DEF Init
<1>4. ThreadInv
  BY <1>3 DEF Init, ThreadInv
<1> QED
  BY <1>1, <1>2, <1>4 DEF IInv

\* A step that leaves the port and the table alone.
LEMMA PortUnchanged ==
  ASSUME PortInv, UNCHANGED <<tableVars, portVars>>
  PROVE  PortInv' /\ Progressed
  BY DEF PortInv, Progressed, tableVars, portVars

\* Closing the port's descriptor, whoever does it.
LEMMA CloseNumberStep ==
  ASSUME PortInv, fd # NoFd, CloseNumber(fd)
  PROVE  PortInv' /\ Progressed
<1> USE DescriptorAssumption, BoundAssumption DEF NoFd, NoFile
<1>1. fd \in Descriptors /\ table[fd] \in ours
  BY DEF PortInv
<1>2. table' \in [Descriptors -> 0..MaxOpens]
  BY <1>1 DEF PortInv, CloseNumber
<1>3. \A d \in Descriptors : table'[d] = IF d = fd THEN 0 ELSE table[d]
  BY <1>1 DEF PortInv, CloseNumber
<1>4. closedForeign' = FALSE /\ fd' = -1 /\ generation' = generation + 1
      /\ opens' = opens /\ ours' = ours
  BY <1>1 DEF PortInv, CloseNumber
<1>5. \A d \in Descriptors : table'[d] \notin ours'
  BY <1>1, <1>3, <1>4 DEF PortInv
<1>6. \A d \in Descriptors : table'[d] <= opens'
  BY <1>3, <1>4 DEF PortInv
<1> QED
  BY <1>2, <1>4, <1>5, <1>6 DEF PortInv, Progressed

\* close(), on an open port or a closed one.
LEMMA ClosePortStep ==
  ASSUME PortInv, ClosePort
  PROVE  PortInv' /\ Progressed
<1>1. CASE fd = NoFd
  BY <1>1, PortUnchanged DEF ClosePort
<1>2. CASE fd # NoFd
  BY <1>2, CloseNumberStep DEF ClosePort
<1> QED
  BY <1>1, <1>2

\* open(), which closes an open port first.
LEMMA OpenPortStep ==
  ASSUME PortInv, OpenPort
  PROVE  PortInv' /\ Progressed
<1> USE DescriptorAssumption, BoundAssumption DEF NoFd, NoFile
<1> DEFINE closed == IF fd = NoFd THEN table ELSE [table EXCEPT ![fd] = NoFile]
<1>1. CASE ClosePort
  BY <1>1, ClosePortStep
<1>2. CASE \E d \in Descriptors :
             /\ opens < MaxOpens
             /\ LowestFree(closed, d)
             /\ table' = [closed EXCEPT ![d] = opens + 1]
             /\ opens' = opens + 1
             /\ ours' = ours \cup {opens + 1}
             /\ fd' = d
             /\ generation' = generation + (IF fd = NoFd THEN 1 ELSE 2)
             /\ UNCHANGED closedForeign
  <2>1. PICK d \in Descriptors :
             /\ opens < MaxOpens
             /\ table' = [closed EXCEPT ![d] = opens + 1]
             /\ opens' = opens + 1
             /\ ours' = ours \cup {opens + 1}
             /\ fd' = d
             /\ generation' = generation + (IF fd = NoFd THEN 1 ELSE 2)
             /\ UNCHANGED closedForeign
    BY <1>2
  <2>2. closed \in [Descriptors -> 0..MaxOpens]
    BY DEF PortInv
  <2>3. \A e \in Descriptors : closed[e] \notin ours /\ closed[e] <= opens
    BY DEF PortInv
  <2>4. \A e \in Descriptors : table'[e] = IF e = d THEN opens + 1 ELSE closed[e]
    BY <2>1, <2>2
  <2>5. table' \in [Descriptors -> 0..MaxOpens]
    BY <2>1, <2>2 DEF PortInv
  <2>6. \A e \in Descriptors : table'[e] <= opens'
    BY <2>1, <2>2, <2>3, <2>4 DEF PortInv
  <2>7. \A e \in Descriptors : table'[e] \in ours' => e = fd'
    BY <2>1, <2>2, <2>3, <2>4 DEF PortInv
  <2>8. table'[fd'] \in ours'
    <3>1. table'[d] = opens + 1
      BY <2>4
    <3>2. opens + 1 \in ours'
      BY <2>1
    <3> QED
      BY <2>1, <3>1, <3>2
  <2>9. opens' \in 0..MaxOpens /\ ours' \in SUBSET (1..opens') /\ generation' \in Nat
        /\ generation' > generation
    BY <2>1 DEF PortInv
  <2> QED
    BY <2>1, <2>5, <2>6, <2>7, <2>8, <2>9 DEF PortInv, Progressed
<1> QED
  BY <1>1, <1>2 DEF OpenPort

\* A read() in progress keeps what it relies on while anybody else moves.
LEMMA ReadKept ==
  ASSUME PortInv, PortInv', ReadInv, Progressed, UNCHANGED readVars,
         pc' \in {"polling", "readable", "terminal"} => pc' = pc
  PROVE  ReadInv'
<1> USE DEF readVars, ReadInv
<1>1. readGeneration' \in 0..generation'
  BY DEF PortInv, Progressed
<1>2. ASSUME pc' \in {"polling", "readable", "terminal"}, readGeneration' = generation'
      PROVE  fd' = readFd' /\ fd' # NoFd /\ table'[fd'] = readFile'
  <2>1. generation' = generation
    BY <1>2 DEF PortInv, Progressed
  <2> QED
    BY <1>2, <2>1 DEF Progressed
<1>3. result' = "data" => source' = readFile' /\ source' \in ours'
  BY DEF Progressed
<1> QED
  BY <1>1, <1>2, <1>3

\* Other parts of the process never touch the port's own number.
LEMMA OthersStep ==
  ASSUME PortInv, NEW d \in Descriptors, OthersOpen(d) \/ OthersClose(d)
  PROVE  PortInv' /\ Progressed
<1> USE DescriptorAssumption, BoundAssumption DEF NoFd, NoFile, portVars
<1>1. CASE OthersOpen(d)
  <2>1. table' = [table EXCEPT ![d] = opens + 1] /\ opens' = opens + 1
        /\ opens < MaxOpens /\ table[d] = 0
        /\ UNCHANGED <<ours, fd, generation, closedForeign>>
    BY <1>1 DEF OthersOpen, LowestFree
  <2>2. \A e \in Descriptors : table'[e] = IF e = d THEN opens + 1 ELSE table[e]
    BY <2>1 DEF PortInv
  <2>3. opens + 1 \notin ours /\ 0 \notin ours
    BY DEF PortInv
  <2>4. fd # d
    BY <2>1, <2>3 DEF PortInv
  <2>5. table' \in [Descriptors -> 0..MaxOpens] /\ opens' \in 0..MaxOpens
        /\ ours' \in SUBSET (1..opens')
    BY <2>1 DEF PortInv
  <2>6. \A e \in Descriptors : table'[e] <= opens' /\ (table'[e] \in ours' => e = fd')
    BY <2>1, <2>2, <2>3 DEF PortInv
  <2> QED
    BY <2>1, <2>2, <2>4, <2>5, <2>6 DEF PortInv, Progressed
<1>2. CASE OthersClose(d)
  <2>1. table' = [table EXCEPT ![d] = 0] /\ table[d] \notin ours
        /\ UNCHANGED <<opens, ours, fd, generation, closedForeign>>
    BY <1>2 DEF OthersClose
  <2>2. \A e \in Descriptors : table'[e] = IF e = d THEN 0 ELSE table[e]
    BY <2>1 DEF PortInv
  <2>3. 0 \notin ours /\ fd # d
    BY <2>1 DEF PortInv
  <2>4. table' \in [Descriptors -> 0..MaxOpens]
    BY <2>1 DEF PortInv
  <2>5. \A e \in Descriptors : table'[e] <= opens' /\ (table'[e] \in ours' => e = fd')
    BY <2>1, <2>2, <2>3 DEF PortInv
  <2> QED
    BY <2>1, <2>2, <2>3, <2>4, <2>5 DEF PortInv, Progressed
<1> QED
  BY <1>1, <1>2

-----------------------------------------------------------------------------

\* Every step preserves the inductive invariant.
LEMMA NextIInv == IInv /\ [Next]_vars => IInv'
<1> SUFFICES ASSUME IInv, [Next]_vars PROVE IInv'
  OBVIOUS
<1> USE DescriptorAssumption, BoundAssumption
<1>0. PortInv /\ ReadInv /\ ThreadInv
  BY DEF IInv
<1>1. CASE LoopTest
  <2>1. PortInv' /\ Progressed
    BY <1>0, <1>1, PortUnchanged DEF LoopTest
  <2>2. ReadInv'
    BY <1>0, <1>1, <2>1, ReadKept DEF LoopTest
  <2>3. ThreadInv'
    BY <1>0, <1>1 DEF LoopTest, ThreadInv, workerVars
  <2> QED
    BY <2>1, <2>2, <2>3 DEF IInv
<1>2. CASE BeginRead
  <2>1. PortInv'
    BY <1>0, <1>2, PortUnchanged DEF BeginRead
  <2>2. ReadInv'
    BY <1>0, <1>2 DEF BeginRead, ReadInv, PortInv, tableVars, portVars, NoFd, NoFile
  <2>3. ThreadInv'
    BY <1>0, <1>2 DEF BeginRead, ThreadInv, workerVars
  <2> QED
    BY <2>1, <2>2, <2>3 DEF IInv
<1>3. CASE Poll
  <2>1. PortInv'
    BY <1>0, <1>3, PortUnchanged DEF Poll
  <2>2. UNCHANGED <<table, fd, generation, ours, readFd, readGeneration, readFile, source>>
    BY <1>3 DEF Poll, tableVars, portVars
  <2>3. revents' \in SUBSET {"in", "terminal"} /\ result' \in {"data", "none", "error"}
        /\ (result' = "data" => result = "data")
    BY <1>0, <1>3 DEF Poll, ReadInv
  <2>4. ReadInv'
    BY <1>0, <1>3, <2>2, <2>3 DEF Poll, ReadInv
  <2>5. ThreadInv'
    BY <1>0, <1>3 DEF Poll, ThreadInv, workerVars
  <2> QED
    BY <2>1, <2>4, <2>5 DEF IInv
<1>4. CASE ReadBytes
  <2>1. PortInv'
    BY <1>0, <1>4, PortUnchanged DEF ReadBytes
  <2>2. UNCHANGED <<table, fd, generation, ours, readFd, readGeneration, readFile, revents>>
    BY <1>4 DEF ReadBytes, tableVars, portVars
  <2>3. result' \in {"data", "none", "error"} /\ pc' \in {"returned", "terminal"}
    BY <1>4 DEF ReadBytes
  <2>4. pc' = "terminal" => pc = "readable"
    BY <1>4 DEF ReadBytes
  <2>5. result' = "data" => SameConnection /\ source' = table[readFd]
    BY <1>4 DEF ReadBytes
  <2>6. result' # "data" => source' = source
    BY <1>4 DEF ReadBytes
  <2>7. result' = "data" => source' = readFile /\ source' \in ours
    BY <1>0, <1>4, <2>5 DEF ReadBytes, ReadInv, PortInv, SameConnection
  <2>8. source' \in 0..MaxOpens
    BY <1>0, <2>3, <2>6, <2>7 DEF ReadInv
  <2>9. ReadInv'
    BY <1>0, <1>4, <2>2, <2>3, <2>4, <2>7, <2>8 DEF ReadInv
  <2>10. ThreadInv'
    BY <1>0, <1>4, <2>3 DEF ReadBytes, ThreadInv, workerVars
  <2> QED
    BY <2>1, <2>9, <2>10 DEF IInv
<1>5. CASE HangUp
  <2>1. PortInv' /\ Progressed
    <3>1. CASE SameConnection
      <4>1. fd # NoFd /\ CloseNumber(fd)
        BY <1>0, <1>5, <3>1 DEF HangUp, SameConnection, ReadInv
      <4> QED
        BY <1>0, <4>1, CloseNumberStep
    <3>2. CASE ~SameConnection
      BY <1>0, <1>5, <3>2, PortUnchanged DEF HangUp
    <3> QED
      BY <3>1, <3>2
  <2>2. UNCHANGED <<readFd, readGeneration, revents, readFile, source>>
        /\ result' = "error" /\ pc' = "returned"
    BY <1>5 DEF HangUp
  <2>3. ReadInv'
    BY <1>0, <2>1, <2>2 DEF ReadInv, PortInv, Progressed
  <2>4. ThreadInv'
    BY <1>0, <1>5 DEF HangUp, ThreadInv, workerVars
  <2> QED
    BY <2>1, <2>3, <2>4 DEF IInv
<1>6. CASE AfterRead
  <2>1. PortInv' /\ Progressed
    BY <1>0, <1>6, PortUnchanged DEF AfterRead
  <2>2. pc' \in {"ending", "failing", "callback", "loop"}
    BY <1>6 DEF AfterRead
  <2>3. ReadInv'
    BY <1>0, <1>6, <2>1, <2>2, ReadKept DEF AfterRead
  <2>4. ThreadInv'
    BY <1>0, <1>6, <2>2 DEF AfterRead, ThreadInv, workerVars
  <2> QED
    BY <2>1, <2>3, <2>4 DEF IInv
<1>7. CASE CallbackEnds
  <2>1. PortInv' /\ Progressed
    BY <1>0, <1>7, PortUnchanged DEF CallbackEnds
  <2>2. ReadInv'
    BY <1>0, <1>7, <2>1, ReadKept DEF CallbackEnds
  <2>3. ThreadInv'
    BY <1>0, <1>7 DEF CallbackEnds, ThreadInv, workerVars
  <2> QED
    BY <2>1, <2>2, <2>3 DEF IInv
<1>8. CASE Fail
  <2>1. PortInv' /\ Progressed
    BY <1>0, <1>8, ClosePortStep DEF Fail
  <2>2. ReadInv'
    BY <1>0, <1>8, <2>1, ReadKept DEF Fail
  <2>3. ThreadInv'
    BY <1>0, <1>8 DEF Fail, ThreadInv, workerVars
  <2> QED
    BY <2>1, <2>2, <2>3 DEF IInv
<1>9. CASE End
  <2>1. PortInv' /\ Progressed
    BY <1>0, <1>9, PortUnchanged DEF End
  <2>2. ReadInv'
    BY <1>0, <1>9, <2>1, ReadKept DEF End
  <2>3. ThreadInv'
    BY <1>0, <1>9 DEF End, ThreadInv
  <2> QED
    BY <2>1, <2>2, <2>3 DEF IInv
<1>10. CASE CallbackStops
  <2>1. PortInv' /\ Progressed
    BY <1>0, <1>10, ClosePortStep DEF CallbackStops
  <2>2. ReadInv'
    BY <1>0, <1>10, <2>1, ReadKept DEF CallbackStops
  <2>3. ThreadInv'
    <3>1. selfStops' \in 0..MaxSelfStops
      BY <1>0, <1>10 DEF CallbackStops, ThreadInv
    <3>2. /\ running' = FALSE /\ stopRequested' = TRUE
          /\ pc' = pc /\ owner' = owner
      BY <1>10 DEF CallbackStops
    <3> QED
      BY <1>0, <3>1, <3>2 DEF ThreadInv
  <2> QED
    BY <2>1, <2>2, <2>3 DEF IInv
<1>11. CASE CallbackBlocks
  <2>1. PortInv' /\ Progressed
    BY <1>0, <1>11, PortUnchanged DEF CallbackBlocks
  <2>2. ReadInv'
    BY <1>0, <1>11, <2>1, ReadKept DEF CallbackBlocks
  <2>3. ThreadInv'
    BY <1>0, <1>11 DEF CallbackBlocks, ThreadInv, workerVars
  <2> QED
    BY <2>1, <2>2, <2>3 DEF IInv
<1>12. CASE OwnerOpens
  <2>1. PortInv' /\ Progressed
    BY <1>0, <1>12, OpenPortStep DEF OwnerOpens
  <2>2. ReadInv'
    BY <1>0, <1>12, <2>1, ReadKept DEF OwnerOpens
  <2>3. ThreadInv'
    BY <1>0, <1>12 DEF OwnerOpens, ThreadInv, workerVars
  <2> QED
    BY <2>1, <2>2, <2>3 DEF IInv
<1>13. CASE OwnerCloses
  <2>1. PortInv' /\ Progressed
    BY <1>0, <1>13, ClosePortStep DEF OwnerCloses
  <2>2. ReadInv'
    BY <1>0, <1>13, <2>1, ReadKept DEF OwnerCloses
  <2>3. ThreadInv'
    BY <1>0, <1>13 DEF OwnerCloses, ThreadInv, workerVars
  <2> QED
    BY <2>1, <2>2, <2>3 DEF IInv
<1>14. CASE StartJoins
  <2>1. PortInv' /\ Progressed
    BY <1>0, <1>14, PortUnchanged DEF StartJoins
  <2>2. ReadInv'
    BY <1>0, <1>14, <2>1, ReadKept DEF StartJoins
  <2>3. ThreadInv'
    BY <1>0, <1>14 DEF StartJoins, ThreadInv, workerVars
  <2> QED
    BY <2>1, <2>2, <2>3 DEF IInv
<1>15. CASE Start
  <2>1. PortInv' /\ Progressed
    BY <1>0, <1>15, PortUnchanged DEF Start, portVars
  <2>2. pc' \in {"loop", "none"}
    BY <1>15 DEF Start
  <2>3. ReadInv'
    BY <1>0, <1>15, <2>1, <2>2, ReadKept DEF Start
  <2>4. ThreadInv'
    <3>1. CASE running' = TRUE /\ stopRequested' = FALSE /\ selfStops' = 0
      <4>1. selfStops' \in 0..MaxSelfStops /\ ~(selfStops' > 0)
        BY <3>1
      <4>2. owner' = "free"
        BY <1>15 DEF Start
      <4> QED
        BY <2>2, <3>1, <4>1, <4>2 DEF ThreadInv
    <3>2. CASE UNCHANGED workerVars
      BY <1>0, <1>15, <2>2, <3>2 DEF Start, ThreadInv, workerVars
    <3> QED
      BY <1>15, <3>1, <3>2 DEF Start
  <2> QED
    BY <2>1, <2>3, <2>4 DEF IInv
<1>16. CASE Stop
  <2>1. PortInv' /\ Progressed
    BY <1>0, <1>16, ClosePortStep DEF Stop
  <2>2. ReadInv'
    BY <1>0, <1>16, <2>1, ReadKept DEF Stop
  <2>3. ThreadInv'
    BY <1>0, <1>16 DEF Stop, ThreadInv
  <2> QED
    BY <2>1, <2>2, <2>3 DEF IInv
<1>17. CASE StopReturns
  <2>1. PortInv' /\ Progressed
    BY <1>0, <1>17, PortUnchanged DEF StopReturns
  <2>2. ReadInv'
    BY <1>0, <1>17, <2>1, ReadKept DEF StopReturns
  <2>3. ThreadInv'
    BY <1>0, <1>17 DEF StopReturns, ThreadInv, workerVars
  <2> QED
    BY <2>1, <2>2, <2>3 DEF IInv
<1>18. CASE \E d \in Descriptors : OthersOpen(d) \/ OthersClose(d)
  <2>1. PICK d \in Descriptors : OthersOpen(d) \/ OthersClose(d)
    BY <1>18
  <2>2. PortInv' /\ Progressed
    BY <1>0, <2>1, OthersStep
  <2>3. UNCHANGED <<workerVars, readVars, pc, owner>>
    BY <2>1 DEF OthersOpen, OthersClose
  <2>4. ReadInv'
    BY <1>0, <2>2, <2>3, ReadKept
  <2>5. ThreadInv'
    BY <1>0, <2>3 DEF ThreadInv, workerVars
  <2> QED
    BY <2>2, <2>4, <2>5 DEF IInv
<1>19. CASE UNCHANGED vars
  BY <1>0, <1>19 DEF vars, tableVars, portVars, workerVars, readVars,
                     IInv, PortInv, ReadInv, ThreadInv
<1> QED
  BY <1>1, <1>2, <1>3, <1>4, <1>5, <1>6, <1>7, <1>8, <1>9, <1>10, <1>11, <1>12,
     <1>13, <1>14, <1>15, <1>16, <1>17, <1>18, <1>19
     DEF Next, ReaderStep, OwnerStep

-----------------------------------------------------------------------------

LEMMA Invariance == Spec => []IInv
<1>1. Init => IInv
  BY InitIInv
<1>2. IInv /\ [Next]_vars => IInv'
  BY NextIInv
<1> QED
  BY <1>1, <1>2, PTL DEF Spec

\* The state of the port object, the reader thread and the kernel's table keeps
\* its type; in particular no read() remembers a generation yet to come.
THEOREM TypeCorrect == Spec => []TypeOK
<1>1. IInv => TypeOK
  BY IInvImplies
<1> QED
  BY <1>1, Invariance, PTL

\* SerialCommsPosix: the port never closes a number that was handed to somebody
\* else and leaks none of its own, and the bytes read() returns come from the
\* connection it began on, also when the number was closed and handed out again
\* while poll() waited.
THEOREM ForeignFilesUntouched == Spec => []FilesAreItsOwn
<1>1. IInv => FilesAreItsOwn
  BY IInvImplies DEF FilesAreItsOwn
<1> QED
  BY <1>1, Invariance, PTL

\* Once a callback has stopped the worker, SerialWorker::run hands on no data.
THEOREM SilentAfterStop == Spec => SilentAfterSelfStop
<1>1. IInv /\ [Next]_vars => [pc' = "callback" /\ pc # "callback" => selfStops = 0]_vars
  <2> SUFFICES ASSUME IInv, [Next]_vars, pc' = "callback", pc # "callback"
               PROVE  selfStops = 0
    OBVIOUS
  <2>1. AfterRead
    BY DEF Next, ReaderStep, OwnerStep, vars, LoopTest, BeginRead, Poll, ReadBytes, HangUp,
           CallbackEnds, Fail, End, CallbackStops, CallbackBlocks, OwnerOpens, OwnerCloses,
           StartJoins, Start, Stop, StopReturns, OthersOpen, OthersClose
  <2>2. ~stopRequested
    BY <2>1 DEF AfterRead
  <2>3. ~(selfStops > 0) /\ selfStops \in 0..MaxSelfStops
    BY <2>2 DEF IInv, ThreadInv
  <2> QED
    BY <2>3, BoundAssumption
<1> QED
  BY <1>1, Invariance, PTL DEF Spec, SilentAfterSelfStop

=============================================================================
