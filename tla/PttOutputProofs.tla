--------------------------- MODULE PttOutputProofs ---------------------------
(***************************************************************************)
(* What holds of the audio output and its push-to-talk line for any        *)
(* threads that end transmissions, any hang time and any queue length.     *)
(***************************************************************************)
EXTENDS PttOutput, TLAPS

(* Strengthening of NewestKept: the chunk at hand is newer than all others *)
(* and finds room once the oldest has been dropped.                        *)
QueueInv ==
  /\ taken <= sent
  /\ \A i \in 1..Len(queue) : taken < queue[i].n /\ queue[i].n <= sent
  /\ \A i, j \in 1..Len(queue) : i < j => queue[i].n < queue[j].n
  /\ sending.at # "idle" => /\ sending.chunk.n = sent /\ taken < sent
                            /\ \A i \in 1..Len(queue) : queue[i].n < sent
  /\ sending.at = "retry" => Len(queue) < QueueCap
  /\ sending.at = "idle" /\ ~quit =>
       sent = IF queue = <<>> THEN taken ELSE queue[Len(queue)].n

(* Strengthening of ClosedMeansUnkeyed: nothing starts an aplay or holds   *)
(* the line any more.                                                      *)
CloseInv ==
  /\ (closing # "no" \/ closed) => quit
  /\ closing \in {"unkey", "done"} => loop = "done"
  /\ ~lineOpen => closing = "done" /\ ~line
  /\ closing = "done" => ~aplay
  /\ setting[Closer].step # "none" => closing = "unkey"

(* Strengthening of KeyedWhileWriting: the line is what was recorded last, *)
(* but for the player's own write that is still to come.                   *)
LineInv ==
  /\ loop = "write" /\ setting[Loop].step # "none" => setting[Loop].to
  /\ Alone => \A t \in Notifiers : setting[t].step = "none"
  /\ Alone /\ closing \in {"no", "wait"} =>
       IF setting[Loop].step = "drive" THEN transmitting = setting[Loop].to
                                       ELSE line = transmitting
  /\ Alone /\ loop = "write" /\ setting[Loop].step = "none" => transmitting

(* Strengthening of HangHonoured: what keys the transmitter has set the    *)
(* time of the last audio.                                                 *)
HangInv ==
  /\ \A t \in Threads : setting[t].step # "none" /\ setting[t].to => age >= 0
  /\ transmitting => age >= 0
  /\ isRadio /\ setting[Loop].step = "record" /\ ~setting[Loop].to => age >= HangTime

-----------------------------------------------------------------------------
LEMMA Bounds ==
  /\ HangTime \in Nat /\ QueueCap \in Nat /\ QueueCap >= 1
  /\ MaxChunks \in Nat /\ MaxStops \in Nat /\ MaxErrors \in Nat
BY OutputBounds

LEMMA ThreadsDiffer ==
  /\ Loop \in Threads /\ Closer \in Threads /\ Notifiers \subseteq Threads
  /\ Loop # Closer /\ Loop \notin Notifiers /\ Closer \notin Notifiers
BY OutputThreads DEF Threads

LEMMA AppendType ==
  ASSUME NEW q \in Seq(Chunks), NEW c \in Chunks
  PROVE  /\ Append(q, c) \in Seq(Chunks) /\ Append(q, c) # <<>>
         /\ Len(Append(q, c)) = Len(q) + 1 /\ Append(q, c)[Len(q) + 1] = c
         /\ \A i \in 1..Len(q) : Append(q, c)[i] = q[i]
OBVIOUS

LEMMA TailType ==
  ASSUME NEW q \in Seq(Chunks), q # <<>>
  PROVE  /\ Tail(q) \in Seq(Chunks) /\ Len(Tail(q)) = Len(q) - 1 /\ Len(q) >= 1
         /\ Head(q) \in Chunks /\ Head(q) = q[1]
         /\ \A i \in 1..Len(Tail(q)) : i + 1 \in 1..Len(q) /\ Tail(q)[i] = q[i + 1]
OBVIOUS

LEMMA SetPTTType ==
  ASSUME TypeOK, NEW t \in Threads, NEW active \in BOOLEAN, StartSetPTT(t, active)
  PROVE  setting' \in [Threads -> [step : {"none", "record", "drive"}, to : BOOLEAN]]
BY DEF StartSetPTT, TypeOK

LEMMA InitInv == Init => TypeOK /\ QueueInv /\ CloseInv /\ LineInv /\ HangInv
<1> SUFFICES ASSUME Init PROVE TypeOK /\ QueueInv /\ CloseInv /\ LineInv /\ HangInv
  OBVIOUS
<1>1. TypeOK
  <2>1. isRadio \in BOOLEAN
    BY DEF Init
  <2>2. queue \in Seq(Chunks) /\ Len(queue) = 0
    BY DEF Init
  <2>3. sending \in [at : {"idle", "full", "retry"}, chunk : Chunks]
    BY Bounds DEF Init, NoChunk, Chunks
  <2>4. setting \in [Threads -> [step : {"none", "record", "drive"}, to : BOOLEAN]]
    BY DEF Init, NotSetting
  <2>5. sent \in 0..MaxChunks /\ taken \in 0..MaxChunks /\ age \in -1..(HangTime + 1)
        /\ errors \in 0..MaxErrors /\ stops \in [Notifiers -> 0..MaxStops]
    BY Bounds DEF Init
  <2>6. /\ quit \in BOOLEAN /\ closed \in BOOLEAN /\ panicked \in BOOLEAN
        /\ transmitting \in BOOLEAN /\ line \in BOOLEAN /\ lineOpen \in BOOLEAN
        /\ aplay \in BOOLEAN
    BY DEF Init
  <2>7. loop = "select" /\ closing = "no" /\ Len(queue) <= QueueCap
    BY <2>2, Bounds DEF Init
  <2> QED
    BY <2>1, <2>2, <2>3, <2>4, <2>5, <2>6, <2>7 DEF TypeOK
<1>2. QueueInv
  BY DEF Init, QueueInv
<1>3. CloseInv /\ LineInv /\ HangInv
  BY ThreadsDiffer DEF Init, CloseInv, LineInv, HangInv, NotSetting
<1> QED
  BY <1>1, <1>2, <1>3

-----------------------------------------------------------------------------
(* SendAudio and its second select. *)

LEMMA SelectType ==
  ASSUME TypeOK, NEW chunk \in Chunks,
         NEW otherwise \in [at : {"idle", "full", "retry"}, chunk : Chunks],
         Select(chunk, otherwise)
  PROVE  /\ queue' \in Seq(Chunks) /\ Len(queue') <= QueueCap
         /\ sending' \in [at : {"idle", "full", "retry"}, chunk : Chunks]
         /\ panicked' \in BOOLEAN
<1>1. [at |-> "idle", chunk |-> NoChunk] \in [at : {"idle", "full", "retry"}, chunk : Chunks]
  BY Bounds DEF NoChunk, Chunks
<1>2. queue \in Seq(Chunks) /\ Len(queue) \in Nat /\ Len(queue) <= QueueCap
  BY DEF TypeOK
<1>3. /\ Append(queue, chunk) \in Seq(Chunks)
      /\ Len(Append(queue, chunk)) = Len(queue) + 1
  BY <1>2, AppendType
<1>4. CASE /\ ~closed /\ Len(queue) < QueueCap
           /\ queue' = Append(queue, chunk)
           /\ sending' = [at |-> "idle", chunk |-> NoChunk]
           /\ UNCHANGED panicked
  BY <1>1, <1>2, <1>3, <1>4, Bounds DEF TypeOK
<1>5. CASE UNCHANGED queue /\ (UNCHANGED panicked \/ panicked' = TRUE)
           /\ sending' \in {sending, otherwise, [at |-> "idle", chunk |-> NoChunk]}
  BY <1>1, <1>2, <1>5 DEF TypeOK
<1> QED
  BY <1>4, <1>5 DEF Select

LEMMA TypePreserved == TypeOK /\ [Next]_vars => TypeOK'
<1> SUFFICES ASSUME TypeOK, [Next]_vars PROVE TypeOK'
  OBVIOUS
<1> USE DEF audio, ptt, ending, rest
<1>1. ASSUME NEW stop \in BOOLEAN, SendAudio(stop) PROVE TypeOK'
  <2> DEFINE chunk == [n |-> sent + 1, stop |-> stop]
  <2>1. sent' = sent + 1 /\ sent' \in 0..MaxChunks /\ chunk \in Chunks
    BY <1>1, Bounds DEF SendAudio, TypeOK, Chunks
  <2>2. Select(chunk, [at |-> "full", chunk |-> chunk])
    BY <1>1 DEF SendAudio
  <2>3. /\ queue' \in Seq(Chunks) /\ Len(queue') <= QueueCap
        /\ sending' \in [at : {"idle", "full", "retry"}, chunk : Chunks]
        /\ panicked' \in BOOLEAN
    BY <2>1, <2>2, SelectType
  <2> QED
    BY <1>1, <2>1, <2>3 DEF SendAudio, TypeOK
<1>2. CASE DropOldest
  <2>1. queue' \in Seq(Chunks) /\ Len(queue') <= QueueCap
    BY <1>2, TailType, Bounds DEF DropOldest, TypeOK
  <2> QED
    BY <1>2, <2>1 DEF DropOldest, TypeOK
<1>3. CASE RetrySend
  <2>1. /\ queue' \in Seq(Chunks) /\ Len(queue') <= QueueCap
        /\ sending' \in [at : {"idle", "full", "retry"}, chunk : Chunks]
        /\ panicked' \in BOOLEAN
    <3>1. sending.chunk \in Chunks /\ NoChunk \in Chunks
      BY Bounds DEF TypeOK, NoChunk, Chunks
    <3> QED
      BY <1>3, <3>1, SelectType DEF RetrySend
  <2> QED
    BY <1>3, <2>1 DEF RetrySend, TypeOK
<1>4. ASSUME NEW t \in Notifiers, NotifyTransmitStop(t) PROVE TypeOK'
  <2>1. setting' \in [Threads -> [step : {"none", "record", "drive"}, to : BOOLEAN]]
    BY <1>4, SetPTTType, ThreadsDiffer DEF NotifyTransmitStop
  <2>2. stops' \in [Notifiers -> 0..MaxStops]
    BY <1>4, Bounds DEF NotifyTransmitStop, TypeOK
  <2> QED
    BY <1>4, <2>1, <2>2 DEF NotifyTransmitStop, TypeOK
<1>5. ASSUME NEW t \in Threads, RecordPTT(t) PROVE TypeOK'
  <2>1. /\ transmitting' \in BOOLEAN
        /\ setting' \in [Threads -> [step : {"none", "record", "drive"}, to : BOOLEAN]]
    BY <1>5 DEF RecordPTT, TypeOK, NotSetting
  <2> QED
    BY <1>5, <2>1 DEF RecordPTT, TypeOK
<1>6. ASSUME NEW t \in Threads, DriveLine(t) PROVE TypeOK'
  <2>1. /\ line' \in BOOLEAN /\ errors' \in 0..MaxErrors
        /\ setting' \in [Threads -> [step : {"none", "record", "drive"}, to : BOOLEAN]]
    BY <1>6, Bounds DEF DriveLine, WriteFails, TypeOK, NotSetting
  <2> QED
    BY <1>6, <2>1 DEF DriveLine, TypeOK
<1>7. CASE CheckHang
  <2>1. setting' \in [Threads -> [step : {"none", "record", "drive"}, to : BOOLEAN]]
    BY <1>7, SetPTTType, ThreadsDiffer DEF CheckHang
  <2> QED
    BY <1>7, <2>1 DEF CheckHang, TypeOK
<1>8. ASSUME Take
      PROVE  /\ queue' \in Seq(Chunks) /\ Len(queue') <= QueueCap
             /\ taken' \in 0..MaxChunks /\ UNCHANGED <<sending, sent>>
  <2>1. /\ queue \in Seq(Chunks) /\ queue # <<>> /\ Len(queue) <= QueueCap
        /\ queue' = Tail(queue) /\ taken' = Head(queue).n /\ UNCHANGED <<sending, sent>>
    BY <1>8 DEF Take, TypeOK
  <2>2. /\ Tail(queue) \in Seq(Chunks) /\ Len(Tail(queue)) = Len(queue) - 1
        /\ Len(queue) >= 1 /\ Head(queue) \in Chunks
    BY <2>1, TailType
  <2> QED
    BY <2>1, <2>2, Bounds DEF Chunks
<1>9. CASE TakeStop
  <2>1. setting' \in [Threads -> [step : {"none", "record", "drive"}, to : BOOLEAN]]
    BY <1>9, SetPTTType, ThreadsDiffer DEF TakeStop, StartPTTHang, TypeOK
  <2>3. age' \in -1..(HangTime + 1)
    <3>1. age' \in {0, age}
      BY <1>9 DEF TakeStop, StartPTTHang
    <3> QED
      BY <3>1, Bounds DEF TypeOK
  <2>2. Take /\ UNCHANGED <<isRadio, ptt, ending, aplay, loop, stops>>
    BY <1>9 DEF TakeStop
  <2> QED
    BY <1>8, <2>1, <2>2, <2>3 DEF TypeOK
<1>10. CASE TakeAudio
  <2>1. setting' \in [Threads -> [step : {"none", "record", "drive"}, to : BOOLEAN]]
    BY <1>10, SetPTTType, ThreadsDiffer DEF TakeAudio, TypeOK
  <2>3. /\ age' \in -1..(HangTime + 1) /\ aplay' \in BOOLEAN
        /\ loop' \in {"select", "write", "done"}
    <3>1. age' \in {0, age} /\ loop' \in {"write", loop} /\ aplay' \in BOOLEAN
      BY <1>10 DEF TakeAudio
    <3> QED
      BY <3>1, Bounds DEF TypeOK
  <2>2. Take /\ UNCHANGED <<isRadio, ptt, ending, stops>>
    BY <1>10 DEF TakeAudio
  <2> QED
    BY <1>8, <2>1, <2>2, <2>3 DEF TypeOK
<1>11. CASE WriteChunk
  BY <1>11 DEF WriteChunk, TypeOK
<1>12. CASE LoopQuits
  BY <1>12 DEF LoopQuits, TypeOK
<1>13. CASE CloseQuit
  BY <1>13 DEF CloseQuit, TypeOK
<1>14. CASE CloseQueue
  BY <1>14, SetPTTType, ThreadsDiffer DEF CloseQueue, TypeOK
<1>15. CASE CloseLine
  <2>1. /\ line' \in BOOLEAN /\ lineOpen' \in BOOLEAN /\ aplay' \in BOOLEAN
        /\ closing' = "done"
    BY <1>15 DEF CloseLine, WriteFails, TypeOK
  <2>2. errors' \in 0..MaxErrors
    BY <1>15, Bounds DEF CloseLine, WriteFails, TypeOK
  <2> QED
    BY <1>15, <2>1, <2>2 DEF CloseLine, TypeOK
<1>16. CASE TimePasses
  BY <1>16, Bounds DEF TimePasses, TypeOK
<1>17. CASE UNCHANGED vars
  BY <1>17 DEF vars, TypeOK
<1> QED
  BY <1>1, <1>2, <1>3, <1>4, <1>5, <1>6, <1>7, <1>9, <1>10, <1>11, <1>12, <1>13,
     <1>14, <1>15, <1>16, <1>17 DEF Next, LoopStep, CloseStep, SetPTT

-----------------------------------------------------------------------------
(* The queue and the chunk at hand. *)

(* A queue of newer and newer chunks, from after lo to hi. *)
Ordered(q, lo, hi) ==
  /\ \A i \in 1..Len(q) : lo < q[i].n /\ q[i].n <= hi
  /\ \A i, j \in 1..Len(q) : i < j => q[i].n < q[j].n

LEMMA ChunkNumbers ==
  ASSUME TypeOK
  PROVE  /\ sent \in Nat /\ taken \in Nat /\ queue \in Seq(Chunks)
         /\ Len(queue) \in Nat
         /\ \A i \in 1..Len(queue) : queue[i] \in Chunks /\ queue[i].n \in Nat
         /\ \A c \in Chunks : c.n \in Nat
<1>1. \A c \in Chunks : c.n \in Nat
  BY Bounds DEF Chunks
<1>2. queue \in Seq(Chunks)
  BY DEF TypeOK
<1> QED
  BY <1>1, <1>2, Bounds DEF TypeOK

LEMMA AppendOrdered ==
  ASSUME TypeOK, NEW c \in Chunks, taken < c.n, Ordered(queue, taken, c.n - 1)
  PROVE  /\ Ordered(Append(queue, c), taken, c.n)
         /\ Append(queue, c) # <<>>
         /\ Append(queue, c)[Len(Append(queue, c))].n = c.n
<1> DEFINE q == Append(queue, c)
<1>1. /\ Len(queue) \in Nat /\ c.n \in Nat /\ taken \in Nat
      /\ \A i \in 1..Len(queue) : queue[i].n \in Nat
  BY ChunkNumbers
<1>2. /\ q # <<>> /\ Len(q) = Len(queue) + 1 /\ q[Len(queue) + 1] = c
      /\ \A i \in 1..Len(queue) : q[i] = queue[i]
  BY AppendType DEF TypeOK
<1>3. \A i \in 1..Len(q) : i \in 1..Len(queue) \/ i = Len(queue) + 1
  BY <1>1, <1>2
<1> HIDE DEF q
<1>4. \A i \in 1..Len(q) : taken < q[i].n /\ q[i].n <= c.n
  BY <1>1, <1>2, <1>3 DEF Ordered
<1>5. ASSUME NEW i \in 1..Len(q), NEW j \in 1..Len(q), i < j PROVE q[i].n < q[j].n
  <2>1. i \in 1..Len(queue)
    BY <1>1, <1>2, <1>3, <1>5
  <2> QED
    BY <1>1, <1>2, <1>3, <1>5, <2>1 DEF Ordered
<1> QED
  BY <1>2, <1>4, <1>5 DEF Ordered, q

LEMMA TailOrdered ==
  ASSUME TypeOK, queue # <<>>, Ordered(queue, taken, sent)
  PROVE  /\ Ordered(Tail(queue), taken, sent)
         /\ Ordered(Tail(queue), Head(queue).n, sent)
         /\ taken < Head(queue).n /\ Head(queue).n <= sent
         /\ Tail(queue) = <<>> => queue[Len(queue)] = Head(queue)
         /\ Tail(queue) # <<>> => Tail(queue)[Len(Tail(queue))] = queue[Len(queue)]
<1>1. /\ Len(queue) \in Nat /\ taken \in Nat /\ sent \in Nat
      /\ \A i \in 1..Len(queue) : queue[i].n \in Nat
  BY ChunkNumbers
<1>2. /\ Tail(queue) \in Seq(Chunks) /\ Len(Tail(queue)) = Len(queue) - 1
      /\ Len(queue) >= 1 /\ Head(queue) = queue[1]
      /\ \A i \in 1..Len(Tail(queue)) :
           i + 1 \in 1..Len(queue) /\ Tail(queue)[i] = queue[i + 1]
  BY TailType DEF TypeOK
<1>3. 1 \in 1..Len(queue)
  BY <1>1, <1>2
<1>4. \A i \in 1..Len(Tail(queue)) : queue[1].n < queue[i + 1].n
  BY <1>1, <1>2, <1>3 DEF Ordered
<1>5. \A i, j \in 1..Len(Tail(queue)) : i < j => Tail(queue)[i].n < Tail(queue)[j].n
  BY <1>1, <1>2 DEF Ordered
<1>6. \A i \in 1..Len(Tail(queue)) : /\ queue[1].n < Tail(queue)[i].n
                                     /\ taken < Tail(queue)[i].n
                                     /\ Tail(queue)[i].n <= sent
  BY <1>2, <1>4 DEF Ordered
<1>7. Tail(queue) = <<>> => Len(queue) = 1
  <2>1. ASSUME NEW q \in Seq(Chunks), q = <<>> PROVE Len(q) = 0
    BY <2>1
  <2>2. Tail(queue) = <<>> => Len(queue) - 1 = 0
    BY <1>2, <2>1, Zenon
  <2> QED
    BY <1>1, <2>2
<1>8. Tail(queue) # <<>> => Len(Tail(queue)) \in 1..Len(Tail(queue))
  BY <1>2
<1>9. Tail(queue) # <<>> => Tail(queue)[Len(Tail(queue))] = queue[Len(queue)]
  BY <1>1, <1>2, <1>8
<1> QED
  BY <1>2, <1>3, <1>5, <1>6, <1>7, <1>9 DEF Ordered

LEMMA QueuePreserved ==
  ASSUME TypeOK, TypeOK', CloseInv, QueueInv, [Next]_vars
  PROVE  QueueInv'
<1> USE DEF audio, ptt, ending, rest
<1>0. /\ sent \in Nat /\ taken \in Nat /\ taken <= sent
      /\ Ordered(queue, taken, sent)
      /\ \A i \in 1..Len(queue) : queue[i].n \in Nat
  BY ChunkNumbers DEF QueueInv, Ordered
<1>1. ASSUME NEW stop \in BOOLEAN, SendAudio(stop) PROVE QueueInv'
  <2> DEFINE c == [n |-> sent + 1, stop |-> stop]
  <2>1. /\ sent' = sent + 1 /\ UNCHANGED <<taken, quit>> /\ sending.at = "idle"
        /\ Select(c, [at |-> "full", chunk |-> c]) /\ c \in Chunks /\ c.n = sent + 1
    BY <1>1, Bounds DEF SendAudio, TypeOK, Chunks
  <2> HIDE DEF c
  <2>2. Ordered(queue, taken, c.n - 1) /\ taken < c.n
    BY <1>0, <2>1
  <2>3. CASE /\ queue' = Append(queue, c)
             /\ sending' = [at |-> "idle", chunk |-> NoChunk]
    BY <1>0, <2>1, <2>2, <2>3, AppendOrdered DEF QueueInv, Ordered
  <2>4. CASE /\ quit /\ UNCHANGED queue
             /\ sending' = [at |-> "idle", chunk |-> NoChunk] \/ UNCHANGED sending
    BY <1>0, <2>1, <2>4 DEF QueueInv
  <2>5. CASE /\ UNCHANGED queue
             /\ sending' = [at |-> "full", chunk |-> c]
    BY <1>0, <2>1, <2>5 DEF QueueInv
  <2> QED
    BY <2>1, <2>3, <2>4, <2>5 DEF Select, CloseInv
<1>2. CASE DropOldest
  <2>1. /\ UNCHANGED <<sent, taken, quit>> /\ sending.at = "full"
        /\ queue' = IF queue = <<>> THEN queue ELSE Tail(queue)
        /\ sending'.at = "retry" /\ sending'.chunk = sending.chunk
    BY <1>2 DEF DropOldest, TypeOK
  <2>2. \A i \in 1..Len(queue) : queue[i].n < sent
    BY <2>1 DEF QueueInv
  <2>3. CASE queue = <<>>
    BY <1>0, <2>1, <2>3, Bounds DEF QueueInv
  <2>4. CASE queue # <<>>
    <3>1. /\ Len(Tail(queue)) = Len(queue) - 1 /\ Len(queue) \in Nat
          /\ Len(queue) <= QueueCap
          /\ \A i \in 1..Len(Tail(queue)) :
               i + 1 \in 1..Len(queue) /\ Tail(queue)[i] = queue[i + 1]
      BY <2>4, TailType DEF TypeOK
    <3>2. Ordered(queue', taken, sent) /\ Len(queue') < QueueCap
      BY <1>0, <2>1, <2>4, <3>1, TailOrdered, Bounds
    <3>3. \A i \in 1..Len(queue') : queue'[i].n < sent
      BY <2>1, <2>2, <2>4, <3>1
    <3> QED
      BY <2>1, <3>2, <3>3 DEF QueueInv, Ordered
  <2> QED
    BY <2>3, <2>4
<1>3. CASE RetrySend
  <2> DEFINE c == sending.chunk
  <2>1. /\ UNCHANGED <<sent, taken, quit>> /\ sending.at = "retry"
        /\ Select(c, [at |-> "idle", chunk |-> NoChunk]) /\ c \in Chunks /\ c.n = sent
        /\ Len(queue) < QueueCap /\ Len(queue) \in Nat
    BY <1>3 DEF RetrySend, TypeOK, QueueInv
  <2> HIDE DEF c
  <2>2. Ordered(queue, taken, c.n - 1) /\ taken < c.n
    BY <1>0, <2>1 DEF QueueInv, Ordered
  <2>3. CASE /\ queue' = Append(queue, c)
             /\ sending' = [at |-> "idle", chunk |-> NoChunk]
    BY <1>0, <2>1, <2>2, <2>3, AppendOrdered DEF QueueInv, Ordered
  <2>4. CASE /\ quit /\ UNCHANGED queue
             /\ sending' = [at |-> "idle", chunk |-> NoChunk] \/ UNCHANGED sending
    BY <1>0, <2>1, <2>4 DEF QueueInv
  <2> QED
    BY <2>1, <2>3, <2>4, Bounds DEF Select, CloseInv
<1>4. ASSUME Take, UNCHANGED quit PROVE QueueInv'
  <2>1. /\ queue # <<>> /\ queue' = Tail(queue) /\ taken' = Head(queue).n
        /\ UNCHANGED <<sending, sent>>
    BY <1>4 DEF Take
  <2>2. /\ Ordered(queue', taken', sent) /\ taken' <= sent
        /\ queue' = <<>> => queue[Len(queue)].n = taken'
        /\ queue' # <<>> => queue'[Len(queue')] = queue[Len(queue)]
    BY <1>0, <2>1, TailOrdered
  <2>3. /\ Len(queue') = Len(queue) - 1 /\ Len(queue) \in Nat /\ 1 \in 1..Len(queue)
        /\ Head(queue) = queue[1]
        /\ \A i \in 1..Len(queue') : i + 1 \in 1..Len(queue) /\ queue'[i] = queue[i + 1]
    BY <2>1, TailType DEF TypeOK
  <2>4. sending.at # "idle" => taken' < sent /\ \A i \in 1..Len(queue') : queue'[i].n < sent
    BY <2>1, <2>3 DEF QueueInv
  <2>5. sending.at = "retry" => Len(queue') < QueueCap
    BY <2>3, Bounds DEF QueueInv
  <2>6. sending.at = "idle" /\ ~quit =>
          sent = IF queue' = <<>> THEN taken' ELSE queue'[Len(queue')].n
    BY <2>1, <2>2 DEF QueueInv
  <2> QED
    BY <1>4, <2>1, <2>2, <2>4, <2>5, <2>6 DEF QueueInv, Ordered
<1>5. CASE CloseQuit
  BY <1>5 DEF CloseQuit, QueueInv
<1>6. CASE UNCHANGED <<queue, sending, sent, taken, quit>>
  BY <1>6 DEF QueueInv
<1>7. TakeStop \/ TakeAudio => Take /\ UNCHANGED quit
  BY DEF TakeStop, TakeAudio
<1>8. \/ \E t \in Notifiers : NotifyTransmitStop(t)
      \/ \E t \in Threads : SetPTT(t)
      \/ CheckHang \/ WriteChunk \/ LoopQuits \/ CloseStep \/ TimePasses \/ UNCHANGED vars
      => UNCHANGED <<queue, sending, sent, taken, quit>>
  BY DEF NotifyTransmitStop, SetPTT, RecordPTT, DriveLine, CheckHang, WriteChunk,
         LoopQuits, CloseStep, CloseQueue, CloseLine, TimePasses, vars
<1> QED
  BY <1>1, <1>2, <1>3, <1>4, <1>5, <1>6, <1>7, <1>8 DEF Next, LoopStep

-----------------------------------------------------------------------------
(* The line. *)

LEMMA ClosePreserved ==
  ASSUME TypeOK, CloseInv, [Next]_vars
  PROVE  CloseInv'
<1> USE ThreadsDiffer DEF audio, ptt, ending, rest
<1>1. ASSUME NEW stop \in BOOLEAN, SendAudio(stop) PROVE CloseInv'
  BY <1>1 DEF SendAudio, CloseInv
<1>2. CASE DropOldest \/ RetrySend
  BY <1>2 DEF DropOldest, RetrySend, CloseInv
<1>3. ASSUME NEW t \in Notifiers, NotifyTransmitStop(t) PROVE CloseInv'
  <2>1. setting'[Closer] = setting[Closer]
    BY <1>3 DEF NotifyTransmitStop, StartSetPTT, TypeOK
  <2> QED
    BY <1>3, <2>1 DEF NotifyTransmitStop, CloseInv
<1>4. ASSUME NEW t \in Threads, RecordPTT(t) PROVE CloseInv'
  <2>1. setting'[Closer].step # "none" => setting[Closer].step # "none"
    BY <1>4 DEF RecordPTT, NotSetting, TypeOK
  <2> QED
    BY <1>4, <2>1 DEF RecordPTT, CloseInv
<1>5. ASSUME NEW t \in Threads, DriveLine(t) PROVE CloseInv'
  <2>1. setting'[Closer].step # "none" => setting[Closer].step # "none"
    BY <1>5 DEF DriveLine, NotSetting, TypeOK
  <2>2. ~lineOpen => line' = line
    BY <1>5 DEF DriveLine, WriteFails
  <2> QED
    BY <1>5, <2>1, <2>2 DEF DriveLine, CloseInv
<1>6. ASSUME CheckHang \/ TakeStop \/ TakeAudio \/ WriteChunk
      PROVE  CloseInv'
  <2>1. /\ loop # "done" /\ UNCHANGED <<quit, closed, closing, line, lineOpen>>
        /\ setting'[Closer] = setting[Closer]
    BY <1>6 DEF CheckHang, TakeStop, TakeAudio, WriteChunk, Selecting, StartSetPTT,
                StartPTTHang, TypeOK
  <2> QED
    BY <2>1 DEF CloseInv
<1>7. CASE LoopQuits
  BY <1>7 DEF LoopQuits, CloseInv
<1>8. CASE CloseQuit
  BY <1>8 DEF CloseQuit, CloseInv
<1>9. CASE CloseQueue
  BY <1>9 DEF CloseQueue, StartSetPTT, CloseInv, TypeOK
<1>10. CASE CloseLine
  BY <1>10 DEF CloseLine, WriteFails, Returned, CloseInv
<1>11. CASE TimePasses \/ UNCHANGED vars
  BY <1>11 DEF TimePasses, vars, CloseInv
<1> QED
  BY <1>1, <1>2, <1>3, <1>4, <1>5, <1>6, <1>7, <1>8, <1>9, <1>10, <1>11
  DEF Next, LoopStep, CloseStep, SetPTT

LEMMA LinePreserved ==
  ASSUME TypeOK, TypeOK', CloseInv, LineInv, [Next]_vars
  PROVE  LineInv'
<1> USE ThreadsDiffer DEF audio, ptt, ending, rest
<1>1. ASSUME UNCHANGED <<loop, setting, stops, errors, transmitting, line>>,
             closing' \in {"no", "wait"} => closing \in {"no", "wait"}
      PROVE  LineInv'
  BY <1>1 DEF LineInv, Alone
<1>2. ASSUME NEW t \in Notifiers, NotifyTransmitStop(t) PROVE LineInv'
  <2>1. setting'[Loop] = setting[Loop] /\ UNCHANGED loop
    BY <1>2 DEF NotifyTransmitStop, StartSetPTT, TypeOK
  <2>2. ~Alone'
    <3>1. stops'[t] = stops[t] + 1 /\ stops[t] \in Nat
      BY <1>2, Bounds DEF NotifyTransmitStop, TypeOK
    <3>2. stops'[t] # 0
      BY <3>1
    <3> QED
      BY <3>2 DEF Alone
  <2> QED
    BY <2>1, <2>2 DEF LineInv
<1>3. ASSUME NEW t \in Threads, RecordPTT(t) PROVE LineInv'
  <2>0. UNCHANGED <<loop, closing, stops, errors, line>> /\ setting[t].step = "record"
    BY <1>3 DEF RecordPTT
  <2>1. CASE t # Loop
    <3>1. setting'[Loop] = setting[Loop]
      BY <1>3, <2>1 DEF RecordPTT, TypeOK
    <3>2. Alone => t = Closer /\ closing = "unkey"
      BY <2>0, <2>1 DEF LineInv, CloseInv, Threads
    <3>3. Alone => \A n \in Notifiers : setting'[n] = setting[n]
      BY <1>3, <3>2 DEF RecordPTT, TypeOK
    <3>4. Alone => loop = "done"
      BY <3>2 DEF CloseInv
    <3> QED
      BY <2>0, <3>1, <3>2, <3>3, <3>4 DEF LineInv, Alone
  <2>2. CASE t = Loop
    <3>1. \A n \in Notifiers : setting'[n] = setting[n]
      BY <1>3, <2>2 DEF RecordPTT, TypeOK
    <3>2. transmitting' = setting[Loop].to
      BY <1>3, <2>2 DEF RecordPTT
    <3>3. CASE transmitting = setting[Loop].to
      <4>1. setting'[Loop] = NotSetting
        BY <1>3, <2>2, <3>3 DEF RecordPTT, TypeOK
      <4> QED
        BY <2>0, <2>2, <3>1, <3>2, <3>3, <4>1 DEF LineInv, Alone, NotSetting
    <3>4. CASE transmitting # setting[Loop].to
      <4>1. setting'[Loop].step = "drive" /\ setting'[Loop].to = setting[Loop].to
        BY <1>3, <2>2, <3>4 DEF RecordPTT, TypeOK
      <4> QED
        BY <2>0, <2>2, <3>1, <3>2, <4>1 DEF LineInv, Alone
    <3> QED
      BY <3>3, <3>4
  <2> QED
    BY <2>1, <2>2
<1>4. ASSUME NEW t \in Threads, DriveLine(t) PROVE LineInv'
  <2>0. /\ UNCHANGED <<loop, closing, stops, transmitting>> /\ setting[t].step = "drive"
        /\ setting'[t] = NotSetting
        /\ \A n \in Threads : n # t => setting'[n] = setting[n]
    BY <1>4 DEF DriveLine, TypeOK
  <2>1. ~Alone' \/ (Alone /\ line' = IF lineOpen THEN setting[t].to ELSE line)
    <3>1. CASE WriteFails
      BY <3>1, Bounds DEF WriteFails, Alone, TypeOK
    <3>2. CASE line' = (IF lineOpen THEN setting[t].to ELSE line) /\ UNCHANGED errors
      BY <2>0, <3>2 DEF Alone
    <3> QED
      BY <1>4, <3>1, <3>2 DEF DriveLine
  <2>2. CASE t # Loop
    <3>1. setting'[Loop] = setting[Loop]
      BY <2>0, <2>2
    <3>2. Alone => t = Closer /\ closing = "unkey" /\ loop = "done"
      BY <2>0, <2>2 DEF LineInv, CloseInv, Threads
    <3>3. Alone => \A n \in Notifiers : setting'[n].step = "none"
      BY <2>0, <3>2 DEF LineInv
    <3> QED
      BY <2>0, <2>1, <3>1, <3>2, <3>3 DEF LineInv
  <2>3. CASE t = Loop
    <3>1. \A n \in Notifiers : setting'[n] = setting[n]
      BY <2>0, <2>3
    <3>2. closing \in {"no", "wait"} => lineOpen
      BY DEF CloseInv
    <3>3. loop = "write" => closing \in {"no", "wait"}
      BY DEF CloseInv, TypeOK
    <3> QED
      BY <2>0, <2>1, <2>3, <3>1, <3>2, <3>3 DEF LineInv, NotSetting
  <2> QED
    BY <2>2, <2>3
<1>5. ASSUME NEW to \in BOOLEAN, StartSetPTT(Loop, to), Returned(Loop),
             loop' = "write" => to,
             UNCHANGED <<closing, stops, errors, transmitting, line>>
      PROVE  LineInv'
  <2>1. /\ setting'[Loop] = [step |-> "record", to |-> to]
        /\ \A n \in Notifiers : setting'[n] = setting[n]
    BY <1>5 DEF StartSetPTT, TypeOK
  <2> QED
    BY <1>5, <2>1 DEF LineInv, Alone, Returned
<1>6. CASE CheckHang
  BY <1>5, <1>6 DEF CheckHang, Selecting
<1>7. CASE TakeStop
  <2>1. \/ StartSetPTT(Loop, FALSE)
        \/ UNCHANGED setting
    BY <1>7 DEF TakeStop, StartPTTHang
  <2> QED
    BY <1>1, <1>5, <1>7, <2>1 DEF TakeStop, Selecting
<1>8. CASE TakeAudio
  BY <1>1, <1>5, <1>8 DEF TakeAudio, Selecting
<1>9. CASE WriteChunk \/ LoopQuits
  <2>1. /\ loop' # "write"
        /\ UNCHANGED <<setting, stops, errors, transmitting, line, closing>>
    BY <1>9 DEF WriteChunk, LoopQuits
  <2> QED
    BY <2>1 DEF LineInv, Alone
<1>10. CASE CloseQuit
  BY <1>1, <1>10 DEF CloseQuit
<1>11. CASE CloseQueue
  <2>1. /\ setting'[Loop] = setting[Loop]
        /\ \A n \in Notifiers : setting'[n] = setting[n]
        /\ closing' = "unkey" /\ loop' = "done" /\ UNCHANGED <<stops, errors>>
    BY <1>11 DEF CloseQueue, StartSetPTT, TypeOK
  <2> QED
    BY <2>1 DEF LineInv, Alone
<1>12. CASE CloseLine
  <2>1. /\ closing' = "done" /\ loop = "done"
        /\ UNCHANGED <<loop, setting, stops, transmitting>>
    BY <1>12 DEF CloseLine, CloseInv
  <2>2. Alone' => Alone
    BY <1>12, Bounds DEF CloseLine, WriteFails, Alone, TypeOK
  <2> QED
    BY <2>1, <2>2 DEF LineInv
<1>13. CASE TimePasses \/ UNCHANGED vars \/ DropOldest \/ RetrySend
  BY <1>1, <1>13 DEF TimePasses, DropOldest, RetrySend, vars
<1>14. ASSUME NEW stop \in BOOLEAN, SendAudio(stop) PROVE LineInv'
  BY <1>1, <1>14 DEF SendAudio
<1> QED
  BY <1>2, <1>3, <1>4, <1>6, <1>7, <1>8, <1>9, <1>10, <1>11, <1>12, <1>13, <1>14
  DEF Next, LoopStep, CloseStep, SetPTT

LEMMA HangPreserved ==
  ASSUME TypeOK, TypeOK', HangInv, [Next]_vars
  PROVE  HangInv'
<1> USE ThreadsDiffer DEF audio, ptt, ending, rest
<1>0. age \in Int /\ age' \in Int /\ HangTime \in Nat
  BY Bounds DEF TypeOK
<1>1. ASSUME UNCHANGED <<setting, transmitting, isRadio>>, age' = age
      PROVE  HangInv'
  BY <1>1 DEF HangInv
<1>2. ASSUME NEW t \in Threads, StartSetPTT(t, FALSE),
             UNCHANGED <<age, transmitting, isRadio>>,
             t = Loop /\ isRadio => age >= HangTime
      PROVE  HangInv'
  <2>1. /\ setting'[t] = [step |-> "record", to |-> FALSE]
        /\ \A n \in Threads : n # t => setting'[n] = setting[n]
    BY <1>2 DEF StartSetPTT, TypeOK
  <2> QED
    BY <1>2, <2>1 DEF HangInv
<1>3. ASSUME NEW t \in Notifiers, NotifyTransmitStop(t) PROVE HangInv'
  BY <1>2, <1>3 DEF NotifyTransmitStop
<1>4. ASSUME NEW t \in Threads, RecordPTT(t) PROVE HangInv'
  <2>1. /\ UNCHANGED <<age, isRadio>> /\ transmitting' = setting[t].to
        /\ setting[t].step = "record"
        /\ \A n \in Threads : n # t => setting'[n] = setting[n]
        /\ setting'[t] = NotSetting \/ (setting'[t].step = "drive" /\ setting'[t].to = setting[t].to)
    BY <1>4 DEF RecordPTT, TypeOK
  <2>2. \A n \in Threads : setting'[n].step # "none" =>
          setting[n].step # "none" /\ setting'[n].to = setting[n].to
    BY <2>1 DEF NotSetting
  <2>3. setting'[Loop].step = "record" => setting'[Loop] = setting[Loop]
    BY <2>1 DEF NotSetting
  <2> QED
    BY <2>1, <2>2, <2>3 DEF HangInv
<1>5. ASSUME NEW t \in Threads, DriveLine(t) PROVE HangInv'
  <2>1. /\ UNCHANGED <<age, isRadio, transmitting>> /\ setting'[t] = NotSetting
        /\ \A n \in Threads : n # t => setting'[n] = setting[n]
    BY <1>5 DEF DriveLine, TypeOK
  <2> QED
    BY <2>1 DEF HangInv, NotSetting
<1>6. CASE CheckHang
  <2>1. isRadio => age >= HangTime
    BY <1>6 DEF CheckHang, Expired
  <2> QED
    BY <1>2, <1>6, <2>1 DEF CheckHang
<1>7. ASSUME UNCHANGED <<setting, transmitting, isRadio>>, age' = 0, Returned(Loop)
      PROVE  HangInv'
  BY <1>0, <1>7 DEF HangInv, Returned
<1>8. CASE TakeStop
  <2>1. CASE isRadio /\ transmitting /\ HangTime = 0
    BY <1>0, <1>2, <1>8, <2>1 DEF TakeStop, StartPTTHang, HangInv
  <2>2. CASE isRadio /\ transmitting /\ HangTime > 0
    <3>1. HangTime # 0
      BY <1>0, <2>2
    <3>2. /\ UNCHANGED <<setting, transmitting, isRadio>> /\ age' = 0
          /\ Returned(Loop)
      BY <1>8, <2>2, <3>1 DEF TakeStop, StartPTTHang, Selecting
    <3> QED
      BY <1>7, <3>2
  <2>3. CASE isRadio /\ ~transmitting
    BY <1>1, <1>8, <2>3 DEF TakeStop, StartPTTHang
  <2>4. CASE ~isRadio
    BY <1>2, <1>8, <2>4 DEF TakeStop
  <2> QED
    BY <1>0, <2>1, <2>2, <2>3, <2>4
<1>9. CASE TakeAudio
  <2>1. CASE UNCHANGED <<age, setting>>
    BY <1>1, <1>9, <2>1 DEF TakeAudio
  <2>2. CASE age' = 0 /\ StartSetPTT(Loop, TRUE)
    <3>1. /\ setting'[Loop] = [step |-> "record", to |-> TRUE]
          /\ \A n \in Threads : n # Loop => setting'[n] = setting[n]
      BY <2>2 DEF StartSetPTT, TypeOK
    <3> QED
      BY <1>9, <2>2, <3>1 DEF TakeAudio, HangInv
  <2> QED
    BY <1>9, <2>1, <2>2 DEF TakeAudio
<1>10. CASE CloseQueue
  BY <1>2, <1>10 DEF CloseQueue
<1>11. CASE TimePasses
  BY <1>0, <1>11 DEF TimePasses, HangInv
<1>12. CASE UNCHANGED <<setting, transmitting, isRadio, age>>
  BY <1>1, <1>12
<1>13. \/ \E stop \in BOOLEAN : SendAudio(stop)
       \/ DropOldest \/ RetrySend \/ WriteChunk \/ LoopQuits \/ CloseQuit \/ CloseLine
       \/ UNCHANGED vars
       => UNCHANGED <<setting, transmitting, isRadio, age>>
  BY DEF SendAudio, DropOldest, RetrySend, WriteChunk, LoopQuits, CloseQuit, CloseLine,
         vars
<1> QED
  BY <1>3, <1>4, <1>5, <1>6, <1>8, <1>9, <1>10, <1>11, <1>12, <1>13
  DEF Next, LoopStep, CloseStep, SetPTT

-----------------------------------------------------------------------------
OutputInv == TypeOK /\ QueueInv /\ CloseInv /\ LineInv /\ HangInv

LEMMA OutputInvariant == Spec => []OutputInv
<1>1. Init => OutputInv
  BY InitInv DEF OutputInv
<1>2. ASSUME OutputInv, [Next]_vars PROVE OutputInv'
  <2>1. TypeOK'
    BY <1>2, TypePreserved DEF OutputInv
  <2> QED
    BY <1>2, <2>1, QueuePreserved, ClosePreserved, LinePreserved, HangPreserved
    DEF OutputInv
<1> QED
  BY <1>1, <1>2, PTL DEF Spec

(* Both players stay in their types, and the queue within its bound.       *)
THEOREM OutputTypeCorrect == Spec => []TypeOK
<1>1. OutputInv => TypeOK
  BY DEF OutputInv
<1> QED
  BY <1>1, OutputInvariant, PTL

(* A full queue costs old chunks and never the newest, and the player      *)
(* takes chunks in the order they came.                                    *)
THEOREM NewestKeptCorrect == Spec => []NewestKept
<1>1. ASSUME OutputInv PROVE NewestKept
  <2>1. /\ Len(queue) \in Nat
        /\ \A i \in 1..Len(queue) : i # 1 => i - 1 \in 1..Len(queue) /\ i - 1 < i
    BY <1>1, ChunkNumbers DEF OutputInv
  <2>2. \A i \in 1..Len(queue) : queue[i].n > taken
    BY <1>1, ChunkNumbers DEF OutputInv, QueueInv
  <2>3. \A i \in 1..Len(queue) : i # 1 => queue[i].n > queue[i - 1].n
    BY <1>1, <2>1, ChunkNumbers DEF OutputInv, QueueInv
  <2> QED
    BY <1>1, <2>2, <2>3 DEF OutputInv, QueueInv, NewestKept
<1> QED
  BY <1>1, OutputInvariant, PTL

(* A closed player leaves no aplay and, if it could let go of the line,    *)
(* the transmitter unkeyed, however setPTT calls overlap.                  *)
THEOREM ClosedMeansUnkeyedCorrect == Spec => []ClosedMeansUnkeyed
<1>1. OutputInv => ClosedMeansUnkeyed
  BY DEF OutputInv, CloseInv, ClosedMeansUnkeyed
<1> QED
  BY <1>1, OutputInvariant, PTL

(* The transmitter is keyed while a chunk is written, as long as nothing   *)
(* but the player has driven the line.                                     *)
THEOREM KeyedWhileWritingCorrect == Spec => []KeyedWhileWriting
<1>1. ASSUME OutputInv PROVE KeyedWhileWriting
  <2>1. loop = "write" => closing \in {"no", "wait"}
    BY <1>1 DEF OutputInv, CloseInv, TypeOK
  <2> QED
    BY <1>1, <2>1 DEF OutputInv, LineInv, KeyedWhileWriting, Returned
<1> QED
  BY <1>1, OutputInvariant, PTL

(* The radio player lets go of the PTT only after the hang time.           *)
THEOREM HangHonouredCorrect == Spec => HangHonoured
<1>1. ASSUME OutputInv, [Next]_vars
      PROVE  [isRadio /\ RecordPTT(Loop) /\ transmitting /\ ~transmitting'
                => age >= HangTime]_vars
  BY <1>1 DEF OutputInv, HangInv, RecordPTT
<1> QED
  BY <1>1, OutputInvariant, PTL DEF Spec, HangHonoured
=============================================================================
