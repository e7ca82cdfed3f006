----------------------------- MODULE PttOutput -----------------------------
(***************************************************************************)
(* A node's audio output with its push-to-talk line: RadioPlayer of        *)
(* cmd/broadcast/radio_player.go and SoundcardOutput of                    *)
(* cmd/interface/soundcard.go, which differ in what the empty chunk at the *)
(* end of a transmission does.                                             *)
(*                                                                         *)
(* The receive loop hands chunks to the player's goroutine over a bounded  *)
(* channel.  The PTT line is driven by that goroutine and by every other   *)
(* one that calls NotifyTransmitStop or Close: setPTT records the new      *)
(* state under the mutex and drives the line after releasing it.           *)
(***************************************************************************)
EXTENDS Integers, Sequences

CONSTANTS
  Loop,        \* the player's own goroutine
  Closer,      \* the goroutine that closes the player at shutdown
  Notifiers,   \* those that call NotifyTransmitStop
  Receiver,    \* the one of them that also calls SendAudio
  HangTime,    \* pttHangTime or interfacePTTHoldDuration
  QueueCap,    \* radioQueueChunks, interfaceAudioQueueChunks
  MaxChunks,   \* bound on the chunks received
  MaxStops,    \* bound on the calls of one notifier
  MaxErrors    \* bound on the writes of the GPIO line that fail

Threads == {Loop, Closer} \cup Notifiers

ASSUME OutputThreads ==
  Loop # Closer /\ Loop \notin Notifiers /\ Closer \notin Notifiers
ASSUME OutputBounds ==
  /\ HangTime \in Nat
  /\ QueueCap \in Nat \ {0} /\ {MaxChunks, MaxStops, MaxErrors} \subseteq Nat

VARIABLES
  isRadio,       \* RadioPlayer, else SoundcardOutput; never changes
  queue,         \* the channel: chunks [n, stop]
  sending,       \* where SendAudio is, and its chunk
  sent,          \* chunks received so far
  quit, closed,  \* quitChan is closed; the queue is closed (radio only)
  panicked,      \* the process died of a send on the closed queue
  transmitting,  \* what setPTT recorded last
  age,           \* time since lastAudioAt, -1 when it is zero
  line,          \* the GPIO line: keyed or not
  lineOpen,      \* the line is still held
  errors,        \* writes of the line that have failed
  aplay,         \* an aplay process is running
  setting,       \* setPTT in progress: thread -> step and value
  loop,          \* where the player's goroutine is
  closing,       \* where Close is
  stops,         \* calls each notifier has made
  taken          \* history: number of the last chunk the loop took

audio  == <<queue, sending, sent, taken>>
ptt    == <<transmitting, line, lineOpen, errors>>
ending == <<quit, closed, closing, panicked>>
rest   == <<isRadio, stops>>
vars   == <<audio, ptt, ending, age, aplay, setting, loop, rest>>

NoChunk == [n |-> 0, stop |-> TRUE]
NotSetting == [step |-> "none", to |-> FALSE]

Init ==
  /\ isRadio \in (IF HangTime = 0 THEN {TRUE} ELSE BOOLEAN)
  /\ queue = <<>> /\ sending = [at |-> "idle", chunk |-> NoChunk] /\ sent = 0
  /\ quit = FALSE /\ closed = FALSE /\ panicked = FALSE /\ closing = "no"
  /\ transmitting = FALSE /\ line = FALSE /\ lineOpen = TRUE /\ errors = 0
  /\ age = -1 /\ aplay = FALSE
  /\ setting = [t \in Threads |-> NotSetting]
  /\ loop = "select" /\ stops = [t \in Notifiers |-> 0] /\ taken = 0

-----------------------------------------------------------------------------
(* setPTT. *)

StartSetPTT(t, active) ==
  setting' = [setting EXCEPT ![t] = [step |-> "record", to |-> active]]

RecordPTT(t) ==
  /\ ~panicked /\ setting[t].step = "record"
  /\ transmitting' = setting[t].to
  /\ setting' = IF transmitting = setting[t].to
                THEN [setting EXCEPT ![t] = NotSetting]
                ELSE [setting EXCEPT ![t].step = "drive"]
  /\ UNCHANGED <<audio, line, lineOpen, errors, ending, age, aplay, loop, rest>>

(* A write of the line that fails changes nothing, and is only logged.     *)
WriteFails == errors < MaxErrors /\ errors' = errors + 1 /\ UNCHANGED line

DriveLine(t) ==
  /\ ~panicked /\ setting[t].step = "drive"
  /\ \/ line' = (IF lineOpen THEN setting[t].to ELSE line) /\ UNCHANGED errors
     \/ WriteFails
  /\ setting' = [setting EXCEPT ![t] = NotSetting]
  /\ UNCHANGED <<audio, transmitting, lineOpen, ending, age, aplay, loop, rest>>

Returned(t) == setting[t].step = "none"

-----------------------------------------------------------------------------
(* SendAudio: a select that picks any ready case, and when the channel is  *)
(* full, one more receive and one more select.  A send on the closed       *)
(* channel is a ready case, and panics.                                    *)

(* Mutant: the channel has no bound. *)
SelectUnbounded(chunk, otherwise) ==
  /\ queue' = Append(queue, chunk)
  /\ sending' = [at |-> "idle", chunk |-> NoChunk]
  /\ UNCHANGED panicked

Select(chunk, otherwise) ==
  \/ /\ ~closed /\ Len(queue) < QueueCap
     /\ queue' = Append(queue, chunk)
     /\ sending' = [at |-> "idle", chunk |-> NoChunk]
     /\ UNCHANGED panicked
  \/ /\ quit
     /\ sending' = [at |-> "idle", chunk |-> NoChunk]
     /\ UNCHANGED <<queue, panicked>>
  \/ /\ closed
     /\ panicked' = TRUE
     /\ UNCHANGED <<queue, sending>>
  \/ /\ ~closed /\ ~quit /\ Len(queue) = QueueCap
     /\ sending' = otherwise
     /\ UNCHANGED <<queue, panicked>>

SendAudio(stop) ==
  /\ ~panicked /\ sending.at = "idle" /\ sent < MaxChunks
  /\ Receiver \in Notifiers => Returned(Receiver)
  /\ quit => isRadio
  /\ sent' = sent + 1
  /\ LET chunk == [n |-> sent', stop |-> stop]
     IN Select(chunk, [at |-> "full", chunk |-> chunk])
  /\ UNCHANGED <<ptt, quit, closed, closing, age, aplay, setting, loop, rest,
                 taken>>

(* Mutant: a full queue drops the chunk at hand. *)
DropNewest ==
  /\ ~panicked /\ sending.at = "full"
  /\ sending' = [at |-> "idle", chunk |-> NoChunk]
  /\ UNCHANGED <<queue, sent, taken, ptt, ending, age, aplay, setting, loop,
                 rest>>

DropOldest ==
  /\ ~panicked /\ sending.at = "full"
  /\ queue' = IF queue = <<>> THEN queue ELSE Tail(queue)
  /\ sending' = [sending EXCEPT !.at = "retry"]
  /\ UNCHANGED <<sent, taken, ptt, ending, age, aplay, setting, loop, rest>>

RetrySend ==
  /\ ~panicked /\ sending.at = "retry"
  /\ Select(sending.chunk, [at |-> "idle", chunk |-> NoChunk])
  /\ UNCHANGED <<sent, ptt, quit, closed, closing, age, aplay, setting, loop,
                 rest, taken>>

(* The server terminated the session, or its heartbeats ceased.            *)
NotifyTransmitStop(t) ==
  /\ ~panicked /\ Returned(t) /\ stops[t] < MaxStops
  /\ t = Receiver => sending.at = "idle"
  /\ stops' = [stops EXCEPT ![t] = @ + 1]
  /\ StartSetPTT(t, FALSE)
  /\ UNCHANGED <<isRadio, audio, ptt, ending, age, aplay, loop>>

-----------------------------------------------------------------------------
(* playLoop. *)

Selecting == ~panicked /\ loop = "select" /\ Returned(Loop)

(* Mutant: the hang time is not waited for. *)
ExpiredEarly == age >= 0
(* Mutant: the hang never ends. *)
ExpiredNever == FALSE
Expired == age >= 0 /\ (IF isRadio THEN age >= HangTime ELSE age > HangTime)

CheckHang ==
  /\ Selecting /\ transmitting /\ Expired
  /\ StartSetPTT(Loop, FALSE)
  /\ UNCHANGED <<audio, ptt, ending, age, aplay, loop, rest>>

Take == /\ queue # <<>>
        /\ queue' = Tail(queue) /\ taken' = Head(queue).n
        /\ UNCHANGED <<sending, sent>>

(* RadioPlayer.startPTTHang *)
StartPTTHang ==
  /\ age' = IF transmitting /\ HangTime > 0 THEN 0 ELSE age
  /\ IF transmitting /\ HangTime = 0 THEN StartSetPTT(Loop, FALSE)
                                     ELSE UNCHANGED setting

TakeStop ==
  /\ Selecting /\ Take /\ Head(queue).stop
  /\ IF isRadio THEN StartPTTHang
                ELSE StartSetPTT(Loop, FALSE) /\ UNCHANGED age
  /\ UNCHANGED <<ptt, ending, aplay, loop, rest>>

(* Mutant: the PTT is keyed only when aplay is started. *)
TakeAudioKeyedOnce ==
  /\ Selecting /\ Take /\ ~Head(queue).stop
  /\ aplay' = TRUE /\ age' = 0 /\ loop' = "write"
  /\ IF aplay THEN UNCHANGED setting ELSE StartSetPTT(Loop, TRUE)
  /\ UNCHANGED <<ptt, ending, rest>>

(* writeChunk: no aplay, no PTT. *)
TakeAudio ==
  /\ Selecting /\ Take /\ ~Head(queue).stop
  /\ \/ /\ aplay' = TRUE /\ age' = 0
        /\ StartSetPTT(Loop, TRUE) /\ loop' = "write"
     \/ /\ aplay' = FALSE                    \* aplay cannot be started
        /\ UNCHANGED <<age, setting, loop>>
  /\ UNCHANGED <<ptt, ending, rest>>

WriteChunk ==
  /\ ~panicked /\ loop = "write" /\ Returned(Loop)
  /\ aplay' \in BOOLEAN                      \* a failed write ends aplay
  /\ loop' = "select"
  /\ UNCHANGED <<audio, ptt, ending, age, setting, rest>>

LoopQuits ==
  /\ Selecting /\ quit
  /\ loop' = "done"
  /\ UNCHANGED <<audio, ptt, ending, age, aplay, setting, rest>>

-----------------------------------------------------------------------------
(* Close: SoundcardOutput's is deferred until the receive loop has ended,  *)
(* RadioPlayer's is called while it runs.                                  *)

CloseQuit ==
  /\ ~panicked /\ closing = "no" /\ (isRadio \/ sending.at = "idle")
  /\ quit' = TRUE /\ closing' = "wait"
  /\ UNCHANGED <<audio, ptt, closed, panicked, age, aplay, setting, loop, rest>>

(* Only RadioPlayer closes its queue. *)
CloseQueue ==
  /\ ~panicked /\ closing = "wait" /\ loop = "done"
  /\ closed' = isRadio /\ closing' = "unkey"
  /\ StartSetPTT(Closer, FALSE)
  /\ UNCHANGED <<audio, ptt, quit, panicked, age, aplay, loop, rest>>

(* Mutant: closing the line leaves it as it is. *)
CloseLineKeyed ==
  /\ ~panicked /\ closing = "unkey" /\ Returned(Closer)
  /\ aplay' = FALSE /\ lineOpen' = FALSE
  /\ closing' = "done"
  /\ UNCHANGED <<audio, transmitting, line, errors, quit, closed, panicked, age,
                 setting, loop, rest>>

(* stopProcessLocked, and GPIOPTT.Close, which drives the line low and     *)
(* lets go of it, or returns the error of the write.                       *)
CloseLine ==
  /\ ~panicked /\ closing = "unkey" /\ Returned(Closer)
  /\ aplay' = FALSE /\ closing' = "done"
  /\ \/ line' = FALSE /\ lineOpen' = FALSE /\ UNCHANGED errors
     \/ WriteFails /\ UNCHANGED lineOpen
  /\ UNCHANGED <<audio, transmitting, quit, closed, panicked, age, setting,
                 loop, rest>>

TimePasses ==
  /\ ~panicked /\ age \in 0..HangTime
  /\ age' = age + 1
  /\ UNCHANGED <<audio, ptt, ending, aplay, setting, loop, rest>>

LoopStep == CheckHang \/ TakeStop \/ TakeAudio \/ WriteChunk \/ LoopQuits
CloseStep == CloseQueue \/ CloseLine
SetPTT(t) == RecordPTT(t) \/ DriveLine(t)

Next ==
  \/ \E stop \in BOOLEAN : SendAudio(stop)
  \/ DropOldest \/ RetrySend
  \/ \E t \in Notifiers : NotifyTransmitStop(t)
  \/ \E t \in Threads : SetPTT(t)
  \/ LoopStep \/ CloseQuit \/ CloseStep \/ TimePasses

Spec == Init /\ [][Next]_vars

(* Goroutines run on, time passes and a close that has begun goes on.      *)
FairSpec ==
  /\ Spec /\ WF_vars(LoopStep) /\ WF_vars(CloseStep) /\ WF_vars(TimePasses)
  /\ WF_vars(DropOldest \/ RetrySend)
  /\ \A t \in Threads : WF_vars(SetPTT(t))

-----------------------------------------------------------------------------
Chunks == [n : 0..MaxChunks, stop : BOOLEAN]

TypeOK ==
  /\ isRadio \in BOOLEAN
  /\ queue \in Seq(Chunks) /\ Len(queue) <= QueueCap
  /\ sending \in [at : {"idle", "full", "retry"}, chunk : Chunks]
  /\ sent \in 0..MaxChunks /\ taken \in 0..MaxChunks
  /\ quit \in BOOLEAN /\ closed \in BOOLEAN /\ panicked \in BOOLEAN
  /\ transmitting \in BOOLEAN /\ line \in BOOLEAN /\ lineOpen \in BOOLEAN
  /\ aplay \in BOOLEAN
  /\ age \in -1..(HangTime + 1)
  /\ setting \in [Threads -> [step : {"none", "record", "drive"}, to : BOOLEAN]]
  /\ loop \in {"select", "write", "done"}
  /\ closing \in {"no", "wait", "unkey", "done"}
  /\ stops \in [Notifiers -> 0..MaxStops] /\ errors \in 0..MaxErrors

(* A full queue costs old chunks, never the newest: what SendAudio was     *)
(* given last is the last in the queue or was the last the loop took, and  *)
(* the loop takes chunks in the order they came.                           *)
NewestKept ==
  /\ sending.at = "idle" /\ ~quit =>
       sent = IF queue = <<>> THEN taken ELSE queue[Len(queue)].n
  /\ \A i \in 1..Len(queue) :
       queue[i].n > (IF i = 1 THEN taken ELSE queue[i - 1].n)

(* Whatever setPTT calls overlap, and whichever writes of the line failed  *)
(* before, a player that has been closed leaves no aplay behind and, when  *)
(* it could let go of the line, the transmitter unkeyed.                   *)
ClosedMeansUnkeyed == closing = "done" => ~aplay /\ (line => lineOpen)

(* "For Radio nodes, HangTimeMS keeps the GPIO PTT asserted after audio    *)
(* ends": the player itself never lets go of the PTT before the hang time  *)
(* has passed since the last audio it wrote or the stop chunk after it.    *)
HangHonoured ==
  [][isRadio /\ RecordPTT(Loop) /\ transmitting /\ ~transmitting'
       => age >= HangTime]_vars

(* No NotifyTransmitStop has been called: only the player drives the PTT;  *)
(* and no write of the line has failed.                                    *)
Alone == errors = 0 /\ \A t \in Notifiers : stops[t] = 0

(* As long as no NotifyTransmitStop was called and the line could be       *)
(* written, the transmitter is keyed while a chunk is written to aplay.    *)
KeyedWhileWriting == Alone /\ loop = "write" /\ Returned(Loop) => line

(* ... and when no more audio comes the PTT is released in the end, by the *)
(* hang time or by the stop chunk, at the latest by the next one.          *)
ReleasedAlone == []<>(~line \/ panicked \/ ~Alone)

(* "HangTimeMS keeps the GPIO PTT asserted after audio ends [...] 0        *)
(* releases PTT immediately": also when the session ended meanwhile, the   *)
(* PTT is released in the end.                                             *)
PTTReleased == []<>(~line \/ panicked)
=============================================================================
