------------------------- MODULE ModelRuntimeProofs -------------------------
(***************************************************************************)
(* Proofs for ModelRuntime: any number of adapters and segments, a queue   *)
(* of any size, any number of stray lines, requests, kills and interrupts. *)
(***************************************************************************)
EXTENDS ModelRuntimeProperties, TLAPS

USE NamesAssumption, BoundsAssumption

(***************************************************************************)
(* The queue.                                                              *)
(***************************************************************************)
\* _offer keeps the queue typed, within its limit, and of fitting answers.
LEMMA OfferKeeps ==
    ASSUME RuntimeTypeOK, AnswerInv, NEW a \in Adapters, NEW r \in Responses,
           Fits(r, ask[a]), Offer(a, r), ask' = ask
    PROVE  /\ queue' \in [Adapters -> Seq(Responses)]
           /\ \A b \in Adapters : Len(queue'[b]) <= QueueSize
           /\ reading' \in [Adapters -> {"open", "stopping", "done"}]
           /\ AnswerInv'
<1> DEFINE failure == [kind |-> "failure"]
           closed == [kind |-> "closed"]
<1>1. /\ queue \in [Adapters -> Seq(Responses)]
      /\ \A b \in Adapters : Len(queue[b]) <= QueueSize
      /\ reading \in [Adapters -> {"open", "stopping", "done"}]
  BY DEF RuntimeTypeOK
<1>2. failure \in Responses /\ closed \in Responses
  BY DEF Responses
<1>3. Fits(failure, ask[a]) /\ Fits(closed, ask[a])
  BY DEF Fits
<1>4. CASE reading[a] = "done"
  <2>1. queue' = queue /\ reading' = reading
    BY <1>4 DEF Offer
  <2> QED
    BY <1>1, <2>1 DEF AnswerInv
<1>5. CASE reading[a] # "done"
  <2> DEFINE line == IF reading[a] = "stopping" THEN closed ELSE r
  <2>1. line \in Responses /\ Fits(line, ask[a])
    BY <1>2, <1>3
  <2>2. PICK q \in Seq(Responses) :
             /\ queue' = [queue EXCEPT ![a] = q]
             /\ Len(q) <= QueueSize
             /\ \A n \in 1..Len(q) : Fits(q[n], ask[a])
    <3>1. CASE Len(queue[a]) = QueueSize
      <4> DEFINE t == Tail(queue[a])
                 q == Append(t, failure)
      <4>1. queue' = [queue EXCEPT ![a] = q]
        BY <1>5, <3>1 DEF Offer
      <4>2. queue[a] \in Seq(Responses) /\ queue[a] # <<>>
        BY <1>1, <3>1
      <4>3. /\ t \in Seq(Responses) /\ Len(t) = Len(queue[a]) - 1
            /\ \A n \in 1..Len(t) : t[n] = queue[a][n + 1]
        BY <4>2
      <4>4. \A n \in 1..Len(t) : Fits(t[n], ask[a])
        BY <4>2, <4>3 DEF AnswerInv
      <4> HIDE DEF t, failure
      <4>5. /\ q \in Seq(Responses) /\ Len(q) = Len(t) + 1 /\ q[Len(t) + 1] = failure
            /\ \A n \in 1..Len(t) : q[n] = t[n]
        BY <1>2, <4>3
      <4>6. \A n \in 1..Len(q) : Fits(q[n], ask[a])
        BY <4>3, <4>4, <4>5, <1>3
      <4>7. Len(q) <= QueueSize
        BY <4>3, <4>5, <3>1
      <4> QED
        BY <4>1, <4>5, <4>6, <4>7
    <3>2. CASE Len(queue[a]) # QueueSize
      <4> DEFINE t == queue[a]
                 q == Append(t, line)
      <4>1. queue' = [queue EXCEPT ![a] = q]
        BY <1>5, <3>2 DEF Offer
      <4>2. t \in Seq(Responses) /\ Len(t) < QueueSize
        BY <1>1, <3>2
      <4>3. \A n \in 1..Len(t) : Fits(t[n], ask[a])
        BY DEF AnswerInv
      <4> HIDE DEF t, line
      <4>4. /\ q \in Seq(Responses) /\ Len(q) = Len(t) + 1 /\ q[Len(t) + 1] = line
            /\ \A n \in 1..Len(t) : q[n] = t[n]
        BY <2>1, <4>2
      <4>5. \A n \in 1..Len(q) : Fits(q[n], ask[a])
        BY <4>2, <4>3, <4>4, <2>1
      <4>6. Len(q) <= QueueSize
        BY <4>2, <4>4
      <4> QED
        BY <4>1, <4>4, <4>5, <4>6
    <3> QED
      BY <3>1, <3>2
  <2>3. reading' \in [Adapters -> {"open", "stopping", "done"}]
    BY <1>1, <1>5 DEF Offer
  <2>4. AnswerInv'
    BY <1>1, <2>2 DEF AnswerInv
  <2> QED
    BY <1>1, <2>2, <2>3, <2>4
<1> QED
  BY <1>4, <1>5

(***************************************************************************)
(* Every step keeps every part of the invariant.                           *)
(***************************************************************************)
\* What an action of the worker tells the reader.
LEMMA Spoken ==
    ASSUME RuntimeInv, NEW a \in Adapters, worker[a] \in Alive
    PROVE  LET ready == [kind |-> "ready", id |-> 0, segment |-> None]
               answer == [kind |-> "answer", id |-> ask[a].id, segment |-> ask[a].segment]
           IN  /\ \A r \in {ready, [kind |-> "failure"], [kind |-> "closed"],
                             [kind |-> "other"]} : r \in Responses /\ Fits(r, ask[a])
               /\ ask[a].id > 0 => answer \in Responses /\ Fits(answer, ask[a])
<1>1. ask[a] \in [id : 0..MaxRequests, segment : Segments \cup {None}]
  BY DEF RuntimeInv, RuntimeTypeOK
<1>2. ask[a].id > 0 => ask[a].segment \in Segments
  BY DEF RuntimeInv, AskInv
<1> QED
  BY <1>1, <1>2 DEF Responses, Fits

\* The queues keep their type, their limit and their answers.
LEMMA QueueStep ==
    ASSUME RuntimeInv, RuntimeNext
    PROVE  /\ queue' \in [Adapters -> Seq(Responses)]
           /\ \A a \in Adapters : Len(queue'[a]) <= QueueSize
           /\ reading' \in [Adapters -> {"open", "stopping", "done"}]
           /\ AnswerInv'
<1> DEFINE Kept == /\ queue' \in [Adapters -> Seq(Responses)]
                   /\ \A a \in Adapters : Len(queue'[a]) <= QueueSize
                   /\ reading' \in [Adapters -> {"open", "stopping", "done"}]
                   /\ AnswerInv'
<1> USE DEF RuntimeInv
<1>1. /\ queue \in [Adapters -> Seq(Responses)]
      /\ \A a \in Adapters : Len(queue[a]) <= QueueSize
      /\ reading \in [Adapters -> {"open", "stopping", "done"}]
      /\ ask \in [Adapters -> [id : 0..MaxRequests, segment : Segments \cup {None}]]
  BY DEF RuntimeTypeOK
<1>2. ASSUME UNCHANGED <<queue, reading, ask>> PROVE Kept
  BY <1>1, <1>2 DEF AnswerInv
\* A new queue is empty, and a new request has an ID no answer has yet.
<1>3. ASSUME NEW a \in Adapters,
             queue' = [queue EXCEPT ![a] = <<>>],
             \A b \in Adapters \ {a} : ask'[b] = ask[b],
             reading' \in [Adapters -> {"open", "stopping", "done"}]
      PROVE  Kept
  <2>1. \A b \in Adapters \ {a} : queue'[b] = queue[b]
    BY <1>1, <1>3
  <2>2. queue'[a] = <<>> /\ Len(queue'[a]) = 0
    BY <1>1, <1>3
  <2>3. queue' \in [Adapters -> Seq(Responses)]
    BY <1>1, <1>3
  <2>4. AnswerInv'
    BY <1>3, <2>1, <2>2 DEF AnswerInv
  <2> QED
    BY <1>1, <1>3, <2>1, <2>2, <2>3, <2>4
<1>4. ASSUME NEW a \in Adapters, queue[a] # <<>>,
             queue' = [queue EXCEPT ![a] = Tail(@)], UNCHANGED <<reading, ask>>
      PROVE  Kept
  <2> DEFINE t == Tail(queue[a])
  <2>1. queue[a] \in Seq(Responses)
    BY <1>1
  <2>2. /\ t \in Seq(Responses) /\ Len(t) = Len(queue[a]) - 1
        /\ \A n \in 1..Len(t) : t[n] = queue[a][n + 1] /\ n + 1 \in 1..Len(queue[a])
    BY <1>4, <2>1
  <2>3. \A n \in 1..Len(t) : Fits(t[n], ask[a])
    BY <2>2 DEF AnswerInv
  <2> HIDE DEF t
  <2>4. queue' = [queue EXCEPT ![a] = t]
    BY <1>4 DEF t
  <2>5. AnswerInv'
    BY <1>1, <1>4, <2>3, <2>4 DEF AnswerInv
  <2> QED
    BY <1>1, <1>4, <2>1, <2>2, <2>4, <2>5
<1>5. ASSUME NEW a \in Adapters, UNCHANGED <<queue, reading>>,
             NEW s \in Segments,
             ask' = [ask EXCEPT ![a] = [id |-> @.id + 1, segment |-> s]]
      PROVE  Kept
  <2>1. \A n \in 1..Len(queue[a]) : Fits(queue[a][n], ask'[a])
    <3>1. TAKE n \in 1..Len(queue[a])
    <3>2. ask'[a].id = ask[a].id + 1 /\ ask'[a].segment = s
      BY <1>1, <1>5
    <3>3. Fits(queue[a][n], ask[a])
      BY DEF AnswerInv
    <3>4. queue[a] \in Seq(Responses)
      BY <1>1
    <3>5. queue[a][n] \in Responses
      BY <3>4
    <3>6. ask[a].id \in Nat
      BY <1>1
    <3>7. queue[a][n].kind = "answer" => queue[a][n].id \in Nat
      BY <3>5 DEF Responses
    <3> QED
      BY <3>2, <3>3, <3>6, <3>7 DEF Fits
  <2> QED
    BY <1>1, <1>5, <2>1 DEF AnswerInv
<1>6. ASSUME NEW a \in Adapters, NEW r \in Responses, Fits(r, ask[a]),
             Offer(a, r), UNCHANGED ask
      PROVE  Kept
  BY <1>6, OfferKeeps
<1> HIDE DEF Kept
<1>7. ASSUME NEW a \in Adapters, AdapterStep(a) PROVE Kept
  <2>1. CASE AcquireSlot(a) \/ WriteOwner(a) \/ UnlinkOwner(a) \/ ReleaseSlot(a)
    BY <2>1, <1>2 DEF AcquireSlot, WriteOwner, UnlinkOwner, ReleaseSlot
  <2>2. CASE Spawn(a)
    BY <2>2, <1>1, <1>2, <1>3 DEF Spawn
  <2>3. CASE AwaitReady(a)
    BY <2>3, <1>2, <1>4 DEF AwaitReady
  <2>4. CASE AwaitAnswer(a)
    BY <2>4, <1>2, <1>4 DEF AwaitAnswer
  <2>5. CASE AwaitExit(a) \/ KillGroup(a)
    BY <2>5, <1>1, <1>2, <1>3 DEF AwaitExit, KillGroup
  <2> QED
    BY <1>7, <2>1, <2>2, <2>3, <2>4, <2>5 DEF AdapterStep
<1>8. ASSUME NEW a \in Adapters, UserStep(a) PROVE Kept
  <2>1. CASE Start(a) \/ Close(a)
    BY <2>1, <1>2 DEF Start, Close
  <2>2. CASE Request(a)
    BY <2>2, <1>2, <1>5 DEF Request
  <2> QED
    BY <1>8, <2>1, <2>2 DEF UserStep
<1>9. ASSUME NEW a \in Adapters, WorkerStep(a) PROVE Kept
  <2>1. CASE Load(a)
    BY <2>1, <1>6, Spoken DEF Load, Alive
  <2>2. CASE Answer(a)
    BY <2>2, <1>6, Spoken DEF Answer, Alive, AskInv
  <2>3. CASE PrintLine(a)
    BY <2>3, <1>6, Spoken DEF PrintLine, Running
  <2>4. CASE Hang(a)
    BY <2>4, <1>2 DEF Hang
  <2>5. CASE Exit(a)
    BY <2>5, <1>6, Spoken DEF Exit
  <2> QED
    BY <1>9, <2>1, <2>2, <2>3, <2>4, <2>5 DEF WorkerStep
<1>10. ASSUME NEW a \in Adapters, Kill(a) \/ Interrupt(a) \/ OrphanExits(a) PROVE Kept
  <2>1. CASE Kill(a)
    BY <2>1, <1>1, <1>3 DEF Kill, Abandon
  <2>2. CASE Interrupt(a)
    BY <2>2, <1>1, <1>2, <1>3 DEF Interrupt, Abandon
  <2>3. CASE OrphanExits(a)
    BY <2>3, <1>2 DEF OrphanExits
  <2> QED
    BY <1>10, <2>1, <2>2, <2>3
<1>11. ASSUME BeginProbe \/ EndProbe PROVE Kept
  BY <1>11, <1>2 DEF BeginProbe, EndProbe
<1> QED
  BY <1>7, <1>8, <1>9, <1>10, <1>11 DEF RuntimeNext, Kept

\* What is asked, and what comes back.
LEMMA AskStep ==
    ASSUME RuntimeInv, RuntimeNext
    PROVE  AskInv'
<1> USE DEF RuntimeInv
<1>1. /\ pc \in [Adapters -> Places]
      /\ worker \in [Adapters -> Alive \cup {"none", "gone"}]
      /\ ask \in [Adapters -> [id : 0..MaxRequests, segment : Segments \cup {None}]]
  BY DEF RuntimeTypeOK
<1>2. ASSUME NEW a \in Adapters, AdapterStep(a) PROVE AskInv'
  <2>1. CASE AcquireSlot(a) \/ WriteOwner(a) \/ UnlinkOwner(a) \/ ReleaseSlot(a)
    BY <1>1, <2>1 DEF AskInv, Goto, AcquireSlot, WriteOwner, UnlinkOwner, ReleaseSlot
  <2>2. CASE Spawn(a)
    BY <1>1, <2>2 DEF AskInv, Goto, Spawn
  <2>3. CASE AwaitReady(a) \/ AwaitAnswer(a)
    BY <1>1, <2>3 DEF AskInv, Goto, AwaitReady, AwaitAnswer
  <2>4. CASE AwaitExit(a) \/ KillGroup(a)
    BY <1>1, <2>4 DEF AskInv, Goto, AwaitExit, KillGroup
  <2> QED
    BY <1>2, <2>1, <2>2, <2>3, <2>4 DEF AdapterStep
<1>3. ASSUME NEW a \in Adapters, UserStep(a) PROVE AskInv'
  BY <1>1, <1>3 DEF AskInv, Goto, Places, UserStep, Start, Request, Close
<1>4. ASSUME NEW a \in Adapters, WorkerStep(a) PROVE AskInv'
  <2>1. UNCHANGED <<pc, ask>> /\ \A b \in Adapters : worker'[b] = "busy" => worker[b] = "busy"
    <3>1. CASE Load(a) \/ Answer(a)
      BY <1>1, <3>1 DEF Load, Answer
    <3>2. CASE PrintLine(a)
      BY <3>2 DEF PrintLine
    <3>3. CASE Hang(a) \/ Exit(a)
      BY <1>1, <3>3 DEF Hang, Exit
    <3> QED
      BY <1>4, <3>1, <3>2, <3>3 DEF WorkerStep
  <2> QED
    BY <2>1 DEF AskInv
<1>5. ASSUME NEW a \in Adapters, Kill(a) \/ Interrupt(a) \/ OrphanExits(a) PROVE AskInv'
  <2>1. CASE Kill(a)
    BY <1>1, <2>1 DEF AskInv, Goto, Kill, Abandon
  <2>2. CASE Interrupt(a)
    BY <1>1, <2>2 DEF AskInv, Goto, Interrupt, Abandon
  <2>3. CASE OrphanExits(a)
    BY <2>3 DEF AskInv, OrphanExits
  <2> QED
    BY <1>5, <2>1, <2>2, <2>3
<1>6. ASSUME BeginProbe \/ EndProbe PROVE AskInv'
  BY <1>6 DEF AskInv, BeginProbe, EndProbe
<1> QED
  BY <1>2, <1>3, <1>4, <1>5, <1>6 DEF RuntimeNext

\* Between acquire and release an adapter keeps the slot, and nobody else gets
\* it; its worker is gone before it lets go.
LEMMA SlotStep ==
    ASSUME RuntimeInv, RuntimeNext
    PROVE  SlotInv'
<1> USE DEF RuntimeInv, SlotInv, Holding, WithWorker
<1>1. /\ pc \in [Adapters -> Places]
      /\ worker \in [Adapters -> Alive \cup {"none", "gone"}]
  BY DEF RuntimeTypeOK
<1>2. ASSUME NEW a \in Adapters, AdapterStep(a) PROVE SlotInv'
  <2>1. CASE AcquireSlot(a)
    BY <1>1, <2>1 DEF AcquireSlot, Goto
  <2>2. CASE WriteOwner(a)
    BY <1>1, <2>2 DEF WriteOwner, Goto
  <2>3. CASE Spawn(a)
    BY <1>1, <2>3 DEF Spawn, Goto
  <2>4. CASE AwaitReady(a) \/ AwaitAnswer(a)
    BY <1>1, <2>4 DEF AwaitReady, AwaitAnswer, Goto
  <2>5. CASE AwaitExit(a) \/ KillGroup(a)
    BY <1>1, <2>5 DEF AwaitExit, KillGroup, Goto
  <2>6. CASE UnlinkOwner(a) \/ ReleaseSlot(a)
    BY <1>1, <2>6 DEF UnlinkOwner, ReleaseSlot, Goto
  <2> QED
    BY <1>2, <2>1, <2>2, <2>3, <2>4, <2>5, <2>6 DEF AdapterStep
<1>3. ASSUME NEW a \in Adapters, UserStep(a) PROVE SlotInv'
  BY <1>1, <1>3 DEF Goto, UserStep, Start, Request, Close
<1>4. ASSUME NEW a \in Adapters, WorkerStep(a) PROVE SlotInv'
  BY <1>1, <1>4 DEF WorkerStep, Load, Answer, PrintLine, Hang, Exit, Running, Alive
<1>5. ASSUME NEW a \in Adapters, Kill(a) \/ Interrupt(a) \/ OrphanExits(a) PROVE SlotInv'
  BY <1>1, <1>5 DEF Goto, Kill, Interrupt, OrphanExits, Abandon
<1>6. ASSUME BeginProbe \/ EndProbe PROVE SlotInv'
  BY <1>6 DEF BeginProbe, EndProbe
<1> QED
  BY <1>2, <1>3, <1>4, <1>5, <1>6 DEF RuntimeNext

\* Whoever removes the owner record holds the lock or finds its own.
LEMMA OwnerStep ==
    ASSUME RuntimeInv, RuntimeNext
    PROVE  OwnerNamesHolder'
<1> USE DEF RuntimeInv, OwnerNamesHolder, SlotInv, Holding
<1>1. pc \in [Adapters -> Places]
  BY DEF RuntimeTypeOK
<1>2. ASSUME NEW a \in Adapters, AdapterStep(a) PROVE OwnerNamesHolder'
  <2>1. CASE AcquireSlot(a) \/ Spawn(a)
    BY <1>1, <2>1 DEF AcquireSlot, Spawn, Goto
  <2>2. CASE WriteOwner(a)
    BY <1>1, <2>2 DEF WriteOwner, Goto
  <2>3. CASE AwaitReady(a) \/ AwaitAnswer(a) \/ AwaitExit(a) \/ KillGroup(a)
    BY <1>1, <2>3 DEF AwaitReady, AwaitAnswer, AwaitExit, KillGroup, Goto
  <2>4. CASE UnlinkOwner(a)
    BY <1>1, <2>4 DEF UnlinkOwner, Goto
  <2>5. CASE ReleaseSlot(a)
    BY <1>1, <2>5 DEF ReleaseSlot, Goto
  <2> QED
    BY <1>2, <2>1, <2>2, <2>3, <2>4, <2>5 DEF AdapterStep
<1>3. ASSUME NEW a \in Adapters, UserStep(a) PROVE OwnerNamesHolder'
  BY <1>1, <1>3 DEF Goto, UserStep, Start, Request, Close
<1>4. ASSUME NEW a \in Adapters, WorkerStep(a) PROVE OwnerNamesHolder'
  BY <1>4 DEF WorkerStep, Load, Answer, PrintLine, Hang, Exit
<1>5. ASSUME NEW a \in Adapters, Kill(a) \/ Interrupt(a) \/ OrphanExits(a)
      PROVE  OwnerNamesHolder'
  BY <1>1, <1>5 DEF Goto, Kill, Interrupt, OrphanExits
<1>6. ASSUME BeginProbe \/ EndProbe PROVE OwnerNamesHolder'
  BY <1>6 DEF BeginProbe, EndProbe
<1> QED
  BY <1>2, <1>3, <1>4, <1>5, <1>6 DEF RuntimeNext

\* Audio is taken from an answer with the ID of the request.
LEMMA AudioStep ==
    ASSUME RuntimeInv, RuntimeNext
    PROVE  /\ audio' \in [Adapters -> [wanted : Segments, got : Segments] \cup {None}]
           /\ AudioIsOfItsSegment'
<1> DEFINE Sound == /\ audio' \in [Adapters -> [wanted : Segments, got : Segments] \cup {None}]
                    /\ AudioIsOfItsSegment'
<1>1. /\ audio \in [Adapters -> [wanted : Segments, got : Segments] \cup {None}]
      /\ queue \in [Adapters -> Seq(Responses)]
  BY DEF RuntimeInv, RuntimeTypeOK
<1>2. ASSUME audio' = audio PROVE Sound
  BY <1>1, <1>2 DEF RuntimeInv, AudioIsOfItsSegment
<1>3. ASSUME NEW a \in Adapters, audio' = [audio EXCEPT ![a] = None] PROVE Sound
  BY <1>1, <1>3 DEF RuntimeInv, AudioIsOfItsSegment
<1>4. ASSUME NEW a \in Adapters, AwaitAnswer(a) PROVE Sound
  <2>1. CASE audio' = audio
    BY <2>1, <1>2
  <2>2. CASE audio' # audio
    <3> DEFINE r == Head(queue[a])
    <3>1. /\ queue[a] # <<>> /\ Matches(r, a) /\ pc[a] = "waiting"
          /\ audio' = [audio EXCEPT ![a] = [wanted |-> ask[a].segment,
                                            got    |-> r.segment]]
      BY <1>4, <2>2 DEF AwaitAnswer
    <3>2. 1 \in 1..Len(queue[a]) /\ r = queue[a][1]
      BY <1>1, <3>1
    <3>3. Fits(r, ask[a])
      BY <3>2 DEF RuntimeInv, AnswerInv
    <3>4. r.segment \in Segments /\ ask[a].segment = r.segment
      BY <3>1, <3>3 DEF Matches, Fits
    <3> QED
      BY <1>1, <3>1, <3>4 DEF RuntimeInv, AudioIsOfItsSegment
  <2> QED
    BY <2>1, <2>2
<1> HIDE DEF Sound
<1>5. ASSUME NEW a \in Adapters, AdapterStep(a) PROVE Sound
  BY <1>5, <1>2, <1>4 DEF AdapterStep, AcquireSlot, WriteOwner, UnlinkOwner,
     ReleaseSlot, Spawn, AwaitReady, AwaitExit, KillGroup
<1>6. ASSUME NEW a \in Adapters, UserStep(a) PROVE Sound
  BY <1>6, <1>2, <1>3 DEF UserStep, Start, Request, Close
<1>7. ASSUME NEW a \in Adapters, WorkerStep(a) PROVE Sound
  BY <1>7, <1>2 DEF WorkerStep, Load, Answer, PrintLine, Hang, Exit
<1>8. ASSUME NEW a \in Adapters, Kill(a) \/ Interrupt(a) \/ OrphanExits(a) PROVE Sound
  BY <1>8, <1>2, <1>3 DEF Kill, Interrupt, OrphanExits
<1>9. ASSUME BeginProbe \/ EndProbe PROVE Sound
  BY <1>9, <1>2 DEF BeginProbe, EndProbe
<1> QED
  BY <1>5, <1>6, <1>7, <1>8, <1>9 DEF RuntimeNext, Sound

\* The variables no other lemma is about keep their types.
LEMMA TypeStep ==
    ASSUME RuntimeInv, RuntimeNext
    PROVE  RuntimeTypeOK'
<1> DEFINE T == /\ slot' \in Adapters \cup {Probe, None}
                /\ owner' \in Owners \cup {None}
                /\ pc' \in [Adapters -> Places]
                /\ worker' \in [Adapters -> Alive \cup {"none", "gone"}]
                /\ ask' \in [Adapters -> [id : 0..MaxRequests, segment : Segments \cup {None}]]
                /\ orphans' \subseteq Adapters
                /\ lines' \in 0..MaxLines
                /\ breaks' \in 0..MaxBreaks
<1>1. /\ slot \in Adapters \cup {Probe, None}
      /\ owner \in Owners \cup {None}
      /\ pc \in [Adapters -> Places]
      /\ worker \in [Adapters -> Alive \cup {"none", "gone"}]
      /\ ask \in [Adapters -> [id : 0..MaxRequests, segment : Segments \cup {None}]]
      /\ orphans \subseteq Adapters
      /\ lines \in 0..MaxLines
      /\ breaks \in 0..MaxBreaks
  BY DEF RuntimeInv, RuntimeTypeOK
<1> USE <1>1 DEF Places, Alive, Goto
<1>2. ASSUME NEW a \in Adapters, AdapterStep(a) PROVE T
  <2>1. CASE AcquireSlot(a) \/ WriteOwner(a) \/ UnlinkOwner(a) \/ ReleaseSlot(a)
    <3>1. CASE AcquireSlot(a)
      BY <3>1 DEF AcquireSlot
    <3>2. CASE WriteOwner(a)
      <4>1. pc' = [pc EXCEPT ![a] = "spawn"] \/ pc' = [pc EXCEPT ![a] = "closed"]
        BY <3>2 DEF WriteOwner
      <4>2. slot' \in Adapters \cup {Probe, None}
        BY <3>2 DEF WriteOwner
      <4>3. owner' = [by |-> a, live |-> TRUE] \/ owner' = owner
        BY <3>2 DEF WriteOwner
      <4>4. [by |-> a, live |-> TRUE] \in Owners
        BY Zenon DEF Owners
      <4>5. UNCHANGED <<worker, ask, orphans, lines, breaks>>
        BY <3>2 DEF WriteOwner
      <4> QED
        BY <4>1, <4>2, <4>3, <4>4, <4>5
    <3>3. CASE UnlinkOwner(a)
      BY <3>3 DEF UnlinkOwner
    <3>4. CASE ReleaseSlot(a)
      BY <3>4 DEF ReleaseSlot
    <3> QED
      BY <2>1, <3>1, <3>2, <3>3, <3>4
  <2>2. CASE Spawn(a)
    <3>1. [id |-> 0, segment |-> None]
            \in [id : 0..MaxRequests, segment : Segments \cup {None}]
      OBVIOUS
    <3>2. /\ pc' \in [Adapters -> Places]
          /\ worker' \in [Adapters -> Alive \cup {"none", "gone"}]
      BY <2>2 DEF Spawn
    <3>3. ask' \in [Adapters -> [id : 0..MaxRequests, segment : Segments \cup {None}]]
      BY <2>2, <3>1 DEF Spawn
    <3>4. UNCHANGED <<slot, owner, orphans, lines, breaks>>
      BY <2>2 DEF Spawn
    <3> QED
      BY <3>2, <3>3, <3>4
  <2>3. CASE AwaitReady(a)
    BY <2>3 DEF AwaitReady
  <2>4. CASE AwaitAnswer(a)
    <3>1. pc' = [pc EXCEPT ![a] = "ready"] \/ pc' = [pc EXCEPT ![a] = "closing"]
      BY <2>4 DEF AwaitAnswer
    <3>2. UNCHANGED <<slot, owner, worker, ask, orphans, lines, breaks>>
      BY <2>4 DEF AwaitAnswer
    <3> QED
      BY <3>1, <3>2
  <2>5. CASE AwaitExit(a)
    BY <2>5 DEF AwaitExit
  <2>6. CASE KillGroup(a)
    BY <2>6 DEF KillGroup
  <2> QED
    BY <1>2, <2>1, <2>2, <2>3, <2>4, <2>5, <2>6 DEF AdapterStep
<1>3. ASSUME NEW a \in Adapters, UserStep(a) PROVE T
  <2>1. CASE Start(a) \/ Close(a)
    BY <2>1 DEF Start, Close
  <2>2. CASE Request(a)
    BY <2>2 DEF Request
  <2> QED
    BY <1>3, <2>1, <2>2 DEF UserStep
<1>4. ASSUME NEW a \in Adapters, WorkerStep(a) PROVE T
  BY <1>4 DEF WorkerStep, Load, Answer, PrintLine, Hang, Exit
<1>5. ASSUME NEW a \in Adapters, Kill(a) \/ Interrupt(a) \/ OrphanExits(a) PROVE T
  <2>1. CASE Kill(a)
    <3>1. [id |-> 0, segment |-> None]
            \in [id : 0..MaxRequests, segment : Segments \cup {None}]
      OBVIOUS
    <3>2. /\ slot' \in Adapters \cup {Probe, None}
          /\ owner' \in Owners \cup {None}
      BY <2>1 DEF Kill, Owners
    <3>3. /\ worker' \in [Adapters -> Alive \cup {"none", "gone"}]
          /\ orphans' \subseteq Adapters
      BY <2>1 DEF Kill, Abandon
    <3>4. /\ pc' \in [Adapters -> Places]
          /\ ask' \in [Adapters -> [id : 0..MaxRequests, segment : Segments \cup {None}]]
      BY <2>1, <3>1 DEF Kill
    <3>5. lines' \in 0..MaxLines /\ breaks' \in 0..MaxBreaks
      BY <2>1 DEF Kill
    <3> QED
      BY <3>2, <3>3, <3>4, <3>5
  <2>2. CASE Interrupt(a)
    <3>1. pc' \in [Adapters -> Places]
      BY <2>2 DEF Interrupt
    <3>2. /\ worker' \in [Adapters -> Alive \cup {"none", "gone"}]
          /\ orphans' \subseteq Adapters
      BY <2>2 DEF Interrupt, Abandon
    <3>3. UNCHANGED <<slot, owner, ask, lines>> /\ breaks' \in 0..MaxBreaks
      BY <2>2 DEF Interrupt
    <3> QED
      BY <3>1, <3>2, <3>3
  <2>3. CASE OrphanExits(a)
    BY <2>3 DEF OrphanExits
  <2> QED
    BY <1>5, <2>1, <2>2, <2>3
<1>6. ASSUME BeginProbe \/ EndProbe PROVE T
  BY <1>6 DEF BeginProbe, EndProbe
<1>7. T
  <2> HIDE DEF T
  <2> QED
    BY <1>2, <1>3, <1>4, <1>5, <1>6 DEF RuntimeNext
<1> QED
  BY <1>7, QueueStep, AudioStep DEF RuntimeTypeOK

(***************************************************************************)
(* The invariant and what it implies.                                      *)
(***************************************************************************)
LEMMA Initially == RuntimeInit => RuntimeInv
<1> SUFFICES ASSUME RuntimeInit PROVE RuntimeInv
  OBVIOUS
<1>1. RuntimeTypeOK
  BY DEF RuntimeInit, RuntimeTypeOK, Places, Alive
<1> QED
  BY <1>1 DEF RuntimeInit, RuntimeInv, SlotInv, Holding, OwnerNamesHolder, AskInv,
              AnswerInv, AudioIsOfItsSegment

\* The inductive invariant: it holds after every step from wherever it holds.
THEOREM RuntimeInvariant == RuntimeSpec => []RuntimeInv
<1>1. RuntimeInv /\ [RuntimeNext]_vars => RuntimeInv'
  <2> SUFFICES ASSUME RuntimeInv, [RuntimeNext]_vars PROVE RuntimeInv'
    OBVIOUS
  <2>1. CASE RuntimeNext
    BY <2>1, QueueStep, AskStep, SlotStep, OwnerStep, AudioStep, TypeStep DEF RuntimeInv
  <2>2. CASE UNCHANGED vars
    BY <2>2 DEF vars, RuntimeInv, RuntimeTypeOK, SlotInv, OwnerNamesHolder, AskInv,
                AnswerInv, AudioIsOfItsSegment
  <2> QED
    BY <2>1, <2>2
<1> QED
  BY Initially, <1>1, PTL DEF RuntimeSpec

\* Every variable keeps its type, and the response queue its limit.
THEOREM RuntimeTypesAreKept == RuntimeSpec => []RuntimeTypeOK
<1>1. RuntimeInv => RuntimeTypeOK
  BY DEF RuntimeInv
<1> QED
  BY <1>1, RuntimeInvariant, PTL

\* At most one adapter has a worker that runs, and it holds the slot.
THEOREM RuntimesExcludeOneAnother == RuntimeSpec => []OneRuntimeOfAnAdapter
<1>1. RuntimeInv => OneRuntimeOfAnAdapter
  <2> SUFFICES ASSUME RuntimeInv PROVE OneRuntimeOfAnAdapter
    OBVIOUS
  <2>1. ASSUME NEW a \in Adapters, worker[a] # "none" PROVE slot = a
    BY <2>1 DEF RuntimeInv, SlotInv, WithWorker, Holding
  <2>2. ASSUME NEW a \in Adapters, Running(a) PROVE worker[a] # "none"
    BY <2>2 DEF Running, Alive
  <2> QED
    BY <2>1, <2>2 DEF OneRuntimeOfAnAdapter
<1> QED
  BY <1>1, RuntimeInvariant, PTL

\* The owner record of a loaded runtime stays in place.
THEOREM OwnersAreNamed == RuntimeSpec => []OwnerNamesHolder
<1>1. RuntimeInv => OwnerNamesHolder
  BY DEF RuntimeInv
<1> QED
  BY <1>1, RuntimeInvariant, PTL

\* No request returns the audio of another sentence.
THEOREM AnswersAreOfTheirRequests == RuntimeSpec => []AudioIsOfItsSegment
<1>1. RuntimeInv => AudioIsOfItsSegment
  BY DEF RuntimeInv
<1> QED
  BY <1>1, RuntimeInvariant, PTL
=============================================================================
