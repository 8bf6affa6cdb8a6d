------------------------- MODULE PanicForwardingProofs -------------------------
(***************************************************************************)
(* What PanicForwarding keeps for any number of panics and any capacity of *)
(* the log queue.  The argument: within a boot, every report that is not   *)
(* an ordinary warning is of the panic that the boot recovered, and the    *)
(* partition holds no other panic until a handler runs; so what a clear()  *)
(* erases is what the server has just accepted.                            *)
(***************************************************************************)
EXTENDS PanicForwarding, TLAPS

\* Nothing of the boot exists yet.
Unbooted ==
    mode = "starting" => /\ recovered = None /\ FLASH_BUSY = "free"
                         /\ message = None /\ forwarder = "receiving"

\* The handler's two flash operations run after a panic only.
HandlerBusy ==
    /\ FLASH_BUSY \in {"erase", "write"} => mode = "panicking"
    /\ mode = "panicking" => panics \in Panics

\* A record that decodes was written to the end.
WholeIsPersisted ==
    flash # None /\ flash.whole => flash.panic \in persisted

\* Of the panics, only the recovered one is on its way to the server.
ReportsAreRecovered ==
    /\ recovered # None => recovered \in persisted
    /\ \A i \in DOMAIN queue : queue[i] \in {Warning, recovered}
    /\ message \in {None, Warning, recovered}
    /\ forwarder # "receiving" => message # None

\* Until a handler runs, the partition holds no other panic than that one.
FlashIsRecovered ==
    mode # "panicking" /\ recovered # None /\ flash # None
        => flash.panic = recovered

\* The forwarder goes on to clear() with a message the server has accepted.
AcceptedInHand ==
    /\ forwarder = "accepted" => message \in accepted \cup {Warning}
    /\ FLASH_BUSY = "clear" => message \in accepted /\ recovered # None
    /\ accepted \subseteq persisted

IInv ==
    /\ TypeOK
    /\ Unbooted
    /\ HandlerBusy
    /\ WholeIsPersisted
    /\ ReportsAreRecovered
    /\ FlashIsRecovered
    /\ AcceptedInHand

-----------------------------------------------------------------------------

\* The two history variables stand for themselves everywhere below.
USE DEF histories

LEMMA NoneIsNoMessage == None \notin Messages /\ Warning \notin Panics
  BY PanicAssumption DEF Messages, Panics, Warning

LEMMA EmptyQueue ==
  <<>> \in Seq(Messages) /\ Len(<<>>) <= STRUCTURED_LOG_QUEUE_CAPACITY
  BY PanicAssumption

LEMMA EnqueueType ==
  ASSUME NEW q \in Seq(Messages), NEW r \in Messages,
         Len(q) <= STRUCTURED_LOG_QUEUE_CAPACITY
  PROVE  /\ enqueue_structured_record(q, r) \in Seq(Messages)
         /\ Len(enqueue_structured_record(q, r)) <= STRUCTURED_LOG_QUEUE_CAPACITY
         /\ \A i \in DOMAIN enqueue_structured_record(q, r) :
              \/ enqueue_structured_record(q, r)[i] = r
              \/ i \in DOMAIN q /\ enqueue_structured_record(q, r)[i] = q[i]
  BY PanicAssumption DEF enqueue_structured_record

\* The first message of a boot always finds room.
LEMMA EnqueueFirst ==
  ASSUME NEW r \in Messages
  PROVE  /\ enqueue_structured_record(<<>>, r) = <<r>>
         /\ <<r>> \in Seq(Messages) /\ Len(<<r>>) <= STRUCTURED_LOG_QUEUE_CAPACITY
         /\ \A i \in DOMAIN <<r>> : <<r>>[i] = r
  BY PanicAssumption DEF enqueue_structured_record

LEMMA TearType ==
  ASSUME NEW r \in FlashRecords \cup {None}
  PROVE  /\ Tear(r) \in FlashRecords \cup {None}
         /\ Tear(r) # None => r # None /\ ~Tear(r).whole /\ Tear(r).panic = r.panic
  <1>1. CASE r = None
    BY <1>1 DEF Tear
  <1>2. CASE r # None
    <2>1. r \in FlashRecords /\ Tear(r) = [r EXCEPT !.whole = FALSE]
      BY <1>2 DEF Tear
    <2> QED  BY <2>1, <1>2 DEF FlashRecords
  <1> QED  BY <1>1, <1>2

LEMMA ResetKeepsIInv ==
  ASSUME IInv, Reset, flash' \in FlashRecords \cup {None},
         persisted \subseteq persisted', persisted' \subseteq Panics,
         flash' # None /\ flash'.whole => flash'.panic \in persisted'
  PROVE  IInv'
  <1>1. TypeOK'
    BY EmptyQueue DEF IInv, TypeOK, Reset
  <1>2. ReportsAreRecovered' /\ AcceptedInHand'
    BY DEF IInv, Reset, ReportsAreRecovered, AcceptedInHand
  <1> QED
    BY <1>1, <1>2
    DEF IInv, Reset, Unbooted, HandlerBusy, WholeIsPersisted, FlashIsRecovered

LEMMA InitIInv == Init => IInv
  <1> SUFFICES ASSUME Init PROVE IInv
    OBVIOUS
  <1>1. TypeOK
    <2>1. panics \in 0..MaxPanics
      BY PanicAssumption DEF Init
    <2>2. queue \in Seq(Messages) /\ Len(queue) <= STRUCTURED_LOG_QUEUE_CAPACITY
      BY EmptyQueue DEF Init, PoweredOff
    <2> QED  BY <2>1, <2>2 DEF Init, PoweredOff, TypeOK
  <1> QED
    BY <1>1
    DEF Init, PoweredOff, IInv, Unbooted, HandlerBusy, WholeIsPersisted,
        ReportsAreRecovered, FlashIsRecovered, AcceptedInHand

-----------------------------------------------------------------------------

LEMMA InitializeKeepsIInv ==
  ASSUME IInv, Initialize
  PROVE  IInv'
  <1> DEFINE found == decode(flash)
  <1>1. found \in Panics \cup {None} /\ (found # None => /\ found \in persisted
                                                        /\ flash # None
                                                        /\ flash.panic = found)
    BY DEF IInv, TypeOK, FlashRecords, decode, WholeIsPersisted
  <1>2. /\ queue' \in Seq(Messages) /\ Len(queue') <= STRUCTURED_LOG_QUEUE_CAPACITY
        /\ \A i \in DOMAIN queue' : queue'[i] = found
    <2>1. CASE found = None
      <3>1. queue' = <<>>
        BY <2>1 DEF Initialize, report_previous_panic
      <3> QED  BY <3>1, EmptyQueue
    <2>2. CASE found # None
      <3>1. found \in Messages /\ queue' = enqueue_structured_record(<<>>, found)
        BY <1>1, <2>2 DEF Initialize, report_previous_panic, Messages
      <3> HIDE DEF found
      <3> QED  BY <3>1, EnqueueFirst
    <2> QED  BY <2>1, <2>2
  <1>3. TypeOK'
    BY <1>1, <1>2 DEF IInv, TypeOK, Initialize
  <1>4. ReportsAreRecovered'
    BY <1>1, <1>2 DEF IInv, Initialize, Unbooted, ReportsAreRecovered
  <1>5. FlashIsRecovered'
    BY <1>1 DEF Initialize, FlashIsRecovered
  <1> QED
    BY <1>3, <1>4, <1>5
    DEF IInv, Initialize, Unbooted, HandlerBusy, WholeIsPersisted, AcceptedInHand

LEMMA InitializeFailsKeepsIInv ==
  ASSUME IInv, InitializeFails
  PROVE  IInv'
  <1>1. /\ queue' \in Seq(Messages) /\ Len(queue') <= STRUCTURED_LOG_QUEUE_CAPACITY
        /\ \A i \in DOMAIN queue' : queue'[i] = Warning
    BY EnqueueFirst DEF InitializeFails, Messages
  <1>2. TypeOK'
    BY <1>1 DEF IInv, TypeOK, InitializeFails
  <1> QED
    BY <1>1, <1>2
    DEF IInv, InitializeFails, Unbooted, HandlerBusy, WholeIsPersisted,
        ReportsAreRecovered, FlashIsRecovered, AcceptedInHand

LEMMA LogWarningKeepsIInv ==
  ASSUME IInv, LogWarning
  PROVE  IInv'
  <1>1. /\ queue' \in Seq(Messages) /\ Len(queue') <= STRUCTURED_LOG_QUEUE_CAPACITY
        /\ \A i \in DOMAIN queue' :
             queue'[i] = Warning \/ (i \in DOMAIN queue /\ queue'[i] = queue[i])
    <2> DEFINE q == enqueue_structured_record(queue, Warning)
    <2>1. Warning \in Messages /\ queue' = q
      BY DEF LogWarning, Messages
    <2>2. /\ q \in Seq(Messages) /\ Len(q) <= STRUCTURED_LOG_QUEUE_CAPACITY
          /\ \A i \in DOMAIN q : q[i] = Warning \/ (i \in DOMAIN queue /\ q[i] = queue[i])
      BY <2>1, EnqueueType DEF IInv, TypeOK
    <2> HIDE DEF q
    <2> QED  BY <2>1, <2>2
  <1>2. TypeOK'
    BY <1>1 DEF IInv, TypeOK, LogWarning
  <1>3. ReportsAreRecovered'
    BY <1>1 DEF IInv, LogWarning, ReportsAreRecovered
  <1> QED
    BY <1>2, <1>3
    DEF IInv, LogWarning, Unbooted, HandlerBusy, WholeIsPersisted,
        FlashIsRecovered, AcceptedInHand

LEMMA ReceiveKeepsIInv ==
  ASSUME IInv, Receive
  PROVE  IInv'
  <1>1. /\ queue' \in Seq(Messages) /\ Len(queue') <= STRUCTURED_LOG_QUEUE_CAPACITY
        /\ \A i \in DOMAIN queue' : i + 1 \in DOMAIN queue /\ queue'[i] = queue[i + 1]
        /\ message' \in Messages /\ message' = queue[1] /\ 1 \in DOMAIN queue
    BY PanicAssumption DEF IInv, TypeOK, Receive
  <1>2. TypeOK'
    BY <1>1 DEF IInv, TypeOK, Receive
  <1>3. ReportsAreRecovered'
    BY <1>1, NoneIsNoMessage DEF IInv, Receive, ReportsAreRecovered
  <1> QED
    BY <1>2, <1>3
    DEF IInv, Receive, TaskRuns, Unbooted, HandlerBusy, WholeIsPersisted,
        FlashIsRecovered, AcceptedInHand

LEMMA SendEndsKeepsIInv ==
  ASSUME IInv, NEW outcome \in Outcomes, SendEnds(outcome)
  PROVE  IInv'
  <1>1. message \in Messages /\ message \in {Warning, recovered}
    BY DEF IInv, TypeOK, ReportsAreRecovered, SendEnds
  <1>2. message \in persisted \cup {Warning}
    BY <1>1, NoneIsNoMessage DEF IInv, ReportsAreRecovered
  <1>3. accepted' \subseteq persisted /\ accepted \subseteq accepted'
    BY <1>2 DEF IInv, AcceptedInHand, SendEnds
  <1>4. forwarder' = "accepted" => message \in accepted' \cup {Warning}
    BY DEF SendEnds, Succeeds, Stored
  <1>5. TypeOK'
    BY <1>3 DEF IInv, TypeOK, SendEnds
  <1>6. AcceptedInHand'
    BY <1>3, <1>4 DEF IInv, AcceptedInHand, SendEnds, TaskRuns
  <1> QED
    BY <1>5, <1>6
    DEF IInv, SendEnds, Unbooted, HandlerBusy, WholeIsPersisted,
        ReportsAreRecovered, FlashIsRecovered

LEMMA ClearStartsKeepsIInv ==
  ASSUME IInv, ClearStarts
  PROVE  IInv'
  <1>1. message \in accepted /\ recovered # None
    <2>1. message \in accepted
      BY DEF IInv, AcceptedInHand, ClearStarts, is_persisted_panic
    <2>2. message \in Panics
      BY <2>1 DEF IInv, TypeOK
    <2>3. message \in {None, Warning, recovered}
      BY DEF IInv, ReportsAreRecovered
    <2> QED  BY <2>1, <2>2, <2>3, NoneIsNoMessage DEF Messages
  <1>2. /\ flash' \in FlashRecords \cup {None}
        /\ flash' # None => flash # None /\ ~flash'.whole /\ flash'.panic = flash.panic
    BY TearType DEF IInv, TypeOK, ClearStarts
  <1>3. TypeOK'
    BY <1>2 DEF IInv, TypeOK, ClearStarts
  <1>4. WholeIsPersisted' /\ FlashIsRecovered'
    BY <1>2 DEF IInv, WholeIsPersisted, FlashIsRecovered, ClearStarts
  <1> QED
    BY <1>1, <1>3, <1>4
    DEF IInv, ClearStarts, Unbooted, HandlerBusy, ReportsAreRecovered,
        AcceptedInHand

LEMMA ClearEndsKeepsIInv ==
  ASSUME IInv, ClearEnds
  PROVE  IInv'
  BY DEF IInv, TypeOK, ClearEnds, Unbooted, HandlerBusy, WholeIsPersisted,
         ReportsAreRecovered, FlashIsRecovered, AcceptedInHand

\* The steps of the tasks that neither queue nor touch the partition.
LEMMA QuietKeepsIInv ==
  ASSUME IInv, Retry \/ Forwarded \/ OtaStarts \/ OtaEnds
  PROVE  IInv'
  <1>1. Retry => IInv'
    BY NoneIsNoMessage
    DEF IInv, TypeOK, Retry, Retries, TaskRuns, is_persisted_panic, Unbooted,
        HandlerBusy, WholeIsPersisted, ReportsAreRecovered, FlashIsRecovered,
        AcceptedInHand
  <1>2. Forwarded => IInv'
    BY DEF IInv, TypeOK, Forwarded, Unbooted, HandlerBusy, WholeIsPersisted,
           ReportsAreRecovered, FlashIsRecovered, AcceptedInHand
  <1>3. OtaStarts => IInv'
    BY DEF IInv, TypeOK, OtaStarts, TaskRuns, Unbooted, HandlerBusy,
           WholeIsPersisted, ReportsAreRecovered, FlashIsRecovered,
           AcceptedInHand
  <1>4. OtaEnds => IInv'
    BY DEF IInv, TypeOK, OtaEnds, Unbooted, HandlerBusy, WholeIsPersisted,
           ReportsAreRecovered, FlashIsRecovered, AcceptedInHand
  <1> QED  BY <1>1, <1>2, <1>3, <1>4

LEMMA PanicKeepsIInv ==
  ASSUME IInv, Panic
  PROVE  IInv'
  <1>1. panics' \in 0..MaxPanics /\ panics' \in Panics
    BY PanicAssumption DEF IInv, TypeOK, Panic, Panics
  <1> QED
    BY <1>1
    DEF IInv, TypeOK, Panic, Unbooted, HandlerBusy, WholeIsPersisted,
        ReportsAreRecovered, FlashIsRecovered, AcceptedInHand

LEMMA PersistKeepsIInv ==
  ASSUME IInv, PersistStarts \/ PersistWrites \/ PersistEnds
  PROVE  IInv'
  <1>1. encode(panics) \in FlashRecords /\ encode(panics).panic \in Panics
    BY DEF IInv, HandlerBusy, encode, FlashRecords, PersistStarts,
           PersistWrites, PersistEnds
  <1>2. CASE PersistStarts \/ PersistWrites
    <2>1. /\ flash' \in FlashRecords \cup {None}
          /\ flash' # None => ~flash'.whole
      BY <1>1, <1>2, TearType DEF IInv, TypeOK, PersistStarts, PersistWrites
    <2> QED
      BY <1>2, <2>1
      DEF IInv, TypeOK, PersistStarts, PersistWrites, Unbooted, HandlerBusy,
          WholeIsPersisted, ReportsAreRecovered, FlashIsRecovered,
          AcceptedInHand
  <1>3. CASE PersistEnds
    <2>1. panics \in Panics
      BY <1>3 DEF IInv, HandlerBusy, PersistEnds
    <2>2. flash'.panic \in persisted' /\ persisted' \subseteq Panics
      BY <1>3, <2>1 DEF IInv, TypeOK, PersistEnds, encode
    <2> QED  BY <1>1, <1>3, <2>2, ResetKeepsIInv DEF PersistEnds
  <1> QED  BY <1>2, <1>3

LEMMA NextIInv == IInv /\ [Next]_vars => IInv'
  <1> SUFFICES ASSUME IInv, [Next]_vars PROVE IInv'
    OBVIOUS
  <1>1. CASE PowerLoss \/ PersistRefused
    BY <1>1, ResetKeepsIInv
    DEF PowerLoss, PersistRefused, IInv, TypeOK, WholeIsPersisted
  <1>2. CASE Initialize
    BY <1>2, InitializeKeepsIInv
  <1>3. CASE InitializeFails
    BY <1>3, InitializeFailsKeepsIInv
  <1>4. CASE LogWarning
    BY <1>4, LogWarningKeepsIInv
  <1>5. CASE Receive
    BY <1>5, ReceiveKeepsIInv
  <1>6. CASE \E outcome \in Outcomes : SendEnds(outcome)
    BY <1>6, SendEndsKeepsIInv
  <1>7. CASE ClearStarts
    BY <1>7, ClearStartsKeepsIInv
  <1>8. CASE ClearEnds
    BY <1>8, ClearEndsKeepsIInv
  <1>9. CASE Retry \/ Forwarded \/ OtaStarts \/ OtaEnds
    BY <1>9, QuietKeepsIInv
  <1>10. CASE Panic
    BY <1>10, PanicKeepsIInv
  <1>11. CASE PersistStarts \/ PersistWrites \/ PersistEnds
    BY <1>11, PersistKeepsIInv
  <1>12. CASE UNCHANGED vars
    BY <1>12
    DEF vars, IInv, TypeOK, Unbooted, HandlerBusy, WholeIsPersisted,
        ReportsAreRecovered, FlashIsRecovered, AcceptedInHand
  <1> QED
    BY <1>1, <1>2, <1>3, <1>4, <1>5, <1>6, <1>7, <1>8, <1>9, <1>10, <1>11,
       <1>12 DEF Next

-----------------------------------------------------------------------------

\* Every reachable state is well typed, and the log queue keeps its capacity.
THEOREM PanicTypeCorrect == Spec => []TypeOK
  <1>1. IInv => TypeOK
    BY DEF IInv
  <1> QED  BY <1>1, InitIInv, NextIInv, PTL DEF Spec

\* Nothing that a handler did not write to the end is recovered or forwarded.
THEOREM OnlyWholeRecords == Spec => []OnlyPersistedIsReported
  <1>1. IInv => OnlyPersistedIsReported
    BY DEF IInv, ReportsAreRecovered, AcceptedInHand, OnlyPersistedIsReported
  <1> QED  BY <1>1, InitIInv, NextIInv, PTL DEF Spec

\* A clear() finds a torn record, or the one that the server has accepted.
LEMMA ClearedIsAccepted ==
  ASSUME IInv, ClearStarts \/ ClearEnds, decode(flash) # None
  PROVE  decode(flash) \in accepted
  <1>1. message \in accepted /\ message # Warning /\ recovered # None
    <2>1. CASE ClearStarts
      <3>1. message \in accepted
        BY <2>1 DEF IInv, AcceptedInHand, ClearStarts, is_persisted_panic
      <3> QED  BY <3>1, NoneIsNoMessage
               DEF IInv, TypeOK, ReportsAreRecovered, Messages
    <2>2. CASE ClearEnds
      BY <2>2, NoneIsNoMessage DEF IInv, TypeOK, AcceptedInHand, ClearEnds
    <2> QED  BY <2>1, <2>2
  <1>2. message = recovered
    BY <1>1, NoneIsNoMessage DEF IInv, TypeOK, ReportsAreRecovered, Messages
  <1>3. decode(flash) = recovered
    BY <1>1 DEF IInv, FlashIsRecovered, decode, ClearStarts, ClearEnds
  <1> QED  BY <1>1, <1>2, <1>3

\* structured_log.rs erases no record that the server has not accepted.
THEOREM NoRecordIsForgotten == Spec => RecordKeptUntilAccepted
  <1> DEFINE Kept == (decode(flash) # None /\ flash' # flash)
                        => decode(flash) \in accepted \/ mode = "panicking"
  <1>1. IInv /\ [Next]_vars => [Kept]_vars
    <2> SUFFICES ASSUME IInv, Next, decode(flash) # None, flash' # flash,
                        mode # "panicking"
                 PROVE  decode(flash) \in accepted
      OBVIOUS
    <2>1. ClearStarts \/ ClearEnds
      BY DEF Next, PowerLoss, Initialize, InitializeFails, LogWarning, Receive,
             SendEnds, Retry, Forwarded, OtaStarts, OtaEnds, Panic,
             PersistRefused, PersistStarts, PersistWrites, PersistEnds
    <2> QED  BY <2>1, ClearedIsAccepted
  <1>2. IInv /\ [Next]_vars => IInv'
    BY NextIInv
  <1> QED
    BY <1>1, <1>2, InitIInv, PTL DEF Spec, RecordKeptUntilAccepted

-----------------------------------------------------------------------------
(* The refinement.  The server may get a report whenever the forwarder sends; *)
(* what makes that a delivery out of the mailbox is that the report is still  *)
(* in the partition: nothing clears it as long as it is queued or retried.    *)

\* The report of the panic is the first message of a boot.
FirstInQueue ==
    \A i \in DOMAIN queue : queue[i] # Warning =>
        i = 1 /\ message = None /\ forwarder = "receiving"

Queued == \E i \in DOMAIN queue : queue[i] # Warning
Resent == message = recovered /\ forwarder \in {"sending", "failed"}

\* Until it is accepted, the partition holds it.
HeldUntilAccepted ==
    mode = "running" /\ recovered # None /\ (Queued \/ Resent)
        => decode(flash) = recovered

MInv == FirstInQueue /\ HeldUntilAccepted

LEMMA InitMInv == Init => MInv
  BY DEF Init, PoweredOff, MInv, FirstInQueue, HeldUntilAccepted

\* A report is in flash until the server has it, and it is the only one.
LEMMA NextMInv == IInv /\ MInv /\ [Next]_vars => MInv'
  <1> SUFFICES ASSUME IInv, MInv, [Next]_vars PROVE MInv'
    OBVIOUS
  <1> USE DEF MInv
  <1>1. CASE PowerLoss \/ PersistRefused \/ PersistEnds
    BY <1>1 DEF PowerLoss, PersistRefused, PersistEnds, Reset, FirstInQueue,
                HeldUntilAccepted
  <1>2. CASE Initialize
    <2> DEFINE found == decode(flash)
    <2>1. found \in Panics \cup {None}
      BY DEF IInv, TypeOK, FlashRecords, decode
    <2>2. /\ message' = None /\ forwarder' = "receiving"
          /\ recovered' = found /\ decode(flash') = found
      BY <1>2 DEF Initialize, IInv, Unbooted, decode
    <2>3. \A i \in DOMAIN queue' : i = 1
      <3>1. CASE found = None
        BY <1>2, <3>1 DEF Initialize, report_previous_panic
      <3>2. CASE found # None
        <4>1. found \in Messages /\ queue' = enqueue_structured_record(<<>>, found)
          BY <1>2, <2>1, <3>2 DEF Initialize, report_previous_panic, Messages
        <4> HIDE DEF found
        <4>2. queue' = <<found>>
          BY <4>1, EnqueueFirst
        <4> QED  BY <4>2
      <3> QED  BY <3>1, <3>2
    <2> QED  BY <2>2, <2>3 DEF FirstInQueue, HeldUntilAccepted
  <1>3. CASE InitializeFails
    <2>1. \A i \in DOMAIN queue' : queue'[i] = Warning
      BY <1>3, EnqueueFirst DEF InitializeFails, Messages
    <2>2. recovered' = None
      BY <1>3 DEF InitializeFails, IInv, Unbooted
    <2> QED  BY <2>1, <2>2 DEF FirstInQueue, HeldUntilAccepted
  <1>4. CASE LogWarning
    <2>1. \A i \in DOMAIN queue' :
             queue'[i] # Warning => i \in DOMAIN queue /\ queue[i] = queue'[i]
      <3> DEFINE q == enqueue_structured_record(queue, Warning)
      <3>1. Warning \in Messages /\ queue' = q
        BY <1>4 DEF LogWarning, Messages
      <3>2. \A i \in DOMAIN q : q[i] = Warning \/ (i \in DOMAIN queue /\ q[i] = queue[i])
        BY <3>1, EnqueueType DEF IInv, TypeOK
      <3> HIDE DEF q
      <3> QED  BY <3>1, <3>2
    <2> QED
      BY <1>4, <2>1
      DEF LogWarning, TaskRuns, FirstInQueue, HeldUntilAccepted, Queued, Resent
  <1>5. CASE Receive
    <2>1. /\ \A i \in DOMAIN queue' : i + 1 \in DOMAIN queue /\ i + 1 # 1
                                     /\ queue'[i] = queue[i + 1]
          /\ message' = queue[1] /\ 1 \in DOMAIN queue
      BY <1>5, PanicAssumption DEF IInv, TypeOK, Receive
    <2>2. \A i \in DOMAIN queue' : queue'[i] = Warning
      BY <2>1 DEF FirstInQueue
    <2>3. FirstInQueue'
      BY <2>2 DEF FirstInQueue
    <2>4. HeldUntilAccepted'
      <3> SUFFICES ASSUME recovered # None, message' = recovered
                   PROVE  decode(flash) = recovered
        BY <1>5, <2>2 DEF Receive, TaskRuns, HeldUntilAccepted, Queued, Resent
      <3>1. queue[1] = recovered /\ recovered # Warning
        BY <2>1, NoneIsNoMessage DEF IInv, TypeOK
      <3> QED
        BY <1>5, <2>1, <3>1 DEF Receive, TaskRuns, HeldUntilAccepted, Queued
    <2> QED  BY <2>3, <2>4
  <1>6. ASSUME NEW outcome \in Outcomes, SendEnds(outcome) PROVE MInv'
    BY <1>6
    DEF SendEnds, TaskRuns, FirstInQueue, HeldUntilAccepted, Queued, Resent
  <1>7. CASE Retry
    BY <1>7 DEF Retry, TaskRuns, FirstInQueue, HeldUntilAccepted, Queued, Resent
  <1>8. CASE Forwarded
    BY <1>8 DEF Forwarded, FirstInQueue, HeldUntilAccepted, Queued, Resent
  <1>9. CASE ClearStarts
    <2>1. \A i \in DOMAIN queue : queue[i] = Warning
      BY <1>9 DEF ClearStarts, FirstInQueue
    <2> QED
      BY <1>9, <2>1 DEF ClearStarts, FirstInQueue, HeldUntilAccepted, Queued, Resent
  <1>10. CASE ClearEnds
    <2>1. message \in Panics
      BY <1>10 DEF ClearEnds, IInv, TypeOK, AcceptedInHand
    <2>2. \A i \in DOMAIN queue : queue[i] = Warning
      BY <2>1, NoneIsNoMessage DEF FirstInQueue, Messages
    <2> QED
      BY <1>10, <2>2 DEF ClearEnds, FirstInQueue, HeldUntilAccepted, Queued, Resent
  <1>11. CASE OtaStarts \/ OtaEnds
    BY <1>11
    DEF OtaStarts, OtaEnds, TaskRuns, FirstInQueue, HeldUntilAccepted, Queued, Resent
  <1>12. CASE Panic \/ PersistStarts \/ PersistWrites
    BY <1>12
    DEF Panic, PersistStarts, PersistWrites, FirstInQueue, HeldUntilAccepted
  <1>13. CASE UNCHANGED vars
    BY <1>13 DEF vars, FirstInQueue, HeldUntilAccepted, Queued, Resent
  <1> QED
    BY <1>1, <1>2, <1>3, <1>4, <1>5, <1>6, <1>7, <1>8, <1>9, <1>10, <1>11,
       <1>12, <1>13 DEF Next

-----------------------------------------------------------------------------

\* What the panic path does to the four things one sees from outside is a step of
\* the mailbox, or none.
THEOREM ReportsAreMailed == Spec => ImplementsMailbox
  <1> USE DEF MInv
  <1>1. Init => Mailbox!Init
    BY DEF Init, PoweredOff, Mailbox!Init, decode
  <1>2. IInv /\ MInv /\ [Next]_vars
          => [Mailbox!Next]_<<panics, (mode = "panicking"), decode(flash), accepted>>
    <2> DEFINE step == [Mailbox!Next]_<<panics, (mode = "panicking"), decode(flash), accepted>>
    <2> SUFFICES ASSUME IInv, MInv, [Next]_vars PROVE step
      OBVIOUS
    <2>1. CASE PowerLoss \/ PersistRefused
      <3>1. flash' = flash /\ accepted' = accepted /\ panics' = panics /\ mode' = "starting"
        BY <2>1 DEF PowerLoss, PersistRefused, Reset
      <3> QED  BY <3>1 DEF Mailbox!Next, Mailbox!GiveUp, decode
    <2>2. CASE PersistEnds
      <3>1. decode(flash') = panics
        <4>1. panics \in Panics /\ flash' = encode(panics)
          BY <2>2 DEF PersistEnds, IInv, HandlerBusy
        <4>2. encode(panics) \in FlashRecords
          BY <4>1 DEF encode, FlashRecords
        <4>3. flash' # None
          BY <4>1, <4>2, NoneAssumption
        <4> QED  BY <4>1, <4>3 DEF decode, encode
      <3> QED
        BY <2>2, <3>1 DEF PersistEnds, Reset, Mailbox!Next, Mailbox!Deposit
    <2>3. CASE PersistStarts \/ PersistWrites
      <3>1. decode(flash') = None
        <4>1. encode(panics) \in FlashRecords
          BY <2>3 DEF IInv, HandlerBusy, encode, FlashRecords, PersistStarts,
                      PersistWrites
        <4>2. flash' # None => ~flash'.whole
          BY <2>3, <4>1, TearType DEF IInv, TypeOK, PersistStarts, PersistWrites
        <4> QED  BY <4>2 DEF decode
      <3> QED
        BY <2>3, <3>1
        DEF PersistStarts, PersistWrites, Mailbox!Next, Mailbox!MakeRoom
    <2>4. CASE ClearStarts \/ ClearEnds
      <3>1. decode(flash') \in {None, decode(flash)}
        <4>1. CASE ClearStarts
          <5>1. flash' # None => ~flash'.whole
            BY <4>1, TearType DEF IInv, TypeOK, ClearStarts
          <5> QED  BY <5>1 DEF decode
        <4>2. CASE ClearEnds
          BY <4>2 DEF ClearEnds, decode
        <4> QED  BY <2>4, <4>1, <4>2
      <3>2. decode(flash) # None => decode(flash) \in accepted
        BY <2>4, ClearedIsAccepted
      <3> QED
        BY <2>4, <3>1, <3>2
        DEF ClearStarts, ClearEnds, Mailbox!Next, Mailbox!TakeOut
    <2>5. ASSUME NEW outcome \in Outcomes, SendEnds(outcome) PROVE step
      <3>1. /\ decode(flash') = decode(flash) /\ panics' = panics
            /\ mode = "running" /\ mode' = "running" /\ forwarder = "sending"
        BY <2>5 DEF SendEnds, TaskRuns, decode
      <3>2. CASE message = Warning
        BY <2>5, <3>1, <3>2 DEF SendEnds
      <3>3. CASE message # Warning
        <4>1. message = recovered /\ recovered # None
          BY <2>5, <3>1, <3>3 DEF IInv, TypeOK, ReportsAreRecovered
        <4>2. decode(flash) = message
          BY <3>1, <4>1 DEF HeldUntilAccepted, Resent
        <4>3. accepted' \in {accepted, accepted \cup {decode(flash)}}
          BY <2>5, <3>3, <4>2 DEF SendEnds
        <4> QED
          BY <3>1, <4>1, <4>2, <4>3 DEF Mailbox!Next, Mailbox!Deliver
      <3> QED  BY <3>2, <3>3
    <2>6. CASE Panic
      BY <2>6 DEF Panic, Mailbox!Next, Mailbox!Panic, decode
    <2>7. CASE \/ Initialize \/ InitializeFails \/ LogWarning \/ Receive \/ Retry
               \/ Forwarded \/ OtaStarts \/ OtaEnds
      BY <2>7
      DEF Initialize, InitializeFails, LogWarning, Receive, Retry, Forwarded,
          OtaStarts, OtaEnds, TaskRuns, decode
    <2>8. CASE UNCHANGED vars
      BY <2>8 DEF vars, decode
    <2> HIDE DEF step
    <2> QED
      BY <2>1, <2>2, <2>3, <2>4, <2>5, <2>6, <2>7, <2>8 DEF Next
  <1> QED
    BY <1>1, <1>2, InitIInv, NextIInv, InitMInv, NextMInv, PTL
    DEF Spec, ImplementsMailbox, Mailbox!Spec

=============================================================================
