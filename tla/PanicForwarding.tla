---------------------------- MODULE PanicForwarding ----------------------------
(***************************************************************************)
(* How a panic reaches the log server.  The panic handler writes one       *)
(* record to the flash partition "panic" and resets; the next boot reads   *)
(* it and queues it for the forwarder, which sends it until Victoria Logs  *)
(* accepts it and then erases the partition.  Ordinary warnings go through *)
(* the same one-place queue, and OTA updates use the same flash driver     *)
(* under the same FLASH_BUSY flag.                                         *)
(*                                                                         *)
(* Flash operations are synchronous: while one runs no task does, but a    *)
(* panic (of an interrupt, or of the operation itself) or a power loss can *)
(* still cut it short.  An erase or a write cut short leaves a torn record.*)
(***************************************************************************)
EXTENDS Naturals, Sequences

CONSTANTS
    None,                           \* Rust's Option::None
    MaxPanics,                      \* bound on the panics of a behaviour
    STRUCTURED_LOG_QUEUE_CAPACITY   \* 1 in the firmware

ASSUME PanicAssumption ==
    /\ MaxPanics \in Nat
    /\ STRUCTURED_LOG_QUEUE_CAPACITY \in Nat \ {0}
    /\ None \notin Nat

VARIABLES
    panics,     \* the panics so far: the n-th one's message is n
    mode,       \* "starting", "running" or "panicking"
    installed,  \* PANIC_FLASH is Some
    flash,      \* the record in the partition, None when it is erased
    FLASH_BUSY, \* "free", or the operation that holds the flash
    queue,      \* STRUCTURED_LOG_QUEUE
    forwarder,  \* where the structured_log task is
    message,    \* buffers.message
    recovered,  \* history variable: the panic that this boot found, or None
    persisted,  \* history variable: the panics whose record was written whole
    accepted    \* history variable: the panics that Victoria Logs accepted

vars == <<panics, mode, installed, flash, FLASH_BUSY, queue, forwarder,
          message, recovered, persisted, accepted>>

histories == <<persisted, accepted>>

-----------------------------------------------------------------------------

Panics == 1..MaxPanics

\* A record is whole when its checksum matches.
FlashRecords == [panic : Panics, whole : BOOLEAN]
encode(panic) == [panic |-> panic, whole |-> TRUE]
Tear(record) == IF record = None THEN None ELSE [record EXCEPT !.whole = FALSE]

decode_unchecked(record) == IF record = None THEN None ELSE record.panic
decode(record) ==
    IF record # None /\ record.whole THEN record.panic ELSE None

\* StructuredLogMessage: the report of a panic, or any other warning or error.
Warning == 0
Messages == Panics \cup {Warning}
is_any_message(record) == TRUE
is_persisted_panic(record) == record # Warning

\* A full queue drops the new message.
enqueue_unbounded(channel, record) == Append(channel, record)
enqueue_structured_record(channel, record) ==
    IF Len(channel) < STRUCTURED_LOG_QUEUE_CAPACITY
    THEN Append(channel, record)
    ELSE channel

ASSUME NoneAssumption == None \notin FlashRecords

\* What main queues before any task runs.
report_late(found) ==
    enqueue_structured_record(<<Warning>>, found)
report_previous_panic(found) ==
    IF found = None THEN <<>> ELSE enqueue_structured_record(<<>>, found)

-----------------------------------------------------------------------------

PoweredOff ==
    /\ mode = "starting"
    /\ installed = FALSE
    /\ FLASH_BUSY = "free"
    /\ queue = <<>>
    /\ forwarder = "receiving"
    /\ message = None
    /\ recovered = None

Init ==
    /\ panics = 0
    /\ flash = None
    /\ persisted = {}
    /\ accepted = {}
    /\ PoweredOff

Reset ==
    /\ mode' = "starting"
    /\ installed' = FALSE
    /\ FLASH_BUSY' = "free"
    /\ queue' = <<>>
    /\ forwarder' = "receiving"
    /\ message' = None
    /\ recovered' = None
    /\ UNCHANGED <<panics, accepted>>

\* Also an erase or a write that returns an error while the device panics, and
\* a panic of the panic handler.
PowerLoss == Reset /\ UNCHANGED <<flash, persisted>>

-----------------------------------------------------------------------------
(* The boot. *)

Initialize ==
    /\ mode = "starting"
    /\ mode' = "running"
    /\ installed' = TRUE
    /\ recovered' = decode(flash)
    /\ queue' = report_previous_panic(decode(flash))
    /\ UNCHANGED <<panics, flash, FLASH_BUSY, forwarder, message, histories>>

\* The partition table or the record cannot be read; main logs an error.
InitializeFails ==
    /\ mode = "starting"
    /\ mode' = "running"
    /\ installed' \in BOOLEAN
    /\ queue' = enqueue_structured_record(<<>>, Warning)
    /\ UNCHANGED <<panics, flash, FLASH_BUSY, forwarder, message, recovered,
                   histories>>

-----------------------------------------------------------------------------
(* The tasks.  From the answer of the server to the erase there is no await. *)

TaskRuns == mode = "running" /\ FLASH_BUSY = "free" /\ forwarder # "accepted"

LogWarning ==
    /\ TaskRuns
    /\ queue' = enqueue_structured_record(queue, Warning)
    /\ UNCHANGED <<panics, mode, installed, flash, FLASH_BUSY, forwarder,
                   message, recovered, histories>>

Receive ==
    /\ TaskRuns
    /\ forwarder = "receiving"
    /\ queue # <<>>
    /\ message' = Head(queue)
    /\ queue' = Tail(queue)
    /\ forwarder' = "sending"
    /\ UNCHANGED <<panics, mode, installed, flash, FLASH_BUSY, recovered,
                   histories>>

\* A request is accepted, refused by the server, or remains without an answer,
\* in which case the server may have the record or not.
Outcomes == {"accepted", "refused", "unanswered", "undelivered"}
Stored(outcome) == outcome \in {"accepted", "unanswered"}
AnyAnswerSucceeds(outcome) == outcome \in {"accepted", "refused"}
Succeeds(outcome) == outcome = "accepted"

SendEnds(outcome) ==
    /\ TaskRuns
    /\ forwarder = "sending"
    /\ accepted' = IF Stored(outcome) THEN accepted \cup ({message} \ {Warning})
                                      ELSE accepted
    /\ forwarder' = IF Succeeds(outcome) THEN "accepted" ELSE "failed"
    /\ UNCHANGED <<panics, mode, installed, flash, FLASH_BUSY, queue, message,
                   recovered, persisted>>

\* After a second, only the report of a panic is tried again.
RetriesNothing(record) == FALSE
Retries(record) == is_persisted_panic(record)

Retry ==
    /\ TaskRuns
    /\ forwarder = "failed"
    /\ forwarder' = IF Retries(message) THEN "sending" ELSE "receiving"
    /\ UNCHANGED <<panics, mode, installed, flash, FLASH_BUSY, queue, message,
                   recovered, histories>>

\* The next message is received once the partition is clear, or clear() failed.
Forwarded ==
    /\ mode = "running" /\ FLASH_BUSY = "free"
    /\ forwarder = "accepted"
    /\ forwarder' = "receiving"
    /\ UNCHANGED <<panics, mode, installed, flash, FLASH_BUSY, queue, message,
                   recovered, histories>>

ClearStarts ==
    /\ mode = "running" /\ FLASH_BUSY = "free"
    /\ forwarder = "accepted"
    /\ is_persisted_panic(message)
    /\ installed
    /\ FLASH_BUSY' = "clear"
    /\ flash' = Tear(flash)
    /\ UNCHANGED <<panics, mode, installed, queue, forwarder, message,
                   recovered, histories>>

\* The erase succeeds, or returns an error and leaves the record torn.
ClearEnds ==
    /\ mode = "running" /\ FLASH_BUSY = "clear"
    /\ FLASH_BUSY' = "free"
    /\ flash' \in {None, flash}
    /\ forwarder' = "receiving"
    /\ UNCHANGED <<panics, mode, installed, queue, message, recovered, histories>>

\* An OTA update, or the confirmation of the image, in the other partitions.
OtaStarts ==
    /\ TaskRuns
    /\ installed
    /\ FLASH_BUSY' = "ota"
    /\ UNCHANGED <<panics, mode, installed, flash, queue, forwarder, message,
                   recovered, histories>>

OtaEnds ==
    /\ mode = "running" /\ FLASH_BUSY = "ota"
    /\ FLASH_BUSY' = "free"
    /\ UNCHANGED <<panics, mode, installed, flash, queue, forwarder, message,
                   recovered, histories>>

-----------------------------------------------------------------------------
(* The panic handler. *)

Panic ==
    /\ mode \in {"starting", "running"}
    /\ panics < MaxPanics
    /\ panics' = panics + 1
    /\ mode' = "panicking"
    /\ UNCHANGED <<installed, flash, FLASH_BUSY, queue, forwarder, message,
                   recovered, histories>>

\* with_flash returns Busy or Unavailable: the panic is not persisted.
PersistRefused ==
    /\ mode = "panicking"
    /\ ~installed \/ FLASH_BUSY \in {"clear", "ota"}
    /\ Reset
    /\ UNCHANGED <<flash, persisted>>

PersistStarts ==
    /\ mode = "panicking"
    /\ installed /\ FLASH_BUSY = "free"
    /\ FLASH_BUSY' = "erase"
    /\ flash' = Tear(flash)
    /\ UNCHANGED <<panics, mode, installed, queue, forwarder, message,
                   recovered, histories>>

PersistWrites ==
    /\ mode = "panicking" /\ FLASH_BUSY = "erase"
    /\ FLASH_BUSY' = "write"
    /\ flash' = Tear(encode(panics))
    /\ UNCHANGED <<panics, mode, installed, queue, forwarder, message,
                   recovered, histories>>

PersistEnds ==
    /\ mode = "panicking" /\ FLASH_BUSY = "write"
    /\ flash' = encode(panics)
    /\ persisted' = persisted \cup {panics}
    /\ Reset

-----------------------------------------------------------------------------

Next ==
    \/ PowerLoss
    \/ Initialize
    \/ InitializeFails
    \/ LogWarning
    \/ Receive
    \/ \E outcome \in Outcomes : SendEnds(outcome)
    \/ Retry
    \/ Forwarded
    \/ ClearStarts
    \/ ClearEnds
    \/ OtaStarts
    \/ OtaEnds
    \/ Panic
    \/ PersistRefused
    \/ PersistStarts
    \/ PersistWrites
    \/ PersistEnds

Spec == Init /\ [][Next]_vars

(***************************************************************************)
(* The executor polls the forwarder, a flash operation ends, and a server  *)
(* that is asked again and again accepts in the end.                       *)
(***************************************************************************)
Fairness ==
    /\ SF_vars(Receive)
    /\ SF_vars(SendEnds("accepted"))
    /\ SF_vars(Retry)
    /\ WF_vars(Forwarded \/ ClearStarts)
    /\ WF_vars(ClearEnds)
    /\ WF_vars(OtaEnds)

FairSpec == Spec /\ Fairness

-----------------------------------------------------------------------------
(* Properties. *)

TypeOK ==
    /\ panics \in 0..MaxPanics
    /\ mode \in {"starting", "running", "panicking"}
    /\ installed \in BOOLEAN
    /\ flash \in FlashRecords \cup {None}
    /\ FLASH_BUSY \in {"free", "clear", "ota", "erase", "write"}
    /\ queue \in Seq(Messages) /\ Len(queue) <= STRUCTURED_LOG_QUEUE_CAPACITY
    /\ forwarder \in {"receiving", "sending", "failed", "accepted"}
    /\ message \in Messages \cup {None}
    /\ recovered \in Panics \cup {None}
    /\ persisted \subseteq Panics
    /\ accepted \subseteq Panics

\* Only what a panic handler wrote to the end is recovered, reported and
\* forwarded, wherever an erase or a write was cut short.
OnlyPersistedIsReported ==
    /\ recovered # None => recovered \in persisted
    /\ accepted \subseteq persisted

\* structured_log.rs clears the partition only of a panic that Victoria Logs
\* has accepted; apart from that only the handler of a newer one overwrites it.
RecordKeptUntilAccepted ==
    [][(decode(flash) # None /\ flash' # flash)
          => decode(flash) \in accepted \/ mode = "panicking"]_vars

\* The panic handler, the boot, the queue, the forwarder and the partition together
\* implement the mailbox: what the server gets is the report that is in the
\* partition at that time, and never one that was torn, erased or given up.
Mailbox ==
    INSTANCE PanicMailbox WITH handling <- (mode = "panicking"),
                               record <- decode(flash), reported <- accepted
ImplementsMailbox == Mailbox!Spec

\* A panic that a boot recovers is forwarded, whatever warnings compete for the
\* queue and however often the server fails, unless that boot ends before.
RecoveredPanicIsForwarded ==
    \A panic \in Panics :
        (recovered = panic) ~> (panic \in accepted \/ mode # "running")

=============================================================================
