------------------------------- MODULE OtaUpdate -------------------------------
(***************************************************************************)
(* The over-the-air update: the ota task takes an authenticated upload     *)
(* chunk by chunk into the slot that is not selected, compares its digest, *)
(* lets otadata select the slot and reboots.  Power may fail, the device   *)
(* may panic and a flash operation may return an error at every step.      *)
(*                                                                         *)
(* External: OtaUpdater of esp_bootloader_esp_idf, which reads and writes  *)
(* otadata in one piece, and the bootloader, which starts what is selected *)
(* (or the factory image when that cannot be started).                     *)
(***************************************************************************)
EXTENDS Naturals

CONSTANTS
    None,        \* Rust's Option::None
    SlotChunks,  \* the capacity of an OTA slot, in chunks of FLASH_CHUNK_SIZE
    MaxUploads   \* bound on the uploads of a behaviour

ASSUME OtaAssumption == SlotChunks \in Nat \ {0} /\ MaxUploads \in Nat

VARIABLES
    slots,    \* what each app partition holds
    otadata,  \* the selected slot and the state of its image
    running,  \* the slot whose image is running, or None
    phase,    \* where the device is
    target,   \* Target: the slot that the upload is written to, or None
    upload,   \* the header of the upload in progress, or None
    written,  \* how many chunks of it are written
    hasher,   \* do the chunks so far agree with the digest of the header?
    uploads,  \* the uploads so far: the n-th one brings image n
    booted    \* history variable: the image that the bootloader started, or None

vars == <<slots, otadata, running, phase, target, upload, written, hasher, uploads, booted>>

taskVars == <<target, upload, written, hasher, uploads>>

-----------------------------------------------------------------------------

Slots == {"factory", "ota_0", "ota_1"}
Images == 0..MaxUploads
OtaImageStates == {"Undefined", "New", "PendingVerify", "Valid"}

\* The image a slot holds, the chunks that are still missing, and whether what
\* was written is what its sender signed.  An erased slot holds None.
Programmed == [image : Images, missing : 0..SlotChunks, sound : BOOLEAN]
Contents == Programmed \cup {None}
FactoryImage == [image |-> 0, missing |-> 0, sound |-> TRUE]

Starts(content) == content # None /\ content.missing = 0 /\ content.sound

\* An authentic header, of any size that is not zero; is_app is what the first
\* byte of the image will tell.
Headers == [image_size : 1..(SlotChunks + 1), is_app : BOOLEAN]

ASSUME NoneAssumption == None \notin Programmed /\ None \notin Images

\* OtaUpdater::next_partition follows the selected slot, not the running one.
next_partition == IF otadata.slot = "ota_0" THEN "ota_1" ELSE "ota_0"

-----------------------------------------------------------------------------

Init ==
    /\ slots = [s \in Slots |-> IF s = "factory" THEN FactoryImage ELSE None]
    /\ otadata = [slot |-> "factory", state |-> "Undefined"]
    /\ running = None
    /\ phase = "off"
    /\ target = None
    /\ upload = None
    /\ written = 0
    /\ hasher = TRUE
    /\ uploads = 0
    /\ booted = None

\* What the task forgets when an upload ends, whatever the reason.
UploadOver ==
    /\ target' = None
    /\ upload' = None
    /\ written' = 0
    /\ hasher' = TRUE
    /\ UNCHANGED uploads

\* A power loss, a panic or the watchdog.
PowerLoss ==
    /\ phase # "off"
    /\ phase' = "off"
    /\ running' = None /\ booted' = None
    /\ UploadOver
    /\ UNCHANGED <<slots, otadata>>

\* A bootloader with rollback marks an image of state New; one without does not.
Bootloader ==
    /\ phase = "off"
    /\ phase' = "booting"
    /\ running' = IF Starts(slots[otadata.slot]) THEN otadata.slot ELSE "factory"
    /\ booted' = slots[running'].image
    /\ otadata' \in {otadata, [otadata EXCEPT !.state =
                                  IF @ = "New" THEN "PendingVerify" ELSE @]}
    /\ UNCHANGED <<slots, taskVars>>

\* A write of otadata that fails is logged; the boot goes on.
confirm_running_image ==
    /\ phase = "booting"
    /\ phase' = "listening"
    /\ otadata' \in
         IF otadata.state \in {"New", "PendingVerify"}
         THEN {otadata, [otadata EXCEPT !.state = "Valid"]}
         ELSE {otadata}
    /\ UNCHANGED <<slots, running, booted, taskVars>>

-----------------------------------------------------------------------------
(* receive_update.  An error is answered with ERR and the task listens again. *)

Rejected ==
    /\ phase' = "listening"
    /\ UploadOver

\* prepare_target erases the slot that is not selected, or fails half-way.  An otadata
\* that cannot be read, which it would reset first, does not occur here.
AnySize(header) == TRUE
Fits(header) == header.image_size <= SlotChunks

Prepare_not_erased(header) ==
    /\ phase = "listening"
    /\ uploads < MaxUploads
    /\ Fits(header)
    /\ phase' = "receiving"
    /\ target' = next_partition
    /\ upload' = header
    /\ uploads' = uploads + 1
    /\ UNCHANGED <<slots, otadata, running, booted, written, hasher>>

Prepare(header) ==
    /\ phase = "listening"
    /\ uploads < MaxUploads
    /\ Fits(header)
    /\ phase' = "receiving"
    /\ target' = next_partition
    /\ upload' = header
    /\ uploads' = uploads + 1
    /\ slots' = [slots EXCEPT ![next_partition] = None]
    /\ UNCHANGED <<otadata, running, booted, written, hasher>>

\* Writing the first chunk makes the slot one of the new image.
Program(content, good) ==
    IF content = None
    THEN [image |-> uploads, missing |-> upload.image_size - 1, sound |-> good]
    ELSE [content EXCEPT !.missing = @ - 1, !.sound = @ /\ good]

\* A chunk may differ from what was signed; a sender may also send another file.
ReceiveChunk(good) ==
    /\ phase = "receiving"
    /\ written < upload.image_size
    /\ written = 0 => upload.is_app
    /\ slots' = [slots EXCEPT ![target] = Program(@, good)]
    /\ hasher' = (hasher /\ good)
    /\ written' = written + 1
    /\ UNCHANGED <<otadata, running, booted, phase, target, upload, uploads>>

\* No app image, the connection ends or times out, the erase or a write fails.
UploadFails ==
    /\ phase = "receiving"
    /\ Rejected
    /\ \/ UNCHANGED slots
       \/ slots[target] # None
          /\ slots' = [slots EXCEPT ![target].sound = FALSE]
    /\ UNCHANGED <<otadata, running, booted>>

AnyDigest == TRUE
DigestMatches == hasher

\* validate_and_activate, up to the selection of the slot.
Activate ==
    /\ phase = "receiving"
    /\ written = upload.image_size
    /\ DigestMatches
    /\ next_partition = target
    /\ phase' = "activated"
    /\ otadata' = [slot |-> next_partition, state |-> "Undefined"]
    /\ UNCHANGED <<slots, running, booted, taskVars>>

SetValid ==
    /\ phase = "activated"
    /\ otadata' = [otadata EXCEPT !.state = "Valid"]
    /\ phase' = "off"
    /\ running' = None /\ booted' = None
    /\ UploadOver
    /\ UNCHANGED slots

\* set_current_ota_state; then OK is answered and the device resets.
SetNew ==
    /\ phase = "activated"
    /\ otadata' = [otadata EXCEPT !.state = "New"]
    /\ phase' = "off"
    /\ running' = None /\ booted' = None
    /\ UploadOver
    /\ UNCHANGED slots

SetNewFails ==
    /\ phase = "activated"
    /\ Rejected
    /\ UNCHANGED <<slots, otadata, running, booted>>

Next ==
    \/ PowerLoss
    \/ Bootloader
    \/ confirm_running_image
    \/ \E header \in Headers : Prepare(header)
    \/ \E good \in BOOLEAN : ReceiveChunk(good)
    \/ UploadFails
    \/ Activate
    \/ SetNew
    \/ SetNewFails

Spec == Init /\ [][Next]_vars

-----------------------------------------------------------------------------
(* Properties. *)

TypeOK ==
    /\ slots \in [Slots -> Contents]
    /\ otadata \in [slot : Slots, state : OtaImageStates]
    /\ running \in Slots \cup {None}
    /\ phase \in {"off", "booting", "listening", "receiving", "activated"}
    /\ target \in {"ota_0", "ota_1", None}
    /\ upload \in Headers \cup {None}
    /\ written \in 0..SlotChunks
    /\ hasher \in BOOLEAN
    /\ uploads \in Images
    /\ booted \in Images \cup {None}

\* Whatever fails and whenever, otadata selects a slot whose image is complete
\* and was signed, so the next boot starts it.
SelectedSlotStarts == Starts(slots[otadata.slot])

\* confirm_running_image marks as valid the image that it runs in, never one
\* that was selected but could not be started, or has not been started yet.
OnlyRunningImageIsConfirmed ==
    [][(otadata' # otadata /\ otadata'.state = "Valid")
          => running = otadata'.slot]_vars

\* Slots, otadata, the bootloader and the chunks of an upload together implement
\* one installed image that is replaced in one step.
Installed ==
    LET selected == slots[otadata.slot]
    IN  IF Starts(selected) THEN selected.image ELSE None
Promise ==
    INSTANCE InstalledImage WITH installed <- Installed,
                                 confirmed <- (otadata.state = "Valid")
InstallsInOneStep == Promise!Spec

=============================================================================
