---------------------------- MODULE OtaUpdateProofs ----------------------------
(***************************************************************************)
(* What OtaUpdate keeps for any size of the slots and any number of        *)
(* uploads.  The argument: an upload is written to a slot that is not the  *)
(* selected one, and the chunks that slot lacks are those not yet written; *)
(* so when the digest matches, the slot holds a whole and signed image,    *)
(* and only then is it selected.                                           *)
(***************************************************************************)
EXTENDS OtaUpdate, TLAPS

\* Between uploads nothing of the last one is left.
NothingLeft ==
    phase \in {"off", "booting", "listening"}
        => target = None /\ written = 0 /\ hasher

\* The slot being written is not the selected one, and lacks what is not written.
UploadAccounted ==
    phase = "receiving" =>
        /\ target = next_partition
        /\ upload \in Headers /\ upload.image_size <= SlotChunks
        /\ written <= upload.image_size
        /\ written = 0 => slots[target] = None /\ hasher
        /\ written > 0 =>
              /\ slots[target] # None
              /\ slots[target].missing = upload.image_size - written
              /\ hasher => slots[target].sound

\* The selected image starts, so it is the one that is running at a boot.
BootedIsSelected == phase = "booting" => running = otadata.slot

IInv ==
    /\ TypeOK
    /\ SelectedSlotStarts
    /\ NothingLeft
    /\ UploadAccounted
    /\ BootedIsSelected

-----------------------------------------------------------------------------

USE DEF taskVars

LEMMA NextPartition ==
  next_partition \in {"ota_0", "ota_1"} /\ next_partition # otadata.slot
  BY DEF next_partition

LEMMA InitIInv == Init => IInv
  <1> SUFFICES ASSUME Init PROVE IInv
    OBVIOUS
  <1>1. FactoryImage \in Programmed /\ 0 \in Images
    BY OtaAssumption DEF FactoryImage, Programmed, Images
  <1>2. slots \in [Slots -> Contents]
    BY <1>1 DEF Init, Contents
  <1>3. TypeOK
    BY <1>1, <1>2, OtaAssumption DEF Init, TypeOK, Slots, OtaImageStates
  <1>4. SelectedSlotStarts
    <2>1. slots[otadata.slot] = FactoryImage
      BY DEF Init, Slots
    <2>2. FactoryImage # None
      BY <1>1, NoneAssumption
    <2> QED  BY <2>1, <2>2 DEF SelectedSlotStarts, Starts, FactoryImage
  <1> QED
    BY <1>3, <1>4 DEF Init, IInv, NothingLeft, UploadAccounted, BootedIsSelected

\* Writing a chunk, as long as one is missing, leaves a typed slot that holds
\* something, lacks one chunk less and is sound if it was and the chunk is.
LEMMA ProgramType ==
  ASSUME TypeOK, upload \in Headers, upload.image_size <= SlotChunks,
         NEW good \in BOOLEAN, NEW c \in Contents,
         c # None => c.missing > 0
  PROVE  /\ Program(c, good) \in Programmed
         /\ c = None => /\ Program(c, good).missing = upload.image_size - 1
                        /\ Program(c, good).sound = good
         /\ c # None => /\ Program(c, good).missing = c.missing - 1
                        /\ Program(c, good).sound = (c.sound /\ good)
  <1>1. CASE c = None
    <2>1. upload.image_size - 1 \in 0..SlotChunks
      BY OtaAssumption DEF Headers
    <2> QED  BY <1>1, <2>1 DEF Program, Programmed, TypeOK
  <1>2. CASE c # None
    <2>1. c \in Programmed
      BY <1>2 DEF Contents
    <2>2. c.missing - 1 \in 0..SlotChunks
      BY <1>2, <2>1, OtaAssumption DEF Programmed
    <2>3. Program(c, good) = [c EXCEPT !.missing = @ - 1, !.sound = @ /\ good]
      BY <1>2 DEF Program
    <2>4. (c.sound /\ good) \in BOOLEAN
      BY <2>1 DEF Programmed
    <2> QED  BY <1>2, <2>1, <2>2, <2>3, <2>4 DEF Programmed
  <1> QED  BY <1>1, <1>2

\* The selected slot holds an image.
LEMMA SelectedIsProgrammed ==
  ASSUME TypeOK, SelectedSlotStarts
  PROVE  slots[otadata.slot] \in Programmed /\ slots[otadata.slot] # None
  BY DEF TypeOK, SelectedSlotStarts, Starts, Contents

\* The next state of the selected slot, unless the selection moves.
LEMMA SelectedUntouched ==
  ASSUME SelectedSlotStarts, slots'[otadata.slot] = slots[otadata.slot],
         otadata'.slot = otadata.slot
  PROVE  SelectedSlotStarts'
  BY DEF SelectedSlotStarts, Starts

LEMMA NextIInv == IInv /\ [Next]_vars => IInv'
  <1> SUFFICES ASSUME IInv, [Next]_vars PROVE IInv'
    OBVIOUS
  <1> USE DEF IInv
  <1>1. CASE PowerLoss
    <2>1. TypeOK' /\ NothingLeft' /\ UploadAccounted' /\ BootedIsSelected'
      BY <1>1, OtaAssumption
      DEF PowerLoss, UploadOver, TypeOK, NothingLeft, UploadAccounted,
          BootedIsSelected
    <2> QED  BY <1>1, <2>1, SelectedUntouched DEF PowerLoss
  <1>2. CASE Bootloader
    <2>1. running' = otadata.slot /\ otadata'.slot = otadata.slot
      BY <1>2 DEF Bootloader, SelectedSlotStarts, TypeOK
    <2>2. otadata' \in [slot : Slots, state : OtaImageStates]
      BY <1>2 DEF Bootloader, TypeOK, OtaImageStates
    <2>3. booted' = slots[otadata.slot].image /\ booted' \in Images
      BY <1>2, <2>1, SelectedIsProgrammed DEF Bootloader, Programmed
    <2>4. TypeOK'
      BY <1>2, <2>1, <2>2, <2>3 DEF Bootloader, TypeOK
    <2> QED
      BY <1>2, <2>1, <2>4, SelectedUntouched
      DEF Bootloader, NothingLeft, UploadAccounted, BootedIsSelected
  <1>3. CASE confirm_running_image
    <2>1. /\ otadata'.slot = otadata.slot
          /\ otadata' \in [slot : Slots, state : OtaImageStates]
      BY <1>3 DEF confirm_running_image, TypeOK, OtaImageStates
    <2>2. TypeOK'
      BY <1>3, <2>1 DEF confirm_running_image, TypeOK
    <2> QED
      BY <1>3, <2>1, <2>2, SelectedUntouched
      DEF confirm_running_image, NothingLeft, UploadAccounted, BootedIsSelected
  <1>4. ASSUME NEW header \in Headers, Prepare(header) PROVE IInv'
    <2>1. slots' \in [Slots -> Contents]
      BY <1>4 DEF Prepare, TypeOK, Contents
    <2>2. slots'[otadata.slot] = slots[otadata.slot]
      BY <1>4, NextPartition DEF Prepare, TypeOK
    <2>3. target' = next_partition' /\ slots'[target'] = None
      BY <1>4, NextPartition DEF Prepare, TypeOK, Slots, next_partition
    <2>4. TypeOK'
      BY <1>4, <2>1, NextPartition, OtaAssumption DEF Prepare, TypeOK, Images
    <2>5. UploadAccounted'
      BY <1>4, <2>3 DEF Prepare, Fits, NothingLeft, UploadAccounted, Headers
    <2>6. SelectedSlotStarts'
      BY <1>4, <2>2, SelectedUntouched DEF Prepare
    <2> QED
      BY <1>4, <2>4, <2>5, <2>6 DEF Prepare, NothingLeft, BootedIsSelected
  <1>5. ASSUME NEW good \in BOOLEAN, ReceiveChunk(good) PROVE IInv'
    <2>1. /\ upload \in Headers /\ upload.image_size <= SlotChunks
          /\ target = next_partition /\ target # otadata.slot /\ target \in Slots
      BY <1>5, NextPartition DEF ReceiveChunk, UploadAccounted, Slots
    <2> DEFINE c == slots[target]
    <2>2. c \in Contents /\ (c # None => c.missing > 0)
      BY <1>5, <2>1 DEF ReceiveChunk, UploadAccounted, TypeOK, Headers
    <2>3. slots'[target] = Program(c, good) /\ Program(c, good) \in Programmed
      BY <1>5, <2>1, <2>2, ProgramType DEF ReceiveChunk, TypeOK
    <2>4. slots' \in [Slots -> Contents] /\ slots'[otadata.slot] = slots[otadata.slot]
      BY <1>5, <2>1, <2>3 DEF ReceiveChunk, TypeOK, Contents
    <2>5. TypeOK'
      BY <1>5, <2>1, <2>4, OtaAssumption DEF ReceiveChunk, TypeOK, Headers
    <2>6. UploadAccounted'
      <3>1. slots'[target'] # None /\ written' > 0 /\ written' <= upload'.image_size
        BY <1>5, <2>1, <2>3, NoneAssumption DEF ReceiveChunk, TypeOK, Headers
      <3>2. slots'[target'].missing = upload'.image_size - written'
        BY <1>5, <2>1, <2>2, <2>3, ProgramType
        DEF ReceiveChunk, UploadAccounted, TypeOK, Headers
      <3>3. hasher' => slots'[target'].sound
        BY <1>5, <2>1, <2>2, <2>3, ProgramType
        DEF ReceiveChunk, UploadAccounted, TypeOK
      <3> QED
        BY <1>5, <2>1, <3>1, <3>2, <3>3
        DEF ReceiveChunk, UploadAccounted, next_partition
    <2>7. SelectedSlotStarts'
      BY <1>5, <2>4, SelectedUntouched DEF ReceiveChunk
    <2> QED
      BY <1>5, <2>5, <2>6, <2>7 DEF ReceiveChunk, NothingLeft, BootedIsSelected
  <1>6. CASE UploadFails
    <2>1. target # otadata.slot /\ target \in Slots
      BY <1>6, NextPartition DEF UploadFails, UploadAccounted, Slots
    <2>2. /\ slots' \in [Slots -> Contents]
          /\ slots'[otadata.slot] = slots[otadata.slot]
      <3>1. CASE UNCHANGED slots
        BY <3>1 DEF TypeOK
      <3>2. CASE /\ slots[target] # None
                 /\ slots' = [slots EXCEPT ![target].sound = FALSE]
        <4>1. slots[target] \in Programmed
          BY <3>2, <2>1 DEF TypeOK, Contents
        <4>2. [slots[target] EXCEPT !.sound = FALSE] \in Contents
          BY <4>1 DEF Programmed, Contents
        <4> QED  BY <3>2, <4>2, <2>1 DEF TypeOK
      <3> QED  BY <1>6, <3>1, <3>2 DEF UploadFails
    <2>3. TypeOK'
      BY <1>6, <2>2, OtaAssumption DEF UploadFails, Rejected, UploadOver, TypeOK
    <2>4. SelectedSlotStarts'
      BY <1>6, <2>2, SelectedUntouched DEF UploadFails
    <2> QED
      BY <1>6, <2>3, <2>4
      DEF UploadFails, Rejected, UploadOver, NothingLeft, UploadAccounted,
          BootedIsSelected
  <1>7. CASE Activate
    <2>1. otadata' = [slot |-> target, state |-> "Undefined"]
      BY <1>7 DEF Activate
    <2>2. target \in {"ota_0", "ota_1"}
      BY <1>7, NextPartition DEF Activate
    <2>3. Starts(slots[target])
      <3>1. written > 0 /\ upload.image_size - written = 0
        BY <1>7 DEF Activate, UploadAccounted, Headers, TypeOK
      <3> QED
        BY <1>7, <3>1
        DEF Activate, DigestMatches, UploadAccounted, Starts
    <2>4. SelectedSlotStarts'
      BY <1>7, <2>1, <2>3 DEF Activate, SelectedSlotStarts, Starts
    <2>5. TypeOK'
      BY <1>7, <2>1, <2>2 DEF Activate, TypeOK, Slots, OtaImageStates
    <2> QED
      BY <1>7, <2>4, <2>5
      DEF Activate, NothingLeft, UploadAccounted, BootedIsSelected
  <1>8. CASE SetNew
    <2>1. /\ otadata'.slot = otadata.slot
          /\ otadata' \in [slot : Slots, state : OtaImageStates]
      BY <1>8 DEF SetNew, TypeOK, OtaImageStates
    <2>2. TypeOK'
      BY <1>8, <2>1, OtaAssumption DEF SetNew, UploadOver, TypeOK
    <2> QED
      BY <1>8, <2>1, <2>2, SelectedUntouched
      DEF SetNew, UploadOver, NothingLeft, UploadAccounted, BootedIsSelected
  <1>9. CASE SetNewFails
    <2>1. TypeOK' /\ NothingLeft' /\ UploadAccounted' /\ BootedIsSelected'
      BY <1>9, OtaAssumption
      DEF SetNewFails, Rejected, UploadOver, TypeOK, NothingLeft,
          UploadAccounted, BootedIsSelected
    <2> QED  BY <1>9, <2>1, SelectedUntouched DEF SetNewFails
  <1>10. CASE UNCHANGED vars
    BY <1>10
    DEF vars, TypeOK, SelectedSlotStarts, Starts, NothingLeft, UploadAccounted,
        BootedIsSelected, next_partition
  <1> QED
    BY <1>1, <1>2, <1>3, <1>4, <1>5, <1>6, <1>7, <1>8, <1>9, <1>10 DEF Next

-----------------------------------------------------------------------------

\* Every reachable state is well typed; no upload writes past its slot.
THEOREM OtaTypeCorrect == Spec => []TypeOK
  <1>1. IInv => TypeOK
    BY DEF IInv
  <1> QED  BY <1>1, InitIInv, NextIInv, PTL DEF Spec

\* Wherever an update fails or the power is lost, otadata selects a whole image
\* that was signed.
THEOREM AlwaysBootable == Spec => []SelectedSlotStarts
  <1>1. IInv => SelectedSlotStarts
    BY DEF IInv
  <1> QED  BY <1>1, InitIInv, NextIInv, PTL DEF Spec

\* Only the image that is running is ever marked as valid.
THEOREM ConfirmedIsRunning == Spec => OnlyRunningImageIsConfirmed
  <1> DEFINE Confirmed == (otadata' # otadata /\ otadata'.state = "Valid")
                             => running = otadata'.slot
  <1>1. IInv /\ [Next]_vars => [Confirmed]_vars
    <2> SUFFICES ASSUME IInv, Next, otadata' # otadata, otadata'.state = "Valid"
                 PROVE  running = otadata'.slot
      OBVIOUS
    <2>1. otadata \in [slot : Slots, state : OtaImageStates]
      BY DEF IInv, TypeOK
    <2>2. ~Bootloader
      BY <2>1 DEF Bootloader
    <2>3. ~Activate /\ ~SetNew
      BY <2>1 DEF Activate, SetNew
    <2>4. confirm_running_image
      BY <2>2, <2>3
      DEF Next, PowerLoss, Prepare, ReceiveChunk, UploadFails, SetNewFails
    <2>5. otadata'.slot = otadata.slot
      BY <2>1, <2>4 DEF confirm_running_image
    <2> QED  BY <2>4, <2>5 DEF IInv, BootedIsSelected, confirm_running_image
  <1> QED
    BY <1>1, InitIInv, NextIInv, PTL DEF Spec, OnlyRunningImageIsConfirmed

-----------------------------------------------------------------------------
(* The refinement.  The images are numbered by their uploads: the one being   *)
(* written is that of the newest upload, because the erase of prepare_target  *)
(* takes what was in its slot before, and the selected one is older.          *)

Numbered ==
    /\ slots[otadata.slot].image <= uploads
    /\ phase = "receiving" =>
          /\ slots[otadata.slot].image < uploads
          /\ written > 0 => slots[target].image = uploads

\* The bootloader starts the selected image, and the selection moves only then on
\* when the device has run for a while.
BootedIsInstalled ==
    /\ phase = "off" <=> booted = None
    /\ phase = "booting" => booted = slots[otadata.slot].image

\* validate_and_activate selects a slot before it gives it a state.
ActivatedIsUnconfirmed == phase = "activated" => otadata.state # "Valid"

PInv == Numbered /\ BootedIsInstalled /\ ActivatedIsUnconfirmed

LEMMA InitPInv == Init => PInv
  BY OtaAssumption
  DEF Init, PInv, Numbered, BootedIsInstalled, ActivatedIsUnconfirmed, Slots,
      FactoryImage

\* A step that leaves the selected slot, the uploads and the phase of an upload
\* alone, or ends the upload, keeps the numbers in order.
LEMMA NumberedUntouched ==
  ASSUME Numbered, slots'[otadata'.slot] = slots[otadata.slot], uploads' = uploads,
         phase' # "receiving"
  PROVE  Numbered'
  BY DEF Numbered

\* Each of the three parts, step by step.
LEMMA NextPInv == IInv /\ PInv /\ [Next]_vars => PInv'
  <1> SUFFICES ASSUME IInv, PInv, [Next]_vars PROVE PInv'
    OBVIOUS
  <1> USE DEF IInv, PInv
  <1>1. CASE PowerLoss
    <2>1. Numbered'
      BY <1>1, NumberedUntouched DEF PowerLoss, UploadOver
    <2> QED
      BY <1>1, <2>1 DEF PowerLoss, BootedIsInstalled, ActivatedIsUnconfirmed
  <1>2. CASE Bootloader
    <2>1. running' = otadata.slot /\ otadata'.slot = otadata.slot
      BY <1>2 DEF Bootloader, SelectedSlotStarts, TypeOK
    <2>2. booted' = slots[otadata.slot].image /\ booted' \in Images
      BY <1>2, <2>1, SelectedIsProgrammed DEF Bootloader, Programmed
    <2>3. Numbered'
      BY <1>2, <2>1, NumberedUntouched DEF Bootloader
    <2> QED
      BY <1>2, <2>1, <2>2, <2>3, NoneAssumption
      DEF Bootloader, BootedIsInstalled, ActivatedIsUnconfirmed
  <1>3. CASE confirm_running_image
    <2>1. otadata'.slot = otadata.slot
      BY <1>3 DEF confirm_running_image, TypeOK
    <2>2. Numbered'
      BY <1>3, <2>1, NumberedUntouched DEF confirm_running_image
    <2> QED
      BY <1>3, <2>2
      DEF confirm_running_image, BootedIsInstalled, ActivatedIsUnconfirmed
  <1>4. ASSUME NEW header \in Headers, Prepare(header) PROVE PInv'
    <2>1. slots'[otadata'.slot] = slots[otadata.slot]
      BY <1>4, NextPartition DEF Prepare, TypeOK
    <2>2. slots[otadata.slot].image \in Nat /\ uploads \in Nat /\ uploads' = uploads + 1
      BY <1>4, SelectedIsProgrammed DEF Prepare, TypeOK, Programmed, Images
    <2>3. written' = 0
      BY <1>4 DEF Prepare, NothingLeft
    <2>4. Numbered'
      BY <2>1, <2>2, <2>3 DEF Numbered
    <2> QED
      BY <1>4, <2>4 DEF Prepare, BootedIsInstalled, ActivatedIsUnconfirmed
  <1>5. ASSUME NEW good \in BOOLEAN, ReceiveChunk(good) PROVE PInv'
    <2>1. /\ target = next_partition /\ target # otadata.slot /\ target \in Slots
          /\ slots[target] \in Contents
      BY <1>5, NextPartition DEF ReceiveChunk, UploadAccounted, Slots, TypeOK
    <2>2. slots'[otadata'.slot] = slots[otadata.slot]
      BY <1>5, <2>1 DEF ReceiveChunk, TypeOK
    <2>3. slots'[target] = Program(slots[target], good)
      BY <1>5, <2>1 DEF ReceiveChunk, TypeOK
    <2>4. Program(slots[target], good).image = uploads
      <3>1. CASE slots[target] = None
        BY <3>1 DEF Program
      <3>2. CASE slots[target] # None
        <4>1. slots[target] \in Programmed
          BY <2>1, <3>2 DEF Contents
        <4>2. slots[target].image = uploads
          BY <1>5, <3>2 DEF ReceiveChunk, UploadAccounted, Numbered, TypeOK
        <4> QED  BY <3>2, <4>1, <4>2 DEF Program, Programmed
      <3> QED  BY <3>1, <3>2
    <2>5. Numbered'
      BY <1>5, <2>2, <2>3, <2>4 DEF ReceiveChunk, Numbered
    <2> QED
      BY <1>5, <2>5 DEF ReceiveChunk, BootedIsInstalled, ActivatedIsUnconfirmed
  <1>6. CASE UploadFails
    <2>1. target # otadata.slot
      BY <1>6, NextPartition DEF UploadFails, UploadAccounted
    <2>2. slots'[otadata'.slot] = slots[otadata.slot]
      BY <1>6, <2>1 DEF UploadFails, TypeOK
    <2>3. Numbered'
      BY <1>6, <2>2, NumberedUntouched DEF UploadFails, Rejected, UploadOver
    <2> QED
      BY <1>6, <2>3
      DEF UploadFails, Rejected, BootedIsInstalled, ActivatedIsUnconfirmed
  <1>7. CASE Activate
    <2>1. otadata' = [slot |-> target, state |-> "Undefined"] /\ written > 0
      BY <1>7 DEF Activate, UploadAccounted, Headers, TypeOK
    <2>2. slots'[otadata'.slot].image = uploads' /\ phase' = "activated" /\ uploads \in Nat
      BY <1>7, <2>1 DEF Activate, Numbered, TypeOK, Images
    <2>3. Numbered'
      BY <2>2, <1>7 DEF Numbered, Activate
    <2> QED
      BY <1>7, <2>1, <2>3 DEF Activate, BootedIsInstalled, ActivatedIsUnconfirmed
  <1>8. CASE SetNew
    <2>1. otadata'.slot = otadata.slot
      BY <1>8 DEF SetNew, TypeOK
    <2>2. Numbered'
      BY <1>8, <2>1, NumberedUntouched DEF SetNew, UploadOver
    <2> QED
      BY <1>8, <2>2 DEF SetNew, BootedIsInstalled, ActivatedIsUnconfirmed
  <1>9. CASE SetNewFails
    <2>1. Numbered'
      BY <1>9, NumberedUntouched DEF SetNewFails, Rejected, UploadOver
    <2> QED
      BY <1>9, <2>1
      DEF SetNewFails, Rejected, BootedIsInstalled, ActivatedIsUnconfirmed
  <1>10. CASE UNCHANGED vars
    BY <1>10 DEF vars, Numbered, BootedIsInstalled, ActivatedIsUnconfirmed
  <1> QED
    BY <1>1, <1>2, <1>3, <1>4, <1>5, <1>6, <1>7, <1>8, <1>9, <1>10 DEF Next

LEMMA InstalledIsSelected ==
  ASSUME SelectedSlotStarts
  PROVE  Installed = slots[otadata.slot].image
  BY DEF SelectedSlotStarts, Installed

-----------------------------------------------------------------------------

\* Every step of the update is a step of the one installed image, or none.
THEOREM ImageIsReplacedAtOnce == Spec => InstallsInOneStep
  <1> DEFINE outside == <<uploads, Installed, (otadata.state = "Valid"), booted>>
  <1>1. Init => Promise!Init
    <2> SUFFICES ASSUME Init PROVE Promise!Init
      OBVIOUS
    <2>1. SelectedSlotStarts
      BY InitIInv DEF IInv
    <2>2. Installed = 0
      BY <2>1, InstalledIsSelected DEF Init, Slots, FactoryImage
    <2> QED  BY <2>2 DEF Init, Promise!Init
  <1>2. IInv /\ IInv' /\ PInv /\ PInv' /\ [Next]_vars => [Promise!Next]_outside
    <2> SUFFICES ASSUME IInv, IInv', PInv, PInv', [Next]_vars
                 PROVE  [Promise!Next]_outside
      OBVIOUS
    <2> USE DEF IInv, PInv
    <2>0. /\ Installed = slots[otadata.slot].image
          /\ Installed' = slots'[otadata'.slot].image
      <3>1. Installed = slots[otadata.slot].image
        BY InstalledIsSelected
      <3>2. Installed' = slots'[otadata'.slot].image
        BY DEF SelectedSlotStarts, Installed
      <3> QED  BY <3>1, <3>2
    <2> DEFINE valid == otadata.state = "Valid"
    <2>1. CASE PowerLoss
      BY <2>0, <2>1 DEF PowerLoss, UploadOver, Promise!Next, Promise!Stop
    <2>2. CASE Bootloader
      <3>1. otadata'.slot = otadata.slot /\ (valid' <=> valid) /\ booted = None
        BY <2>2 DEF Bootloader, TypeOK, BootedIsInstalled
      <3>2. booted' = Installed
        BY <2>0, <2>2, <3>1 DEF Bootloader, BootedIsInstalled
      <3> QED
        BY <2>0, <2>2, <3>1, <3>2 DEF Bootloader, Promise!Next, Promise!Start
    <2>3. CASE confirm_running_image
      <3>1. otadata'.slot = otadata.slot /\ booted = Installed
        BY <2>0, <2>3 DEF confirm_running_image, TypeOK, BootedIsInstalled
      <3>2. otadata' = otadata \/ (otadata'.state = "Valid")
        BY <2>3 DEF confirm_running_image, TypeOK
      <3> QED
        BY <2>0, <2>3, <3>1, <3>2
        DEF confirm_running_image, Promise!Next, Promise!Confirm
    <2>4. ASSUME NEW header \in Headers, Prepare(header)
          PROVE  [Promise!Next]_outside
      <3>1. slots'[otadata'.slot] = slots[otadata.slot]
        BY <2>4, NextPartition DEF Prepare, TypeOK
      <3> QED
        BY <2>0, <2>4, <3>1 DEF Prepare, Promise!Next, Promise!Upload
    <2>5. ASSUME NEW good \in BOOLEAN, ReceiveChunk(good)
          PROVE  [Promise!Next]_outside
      <3>1. target # otadata.slot
        BY <2>5, NextPartition DEF ReceiveChunk, UploadAccounted
      <3>2. slots'[otadata'.slot] = slots[otadata.slot]
        BY <2>5, <3>1 DEF ReceiveChunk, TypeOK
      <3> QED  BY <2>0, <2>5, <3>2 DEF ReceiveChunk
    <2>6. CASE UploadFails
      <3>1. target # otadata.slot
        BY <2>6, NextPartition DEF UploadFails, UploadAccounted
      <3>2. slots'[otadata'.slot] = slots[otadata.slot]
        BY <2>6, <3>1 DEF UploadFails, TypeOK
      <3> QED  BY <2>0, <2>6, <3>2 DEF UploadFails, Rejected, UploadOver
    <2>7. CASE Activate
      <3>1. otadata' = [slot |-> target, state |-> "Undefined"] /\ written > 0
        BY <2>7 DEF Activate, UploadAccounted, Headers, TypeOK
      <3>2. Installed' = uploads /\ Installed < uploads /\ booted # None
        BY <2>0, <2>7, <3>1 DEF Activate, Numbered, BootedIsInstalled
      <3> QED
        BY <2>7, <3>1, <3>2 DEF Activate, Promise!Next, Promise!Install
    <2>8. CASE SetNew
      <3>1. otadata'.slot = otadata.slot /\ ~valid /\ ~valid'
        BY <2>8 DEF SetNew, TypeOK, ActivatedIsUnconfirmed
      <3> QED
        BY <2>0, <2>8, <3>1 DEF SetNew, UploadOver, Promise!Next, Promise!Stop
    <2>9. CASE SetNewFails
      BY <2>0, <2>9 DEF SetNewFails, Rejected, UploadOver
    <2>10. CASE UNCHANGED vars
      BY <2>0, <2>10 DEF vars
    <2> QED
      BY <2>1, <2>2, <2>3, <2>4, <2>5, <2>6, <2>7, <2>8, <2>9, <2>10 DEF Next
  <1> QED
    BY <1>1, <1>2, InitIInv, NextIInv, InitPInv, NextPInv, PTL
    DEF Spec, InstallsInOneStep, Promise!Spec

=============================================================================
