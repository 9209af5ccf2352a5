SPECIFICATION Spec
CONSTANTS
  buffer_size_ = 4
  Quality = 2
  blip_buffer_extra = 2
  Unit = 3
  factor_ = 2
  Word = 256
  Times = {2, 3}
  MaxNow = 12
  ReadInFrame = FALSE
INVARIANTS TypeOK NothingLost InStep SilenceIsEmpty BehindIsClear CountClocksIsLeast
PROPERTY SoundIsKept
