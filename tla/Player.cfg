CONSTANTS
  Sounds = {"moses", "organ"}
  MaxRequests = 4
SPECIFICATION Spec
INVARIANTS SoundsInOrder PlayingFlagFaithful
PROPERTIES ImplementsSoundQueue FlagDrops
