---------------------------- MODULE MCAllocator ----------------------------
(***************************************************************************)
(* The allocator and the two machines on every frame of OneLength           *)
(* instructions and on programs of two frames of TwoLength instructions, of *)
(* which those that are linear are what the lowering emits.                 *)
(***************************************************************************)
EXTENDS AllocatorValues, MCFrames

CONSTANTS OneLength, TwoLength

TwoRegs   == <<"AX", "BX">>
ThreeRegs == <<"AX", "BX", "R10">>

Frames(n) == FramesOver(Alphabet(VirtId), n, VirtId)

LinearFrames(n) == {f \in Frames(n) : Linear(f)}

AllPrograms    == {<< >>} \cup OneFrame(Frames(OneLength)) \cup TwoFrames(Frames(TwoLength))
LinearPrograms == OneFrame(LinearFrames(OneLength)) \cup TwoFrames(LinearFrames(TwoLength))
=============================================================================
