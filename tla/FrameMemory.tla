----------------------------- MODULE FrameMemory -----------------------------
(***************************************************************************)
(* The memory a program expects: every frame has an own memory, without end *)
(* and zero at first.  An instruction that lets the frame go on, or the     *)
(* result of a call, writes to the running frame's memory only.  An         *)
(* instruction that ends the frame or makes a call changes no memory.  A    *)
(* call starts a frame with a fresh memory, its end leaves the caller's     *)
(* memory as it was, and an error drops every frame.                        *)
(***************************************************************************)
EXTENDS Naturals, Sequences

CONSTANT Offsets   \* the offsets that are looked at

VARIABLES
    memories,  \* the memory of every frame, the running one last
    running    \* whether the last frame executes instructions

vars == <<memories, running>>

Fresh == [o \in Offsets |-> 0]

Init == memories = << >> /\ running = FALSE

Store ==
    /\ memories # << >> /\ Len(memories') = Len(memories)
    /\ memories' = [memories EXCEPT ![Len(memories)] = memories'[Len(memories)]]
    /\ running' = TRUE

Suspend == running /\ running' = FALSE /\ UNCHANGED memories

Enter == memories' = Append(memories, Fresh) /\ running' = TRUE

Leave ==
    /\ memories # << >> /\ memories' = SubSeq(memories, 1, Len(memories) - 1)
    /\ UNCHANGED running

Abort == memories' = << >> /\ running' = FALSE

Next == Store \/ Suspend \/ Enter \/ Leave \/ Abort

Spec == Init /\ [][Next]_vars

==============================================================================
