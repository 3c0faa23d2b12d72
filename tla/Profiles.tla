------------------------------- MODULE Profiles -------------------------------
(***************************************************************************)
(* The profiles' files as a whole: settings, context memory and skills     *)
(* from sources, worked on by concurrent calls.                            *)
(***************************************************************************)
EXTENDS ContextMemory, SkillSources

vars == <<store, memories, sources>>

TypeOK == StoreTypeOK /\ MemoryTypeOK /\ SourcesTypeOK

Init == StoreInit /\ MemoryInit /\ SourcesInit

Next ==
  \E c \in Call :
    \/ StoreStep(c) /\ Forgotten /\ Forget(c)
       /\ UNCHANGED <<remote, clone, mirror, rows, publishing, work, pushed, reset>>
    \/ MemoryStep(c) /\ UNCHANGED sources
    \/ SourceStep(c) /\ UNCHANGED memories

Spec == Init /\ [][Next]_vars
=============================================================================
