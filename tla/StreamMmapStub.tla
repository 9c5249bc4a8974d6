--------------------------- MODULE StreamMmapStub ---------------------------
(* src/audio/stub/StreamMmapStub.cpp: the driver of a memory mapped stream.   *)
(* The stream worker starts and pauses a simulated DSP, whose thread moves    *)
(* along in shared memory; a binder thread replaces that memory when the      *)
(* client asks for a buffer.  mState.lock is held for each cycle of the DSP,  *)
(* and twice, with the mapping in between, when the memory is replaced.       *)
EXTENDS Integers

CONSTANTS Places,       \* addresses at which the kernel may map a buffer
          MaxPosition     \* bound on the position of the DSP

ASSUME MmapAssumption == 0 \notin Places /\ MaxPosition \in Nat

UNKNOWN == -1
NoMemory == 0           \* nullptr

VARIABLES
  mapped,               \* what the process has mapped
  sharedMemory, mmapPos,            \* mState
  mMemBegin, mMemPos, mLastFrames,  \* of the DSP thread; the place mMemPos is in
  dspState,                  \* "none", "running", "paused", "stopped"
  mmapStandby,          \* mIsStandby
  replacing,            \* createMmapBuffer is between its two locked sections
  reported              \* the last position the client was told

dspVars  == <<mMemBegin, mMemPos, mLastFrames, mmapPos>>
mmapVars == <<mapped, sharedMemory, dspVars, dspState, mmapStandby, replacing, reported>>

MmapInit ==
  /\ mapped = {} /\ sharedMemory = NoMemory /\ mmapPos = UNKNOWN
  /\ mMemBegin = NoMemory /\ mMemPos = NoMemory /\ mLastFrames = 0
  /\ dspState = "none" /\ mmapStandby = TRUE /\ replacing = FALSE /\ reported = 0
-----------------------------------------------------------------------------
\* DspSimulatorLogic::cycle: the thread adopts a new memory, and the position
\* goes on from where it was before the memory was lost.
Cycle ==
  /\ dspState = "running" /\ mMemBegin' = sharedMemory
  /\ mMemPos' = IF mMemBegin # sharedMemory /\ sharedMemory # NoMemory
                THEN sharedMemory ELSE mMemPos
  /\ IF sharedMemory # NoMemory
     THEN \E newFrames \in 0..1 :
            /\ mmapPos' = newFrames + (IF mmapPos = UNKNOWN THEN mLastFrames ELSE mmapPos)
            /\ mmapPos' <= MaxPosition /\ mLastFrames' = mmapPos'
     ELSE mmapPos' = UNKNOWN /\ UNCHANGED mLastFrames
  /\ UNCHANGED <<mapped, sharedMemory, dspState, mmapStandby, replacing, reported>>

\* The worker of the stream: start and transfer set the DSP going, pause and
\* drain stop it; standby leaves it alone.
MmapStart ==
  /\ dspState # "stopped" /\ mmapStandby' = FALSE /\ dspState' = "running"
  /\ mmapPos' = IF dspState = "none" THEN UNKNOWN ELSE mmapPos
  /\ UNCHANGED <<mapped, sharedMemory, mMemBegin, mMemPos, mLastFrames, replacing, reported>>

MmapPause ==
  /\ dspState = "running" /\ ~mmapStandby /\ dspState' = "paused"
  /\ UNCHANGED <<mapped, sharedMemory, dspVars, mmapStandby, replacing, reported>>

MmapStandby ==
  /\ dspState # "stopped" /\ ~mmapStandby /\ mmapStandby' = TRUE
  /\ UNCHANGED <<mapped, sharedMemory, dspVars, dspState, replacing, reported>>

\* With the lock held, and once the thread of the DSP has ended.
MmapShutdown ==
  /\ dspState # "stopped" /\ dspState' = "stopped"
  /\ mapped' = mapped \ {sharedMemory} /\ sharedMemory' = NoMemory
  /\ UNCHANGED <<dspVars, mmapStandby, replacing, reported>>

\* Mutant: the memory is unmapped, and still known to the DSP.
ReleaseUnknown ==
  /\ ~replacing
  /\ mapped' = mapped \ {sharedMemory} /\ sharedMemory' = sharedMemory /\ replacing' = TRUE
  /\ UNCHANGED <<dspVars, dspState, mmapStandby, reported>>

\* createMmapBuffer; unmapping and mapping may fail.
ReleaseSharedMemory ==
  /\ ~replacing
  /\ mapped' = mapped \ {sharedMemory} /\ sharedMemory' = NoMemory /\ replacing' = TRUE
  /\ UNCHANGED <<dspVars, dspState, mmapStandby, reported>>

InitSharedMemory ==
  /\ replacing /\ replacing' = FALSE
  /\ \/ \E place \in Places \ mapped :
          mapped' = mapped \cup {place} /\ sharedMemory' = place
     \/ UNCHANGED <<mapped, sharedMemory>>
  /\ UNCHANGED <<dspVars, dspState, mmapStandby, reported>>

\* getMmapPositionAndLatency, for every reply
Report ==
  /\ mmapPos # UNKNOWN /\ reported' = mmapPos
  /\ UNCHANGED <<mapped, sharedMemory, dspVars, dspState, mmapStandby, replacing>>

MmapNext ==
  \/ Cycle \/ MmapStart \/ MmapPause \/ MmapStandby \/ MmapShutdown
  \/ ReleaseSharedMemory \/ InitSharedMemory \/ Report

MmapSpec == MmapInit /\ [][MmapNext]_mmapVars
-----------------------------------------------------------------------------
(* "The lock is also used to prevent un-mapping while the memory is in use"   *)
(* (StreamMmapStub.h:35): the memory of the next cycle is mapped, and the     *)
(* DSP stands in it or will notice that it is new, even if the kernel maps    *)
(* the new one where the old one was.                                         *)
MemoryInUseIsMapped ==
  sharedMemory # NoMemory =>
    sharedMemory \in mapped /\ (mMemBegin = sharedMemory => mMemPos = sharedMemory)

(* The position goes on through pauses, standby, lost and replaced memory     *)
(* ("to ensure continuity", StreamMmapStub.cpp:64): the one that the client   *)
(* would be told next is not smaller than the last one it was told.           *)
MmapPositionContinues == mmapPos # UNKNOWN => mmapPos >= reported
=============================================================================
