----------------------------- MODULE ReadyValid ------------------------------
(***************************************************************************)
(* The ready/valid half of rrtl-core's ModuleBuilder as one system: a      *)
(* behaviour is of one part, a FIFO of entry registers, a FIFO over a      *)
(* memory, a skid buffer, a register slice, or one call of a helper on two *)
(* endpoints.                                                              *)
(***************************************************************************)
EXTENDS ReadyValidHelpers

CONSTANTS Values, Zero, NoItem, \* payloads, as in RvCircuits
          RegDepth, MemDepth    \* entries of the two FIFOs

VARIABLES
    part,                                            \* what the behaviour is of
    count_q, wptr_q, rptr_q, data, took, gave,       \* a FIFO
    full_q, bits_q                                   \* a one-entry stage

RvParts == {"regs", "mem", "skid", "slice", "helpers"}

RegFifo == INSTANCE RvCircuits WITH MemBacked <- FALSE, Depth <- RegDepth, SinkStalls <- FALSE, None <- NoItem

MemFifo == INSTANCE RvCircuits WITH MemBacked <- TRUE, Depth <- MemDepth, SinkStalls <- FALSE, None <- NoItem

\* MemDepth also bounds what the channel all parts implement may hold.
ASSUME ReadyValidAssumption ==
    /\ RegFifo!RvAssumption /\ MemFifo!RvAssumption /\ RegDepth <= MemDepth
    /\ EndpointAssumption

fifoVars == <<count_q, wptr_q, rptr_q, data>>
firedVars == <<took, gave>>
stageVars == <<full_q, bits_q>>
readyValidVars == <<part, fifoVars, firedVars, stageVars, helperVars>>

\* no helper is called
IdleHelper == helper = "none" /\ input = NoItem /\ output = NoItem /\ depth = 0 /\ emitted = NoItem

RvInit ==
    /\ part \in RvParts
    /\ IF part = "mem" THEN MemFifo!FifoInit ELSE RegFifo!FifoInit
    /\ RegFifo!StageInit
    /\ IF part = "helpers" THEN HelperInit ELSE IdleHelper

FifoStep ==
    /\ \/ part = "regs" /\ RegFifo!FifoNext
       \/ part = "mem" /\ MemFifo!FifoNext
    /\ UNCHANGED <<part, stageVars, helperVars>>

StageStep ==
    /\ \/ part = "skid" /\ RegFifo!SkidNext
       \/ part = "slice" /\ RegFifo!SliceNext
    /\ UNCHANGED <<part, fifoVars, helperVars>>

HelperStep ==
    /\ part = "helpers" /\ HelperNext
    /\ UNCHANGED <<part, fifoVars, firedVars, stageVars>>

RvNext == FifoStep \/ StageStep \/ HelperStep

RvSpec == RvInit /\ [][RvNext]_readyValidVars

\* the items the part holds back
Held ==
    CASE part = "regs" -> RegFifo!FifoContents
      [] part = "mem" -> MemFifo!FifoContents
      [] part \in {"skid", "slice"} -> RegFifo!StageContents
      [] OTHER -> <<>>

AnyChannel == INSTANCE ReadyValidChannel WITH Capacity <- MemDepth, q <- Held, None <- NoItem
------------------------------------------------------------------------------
(***************************************************************************)
(* Every buffering helper builds a channel (rv_fifo, rv_mem_fifo,          *)
(* rv_skid_buffer, and rv_register_slice before a sink that never stalls): *)
(* for every pattern of valid, ready and reset nothing is lost,            *)
(* duplicated or reordered.                                                *)
(***************************************************************************)
ImplementsChannel == AnyChannel!Spec

(***************************************************************************)
(* The count of a FIFO tracks its pointers across wrap-around, a read and  *)
(* a write in one cycle, and reset (emit_rv_fifo_common); and the helpers  *)
(* drive each port once, join equal payloads only, and cut a memory word   *)
(* where its fields are.                                                   *)
(***************************************************************************)
ReadyValidSound ==
    /\ part = "regs" => RegFifo!CountTracksPointers
    /\ part = "mem" => MemFifo!CountTracksPointers
    /\ part = "helpers" => HelpersSound
==============================================================================
