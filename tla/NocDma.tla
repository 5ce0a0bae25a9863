------------------------------- MODULE NocDma -------------------------------
(***************************************************************************)
(* The NOC DMA driver (drivers/dma/dma_tt_bh_noc.c): a tile's network      *)
(* interface copies a block, and the driver finds out that a copy is over  *)
(* by comparing the interface's count of answers, which wraps, with the    *)
(* count it computed when it issued the command.                           *)
(*                                                                         *)
(* MEMORY_TO_MEMORY starts are synchronous: a read into the tile, a wait,  *)
(* a write out of the tile, a wait, per block. The other directions return *)
(* as soon as the command of the first block is issued.                    *)
(***************************************************************************)
EXTENDS Integers

CONSTANTS
    NdWrap,     \* the answer counters wrap here (2^32)
    NdBursts,   \* bursts a block may have
    NdBlocks,   \* the largest block_count
    NdOwedMax   \* bound: answers outstanding at a time

\* Two counts of a transfer are less than half a turn apart.
ASSUME NdAssumption ==
    /\ NdWrap \in Nat \ {0} /\ NdWrap % 2 = 0
    /\ NdBursts \subseteq Nat \ {0} /\ \A n \in NdBursts : n < NdWrap \div 2
    /\ NdBlocks \in Nat \ {0}
    /\ NdOwedMax \in Nat

VARIABLES
    nd_count,   \* answers received by the interface, per kind of command
    nd_owed,    \* answers of issued commands still on their way, per kind
    nd_chan,    \* the channel: configured, its blocks, index, last command
    nd_pc,      \* where tt_bh_dma_noc_start is
    nd_ret,     \* what it returned last
    nd_called,  \* callbacks made for the blocks of this start
    nd_clean    \* history: no answer was outstanding when this start began

nd_vars == <<nd_count, nd_owed, nd_chan, nd_pc, nd_ret, nd_called, nd_clean>>

Kinds == {"RD", "WR"}
NdSyncs == {"MEMORY_TO_MEMORY"}
NdAsyncs == {"MEMORY_TO_PERIPHERAL", "PERIPHERAL_TO_MEMORY", "BROADCAST"}

NdInit ==
    /\ nd_count \in [Kinds -> {0, NdWrap - 1}]
    /\ nd_owed = [k \in Kinds |-> 0]
    /\ nd_chan = [configured |-> FALSE, dir |-> "MEMORY_TO_MEMORY", size |-> 1, count |-> 0,
                  index |-> 0, cmd |-> "RD", expected |-> 0]
    /\ nd_pc = "idle"
    /\ nd_ret = "none"
    /\ nd_called = 0
    /\ nd_clean = TRUE

is_behind_unsigned(current, target) == current < target
\* (int32_t)(current - target) < 0
is_behind(current, target) == (current - target) % NdWrap >= NdWrap \div 2

get_expected_acks(kind, size) == (nd_count[kind] + size) % NdWrap

tt_bh_dma_noc_get_status == is_behind(nd_count[nd_chan.cmd], nd_chan.expected)

\* tt_bh_dma_noc_config copies the blocks and forgets the last command.
tt_bh_dma_noc_config(dir, size, count) ==
    /\ nd_pc = "idle"
    /\ nd_chan' = [configured |-> TRUE, dir |-> dir, size |-> size, count |-> count,
                   index |-> 0, cmd |-> "RD", expected |-> 0]
    /\ nd_ret' = "none" /\ nd_called' = 0
    /\ UNCHANGED <<nd_count, nd_owed, nd_pc, nd_clean>>

\* noc_dma_transfer: the target count is computed from the count of this
\* moment, then the command is issued for the bursts of the current block.
NdTrack(kind) ==
    [nd_chan EXCEPT !.cmd = kind, !.expected = get_expected_acks(kind, nd_chan.size)]

noc_dma_transfer(kind) ==
    /\ nd_owed[kind] + nd_chan.size <= NdOwedMax
    /\ nd_chan' = NdTrack(kind)
    /\ nd_owed' = [nd_owed EXCEPT ![kind] = @ + nd_chan.size]

\* tt_bh_dma_noc_start up to the first wait, from the first block on.
tt_bh_dma_noc_start ==
    /\ nd_pc = "idle" /\ nd_chan.configured
    /\ nd_chan.dir \in NdSyncs
    /\ nd_pc' = "read"
    /\ nd_ret' = "none" /\ nd_called' = 0
    /\ nd_clean' = (\A k \in Kinds : nd_owed[k] = 0)
    /\ noc_dma_transfer("RD")
    /\ UNCHANGED nd_count

\* The kind of a start's first command.
NdFirst == IF nd_chan.dir \in {"MEMORY_TO_MEMORY", "MEMORY_TO_PERIPHERAL"} THEN "RD" ELSE "WR"

\* The asynchronous directions return after the first block's command.
NdStartAsync ==
    /\ nd_pc = "idle" /\ nd_chan.configured
    /\ nd_chan.dir \in NdAsyncs
    /\ noc_dma_transfer(NdFirst)
    /\ nd_ret' = "started" /\ nd_called' = 0
    /\ nd_clean' = (\A k \in Kinds : nd_owed[k] = 0)
    /\ UNCHANGED <<nd_count, nd_pc>>

\* noc_wait_cmd_ready times out before the first command is written: the target
\* count is recorded all the same.
NdCmdTimeout ==
    /\ nd_pc = "idle" /\ nd_chan.configured
    /\ nd_ret' = "ETIMEDOUT" /\ nd_called' = 0
    /\ nd_chan' = NdTrack(NdFirst)
    /\ UNCHANGED <<nd_count, nd_owed, nd_pc, nd_clean>>

\* The read of the block is over: the write is issued.
NdReadOver ==
    /\ nd_pc = "read" /\ ~tt_bh_dma_noc_get_status
    /\ nd_pc' = "write"
    /\ noc_dma_transfer("WR")
    /\ UNCHANGED <<nd_count, nd_ret, nd_called, nd_clean>>

\* The write of the block is over: handle_transfer_callbacks, then the next
\* block's read or the return.
NdWriteOver ==
    /\ nd_pc = "write" /\ ~tt_bh_dma_noc_get_status
    /\ nd_called' = nd_called + 1
    /\ IF nd_chan.index + 1 < nd_chan.count
       THEN /\ nd_pc' = "read"
            /\ nd_owed["RD"] + nd_chan.size <= NdOwedMax
            /\ nd_chan' = [NdTrack("RD") EXCEPT !.index = @ + 1]
            /\ nd_owed' = [nd_owed EXCEPT !["RD"] = @ + nd_chan.size]
            /\ UNCHANGED nd_ret
       ELSE /\ nd_pc' = "idle" /\ nd_ret' = "ok"
            /\ nd_chan' = [nd_chan EXCEPT !.index = 0]
            /\ UNCHANGED nd_owed
    /\ UNCHANGED <<nd_count, nd_clean>>

\* A wait runs out of time.
NdTimeout ==
    /\ nd_pc # "idle"
    /\ tt_bh_dma_noc_get_status
    /\ nd_pc' = "idle" /\ nd_ret' = "ETIMEDOUT"
    /\ nd_chan' = [nd_chan EXCEPT !.index = 0]
    /\ UNCHANGED <<nd_count, nd_owed, nd_called, nd_clean>>

\* External: an answer arrives.
NdAnswer(kind) ==
    /\ nd_owed[kind] > 0
    /\ nd_owed' = [nd_owed EXCEPT ![kind] = @ - 1]
    /\ nd_count' = [nd_count EXCEPT ![kind] = (@ + 1) % NdWrap]
    /\ UNCHANGED <<nd_chan, nd_pc, nd_ret, nd_called, nd_clean>>

NdNext ==
    \/ \E dir \in NdSyncs \cup NdAsyncs, size \in NdBursts, count \in 1 .. NdBlocks :
         tt_bh_dma_noc_config(dir, size, count)
    \/ tt_bh_dma_noc_start \/ NdStartAsync \/ NdCmdTimeout
    \/ NdReadOver \/ NdWriteOver \/ NdTimeout
    \/ \E kind \in Kinds : NdAnswer(kind)

NdSpec == NdInit /\ [][NdNext]_nd_vars

-----------------------------------------------------------------------------

\* Types of the state.
NdTypeOK ==
    /\ nd_count \in [Kinds -> 0 .. (NdWrap - 1)]
    /\ nd_owed \in [Kinds -> 0 .. NdOwedMax]
    /\ nd_chan \in [configured : BOOLEAN, dir : NdSyncs \cup NdAsyncs, size : NdBursts \cup {1},
                    count : 0 .. NdBlocks, index : 0 .. NdBlocks, cmd : Kinds,
                    expected : 0 .. (NdWrap - 1)]
    /\ nd_pc \in {"idle", "read", "write"}
    /\ nd_ret \in {"none", "started", "ok", "ETIMEDOUT"}
    /\ nd_called \in 0 .. NdBlocks
    /\ nd_clean \in BOOLEAN

\* A start that began with no answer outstanding is right about its waits, also
\* when the counters wrap during it: the write of a block is issued only when
\* all of its read has arrived, and 0 is returned only when all its writes are
\* acknowledged and every block had its callback.
NdTrueDone ==
    nd_clean =>
      /\ nd_pc = "write" => nd_owed["RD"] = 0
      /\ nd_ret = "ok" => nd_owed["WR"] = 0 /\ nd_called = nd_chan.count

=============================================================================
