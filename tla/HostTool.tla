------------------------------ MODULE HostTool ------------------------------
(***************************************************************************)
(* The host's console tool around the virtual UART: opening the device and *)
(* mapping a TLB window (scripts/tooling/vuart.c), the loop that serves the *)
(* terminal (console.c), and the PCIe rescan when the card is gone          *)
(* (rescan.c).  Every system call may fail.  The card may vanish and come   *)
(* back (a reset), and its firmware publishes the descriptor some time      *)
(* after it is back.                                                        *)
(***************************************************************************)
EXTENDS Naturals

VARIABLES ht_pc,    \* where the tool is
          ht_fd,    \* data->fd is open, and since when: "none", "live", "dead"
          ht_tlb,   \* data->tlb: "none" (MAP_FAILED), "live", or "gone" (unmapped)
          ht_win,   \* where the window points: "none", "post", "disc", "vuart"
          ht_ptr,   \* data->vuart: "null" or "set"
          ht_card,  \* the card: "absent", "booting", "up" (descriptor published)
          ht_ret,   \* what loop returned: "ok", "lost" (-ENOENT, -ENXIO) or "err"
          ht_lost   \* history: a system call that frees something has failed

ht_vars == <<ht_pc, ht_fd, ht_tlb, ht_win, ht_ptr, ht_card, ht_ret, ht_lost>>

HtTypeOK ==
    /\ ht_pc \in {"main", "map", "post", "start", "io", "close", "rescan", "exit"}
    /\ ht_fd \in {"none", "live", "dead"} /\ ht_tlb \in {"none", "live", "gone"}
    /\ ht_win \in {"none", "post", "disc", "vuart"} /\ ht_ptr \in {"null", "set"}
    /\ ht_card \in {"absent", "booting", "up"}
    /\ ht_ret \in {"ok", "lost", "err"} /\ ht_lost \in BOOLEAN
    /\ (ht_pc \in {"map", "post", "start", "io"} => ht_fd # "none") /\ (ht_ptr = "set" => ht_tlb # "none")

HtInit ==
    /\ ht_pc = "main" /\ ht_fd = "none" /\ ht_tlb = "none" /\ ht_win = "none" /\ ht_ptr = "null"
    /\ ht_card \in {"absent", "booting", "up"} /\ ht_ret = "ok" /\ ht_lost = FALSE

HtFail(ret) == ht_pc' = "close" /\ ht_ret' = ret

\* open_tt_dev: an open descriptor is kept; a card that is not there is "lost",
\* and so is one with other ids; an ioctl that fails leaves the fd open.
open_tt_dev ==
    /\ ht_pc = "main"
    /\ IF ht_fd # "none" THEN ht_pc' = "map" /\ UNCHANGED <<ht_fd, ht_ret>>
       ELSE \/ ht_card = "absent" /\ HtFail("lost") /\ UNCHANGED ht_fd
            \/ /\ ht_card # "absent" /\ ht_fd' = "live"
               /\ \/ ht_pc' = "map" /\ UNCHANGED ht_ret
                  \/ \E r \in {"lost", "err"} : HtFail(r)
    /\ UNCHANGED <<ht_tlb, ht_win, ht_ptr, ht_card, ht_lost>>

\* map_tlb: whatever is not MAP_FAILED counts as mapped; a TLB allocated for a
\* map that then fails goes back when the fd is closed.
map_tlb ==
    /\ ht_pc = "map"
    /\ \/ /\ ht_tlb # "none" /\ ht_pc' = "post" /\ UNCHANGED <<ht_tlb, ht_ret>>
       \/ /\ ht_tlb = "none" /\ ht_fd = "live"
          /\ ht_tlb' = "live" /\ ht_pc' = "post" /\ UNCHANGED ht_ret
       \/ /\ ht_tlb = "none" /\ HtFail("err") /\ UNCHANGED ht_tlb
    /\ UNCHANGED <<ht_fd, ht_win, ht_ptr, ht_card, ht_lost>>

\* program_noc moves the window (or fails, the window staying where it was).
program_noc(to) == ht_fd = "live" /\ ht_win' = to

check_post_code ==
    /\ ht_pc = "post"
    /\ \/ /\ program_noc("post")
          /\ \/ ht_card # "absent" /\ ht_pc' = "start" /\ UNCHANGED ht_ret
             \/ HtFail("lost")                           \* other prefix, -ENOENT
       \/ HtFail("err") /\ UNCHANGED ht_win
    /\ UNCHANGED <<ht_fd, ht_tlb, ht_ptr, ht_card, ht_lost>>

\* vuart_start: the magic is seen only through a window on the descriptor of a
\* card that published it; otherwise the address is discovered again.
vuart_start ==
    /\ ht_pc = "start"
    /\ \/ /\ ht_ptr = "set" /\ ht_win = "vuart" /\ ht_card = "up" /\ ht_pc' = "io"
          /\ UNCHANGED <<ht_win, ht_ptr, ht_ret>>
       \/ /\ ~(ht_ptr = "set" /\ ht_win = "vuart" /\ ht_card = "up")
          /\ \/ HtFail("err") /\ UNCHANGED <<ht_win, ht_ptr>>
             \/ /\ program_noc("disc") /\ UNCHANGED ht_ptr      \* reads 0xffffffff
                /\ ht_card # "up" /\ HtFail("lost")
             \/ /\ program_noc("disc") /\ HtFail("err") /\ UNCHANGED ht_ptr
             \/ /\ program_noc("vuart") /\ ht_ptr' = "set"
                /\ IF ht_card = "up" THEN ht_pc' = "io" /\ UNCHANGED ht_ret ELSE HtFail("lost")
    /\ UNCHANGED <<ht_fd, ht_tlb, ht_card, ht_lost>>

\* The terminal's loop: drain, select, send; stop, or a failing select.
loop ==
    /\ ht_pc = "io"
    /\ \/ ht_pc' = "start" /\ UNCHANGED ht_ret
       \/ \E r \in {"ok", "err"} : HtFail(r)
    /\ UNCHANGED <<ht_fd, ht_tlb, ht_win, ht_ptr, ht_card, ht_lost>>

\* The pointer is not set back to MAP_FAILED.
unmap_tlb_keepsPointer ==
    \/ ht_tlb = "none" /\ UNCHANGED <<ht_tlb, ht_lost>>
    \/ ht_tlb # "none" /\ ht_fd = "live" /\ ht_tlb' = "gone" /\ UNCHANGED ht_lost

\* unmap_tlb: munmap may fail (still mapped), FREE_TLB may fail after munmap.
unmap_tlb ==
    \/ ht_tlb = "none" /\ UNCHANGED <<ht_tlb, ht_lost>>
    \/ ht_tlb # "none" /\ ht_lost' = TRUE /\ UNCHANGED ht_tlb
    \/ ht_tlb # "none" /\ ht_lost' = TRUE /\ ht_tlb' = "gone"
    \/ ht_tlb # "none" /\ ht_fd = "live" /\ ht_tlb' = "none" /\ UNCHANGED ht_lost
close_tt_dev == ht_fd' = "none"
\* main after loop: after a stop it ends, after an interrupted select or a terminal
\* that failed it calls loop again.
HtAfterLoop ==
    \/ ht_ret = "ok" /\ ht_pc' \in {"exit", "main"}
    \/ ht_ret = "lost" /\ ht_pc' = "rescan"
    \/ ht_ret = "err" /\ ht_pc' = "exit"
vuart_close ==
    /\ ht_pc = "close" /\ ht_ptr' = "null" /\ ht_win' = "none"
    /\ unmap_tlb /\ close_tt_dev /\ HtAfterLoop
    /\ UNCHANGED <<ht_card, ht_ret>>

\* rescan_pcie by ioctl, then by sysfs; main goes on with a device found or
\* none (0, after a sleep), and ends on any error (-EACCES and -ENOENT too,
\* after the sleep).  With skip_rescan it goes on at once.
rescan_pcie ==
    /\ ht_pc = "rescan"
    /\ ht_pc' \in {"main", "exit"} /\ ht_ret' = "ok"
    /\ UNCHANGED <<ht_fd, ht_tlb, ht_win, ht_ptr, ht_card, ht_lost>>

\* A new run of the tool.
HtRestart ==
    /\ ht_pc = "exit" /\ ht_pc' = "main" /\ ht_ret' = "ok"
    /\ ht_fd' = "none" /\ ht_tlb' = "none" /\ ht_win' = "none" /\ ht_ptr' = "null"
    /\ ht_lost' = FALSE /\ UNCHANGED ht_card

\* The card is reset: an open descriptor is dead from then on.
HtCard ==
    /\ \/ ht_card' = "absent" /\ ht_fd' = (IF ht_fd = "none" THEN "none" ELSE "dead")
       \/ ht_card = "absent" /\ ht_card' = "booting" /\ UNCHANGED ht_fd
       \/ ht_card = "booting" /\ ht_card' = "up" /\ UNCHANGED ht_fd
    /\ UNCHANGED <<ht_pc, ht_tlb, ht_win, ht_ptr, ht_ret, ht_lost>>

HtNext == \/ open_tt_dev \/ map_tlb \/ check_post_code \/ vuart_start \/ loop \/ vuart_close
          \/ rescan_pcie \/ HtRestart \/ HtCard
HtSpec == HtInit /\ [][HtNext]_ht_vars

-----------------------------------------------------------------------------
\* A ring is read and written only through a live mapping whose window is on
\* the descriptor, with a descriptor pointer of this connection: nothing of a
\* lost connection is used by the next (vuart_open, vuart_start, vuart_close).
\* Every way out of a connection gives back what it took: between connections
\* no descriptor is open and no window is mapped. Both unless a call that frees
\* the mapping had failed.
HtLiveAccess ==
    /\ ht_pc = "io" => /\ ht_ptr = "set" /\ ht_win = "vuart" /\ ht_fd # "none"
                       /\ ht_tlb = "live" \/ ht_lost
    /\ ht_pc \in {"main", "rescan", "exit"} => /\ ht_fd = "none" /\ ht_ptr = "null"
                                               /\ ht_tlb = "none" \/ ht_lost

=============================================================================
