------------------------------ MODULE PldmShell ------------------------------
(***************************************************************************)
(* The Tenstorrent OEM handler of the PLDM responder                       *)
(* (drivers/pmci/pldm/tt_pldm_oem.c): ShellExec queues one shell command   *)
(* on a work queue of its own, ShellGetResult polls its state and reads    *)
(* its output in chunks, ShellCancel cancels it.  The three handlers run   *)
(* on the responder's work queue, each under the context's mutex; the      *)
(* shell's work item takes the mutex twice and runs the command between.   *)
(* A command is the serial number of its ShellExec, its output that number *)
(* with a length; request ids are chosen, and reused, by the requesters.   *)
(***************************************************************************)
EXTENDS Integers, Sequences

CONSTANTS
    PsIds,       \* request ids
    PsExecs,     \* how many ShellExec requests arrive
    PsOut,       \* TT_PLDM_SHELL_MAX_OUTPUT_LEN
    PsChunk,     \* TT_PLDM_SHELL_MAX_CHUNK_LEN
    PsLens,      \* output lengths a command may produce
    PsReads      \* max_read_len values a requester may use (0: no limit of its own)

ASSUME PsAssumption ==
    /\ PsExecs \in Nat /\ PsOut \in Nat /\ PsChunk \in Nat \ {0}
    /\ PsLens \subseteq Nat /\ PsReads \subseteq Nat

VARIABLES
    ps_state,    \* ctx->state
    ps_id,       \* ctx->request_id
    ps_cmd,      \* ctx->cmd
    ps_cancel,   \* ctx->cancel_requested
    ps_out,      \* ctx->output and output_len: [of, len]
    ps_item,     \* ctx->work is queued on ctx->work_q
    ps_run,      \* the worker: idle, or the command it copied and whether it has finished
    ps_next,     \* serial of the next ShellExec
    ps_taken,    \* history: the request id and fate of each accepted ShellExec
    ps_ran,      \* history: the commands handed to the shell
    ps_answer    \* the last response

ps_vars == <<ps_state, ps_id, ps_cmd, ps_cancel, ps_out, ps_item, ps_run, ps_next, ps_taken, ps_ran,
             ps_answer>>

PsNoOut == [of |-> 0, len |-> 0]
PsNone == [op |-> "none"]
PsAwake == [cmd |-> 0, len |-> 0, pc |-> "idle"]

PsInit ==
    /\ ps_state = "IDLE" /\ ps_id = 0 /\ ps_cmd = 0 /\ ps_cancel = FALSE /\ ps_out = PsNoOut
    /\ ps_item = FALSE /\ ps_run = PsAwake
    /\ ps_next = 1 /\ ps_taken = <<>> /\ ps_ran = {} /\ ps_answer = PsNone

PsBusy == ps_state \in {"QUEUED", "RUNNING"}

\* An id the context answers for.
PsKnown(id) == ps_state # "IDLE" /\ ps_id = id
-----------------------------------------------------------------------------
(* The handlers.                                                           *)

\* k_work_submit_to_queue returns 0 when the item is already queued: the request is then refused and
\* the context is left idle.
tt_pldm_shell_handle_exec(id) ==
    /\ ps_next <= PsExecs /\ ps_next' = ps_next + 1
    /\ IF PsBusy
       THEN /\ ps_taken' = Append(ps_taken, [id |-> id, fate |-> "refused"])
            /\ ps_answer' = [op |-> "exec", cc |-> "NOT_READY", id |-> id]
            /\ UNCHANGED <<ps_state, ps_id, ps_cmd, ps_cancel, ps_out, ps_item>>
       ELSE /\ ps_id' = id /\ ps_cmd' = ps_next /\ ps_cancel' = FALSE
            /\ ps_out' = [ps_out EXCEPT !.len = 0]
            /\ ps_item' = TRUE
            /\ ps_state' = IF ps_item THEN "IDLE" ELSE "QUEUED"
            /\ ps_taken' = Append(ps_taken,
                                  [id |-> id, fate |-> IF ps_item THEN "refused" ELSE "accepted"])
            /\ ps_answer' = [op |-> "exec", cc |-> IF ps_item THEN "ERROR" ELSE "SUCCESS", id |-> id]
    /\ UNCHANGED <<ps_run, ps_ran>>

PsMin(a, b) == IF a < b THEN a ELSE b

PsResult(id, offset, want) ==
    LET allowed == IF want = 0 THEN PsChunk ELSE PsMin(PsChunk, want)
        over == ps_state \in {"DONE", "FAILED"}
        n == IF over THEN PsMin(ps_out.len - offset, allowed) ELSE 0
    IN [op |-> "result", cc |-> "SUCCESS", id |-> id, state |-> ps_state, offset |-> offset,
        of |-> ps_out.of, n |-> n, total |-> ps_out.len,
        more |-> (over /\ offset + n < ps_out.len) \/ PsBusy]

tt_pldm_shell_handle_get_result(id, offset, want) ==
    /\ ps_answer' = IF ~PsKnown(id) \/ offset > ps_out.len
                    THEN [op |-> "result", cc |-> "INVALID_DATA", id |-> id]
                    ELSE PsResult(id, offset, want)
    /\ UNCHANGED <<ps_state, ps_id, ps_cmd, ps_cancel, ps_out, ps_item, ps_run, ps_next, ps_taken, ps_ran>>

tt_pldm_shell_store_result(state, of, len) ==
    /\ ps_state' = state
    /\ ps_out' = [of |-> IF len > 0 THEN of ELSE ps_out.of, len |-> PsMin(len, PsOut)]

\* A command still queued is cancelled at once, although its work item stays queued; a running one
\* is only marked.
tt_pldm_shell_handle_cancel_late(id) ==
    /\ PsKnown(id) /\ PsBusy /\ ps_cancel' = TRUE
    /\ ps_answer' = [op |-> "cancel", cc |-> "SUCCESS", id |-> id, state |-> "CANCELED"]
    /\ ps_taken' = [ps_taken EXCEPT ![ps_cmd].fate = "canceled"]
    /\ UNCHANGED <<ps_state, ps_out, ps_id, ps_cmd, ps_item, ps_run, ps_next, ps_ran>>

tt_pldm_shell_handle_cancel(id) ==
    /\ IF ~PsKnown(id)
       THEN /\ ps_answer' = [op |-> "cancel", cc |-> "INVALID_DATA", id |-> id]
            /\ UNCHANGED <<ps_state, ps_out, ps_cancel, ps_taken>>
       ELSE /\ ps_cancel' = (ps_cancel \/ PsBusy)
            /\ IF ps_state = "QUEUED"
               THEN /\ tt_pldm_shell_store_result("CANCELED", 0, 0)
                    /\ ps_taken' = [ps_taken EXCEPT ![ps_cmd].fate = "canceled"]
               ELSE UNCHANGED <<ps_state, ps_out, ps_taken>>
            /\ ps_answer' = [op |-> "cancel", id |-> id, state |-> ps_state',
                             cc |-> IF ps_state = "RUNNING" THEN "NOT_READY" ELSE "SUCCESS"]
    /\ UNCHANGED <<ps_id, ps_cmd, ps_item, ps_run, ps_next, ps_ran>>
-----------------------------------------------------------------------------
(* tt_pldm_shell_execute_work: under the mutex, without it, under it.      *)

PsAccept ==
    /\ ps_item /\ ps_run.pc = "idle" /\ ps_item' = FALSE
    /\ CASE ps_state # "QUEUED" -> UNCHANGED <<ps_state, ps_out, ps_run>>
         [] ps_state = "QUEUED" /\ ps_cancel ->
                tt_pldm_shell_store_result("CANCELED", 0, 0) /\ UNCHANGED ps_run
         [] OTHER -> /\ ps_state' = "RUNNING" /\ UNCHANGED ps_out
                     /\ ps_run' = [cmd |-> ps_cmd, len |-> 0, pc |-> "execute"]
    /\ UNCHANGED <<ps_id, ps_cmd, ps_cancel, ps_next, ps_taken, ps_ran, ps_answer>>

\* The shell runs the copy of the command; a missing shell backend gives an output and an error too.
PsExecute(len, good) ==
    /\ ps_run.pc = "execute"
    /\ ps_run' = [ps_run EXCEPT !.len = len, !.pc = IF good THEN "good" ELSE "bad"]
    /\ ps_ran' = ps_ran \cup {ps_run.cmd}
    /\ UNCHANGED <<ps_state, ps_id, ps_cmd, ps_cancel, ps_out, ps_item, ps_next, ps_taken, ps_answer>>

PsStore ==
    /\ ps_run.pc \in {"good", "bad"}
    /\ IF ps_cancel THEN tt_pldm_shell_store_result("CANCELED", 0, 0)
       ELSE tt_pldm_shell_store_result(IF ps_run.pc = "good" THEN "DONE" ELSE "FAILED",
                                       ps_run.cmd, ps_run.len)
    /\ ps_taken' = [ps_taken EXCEPT ![ps_run.cmd].fate = IF ps_cancel THEN "stopped" ELSE "over"]
    /\ ps_run' = PsAwake
    /\ UNCHANGED <<ps_id, ps_cmd, ps_cancel, ps_item, ps_next, ps_ran, ps_answer>>

tt_pldm_shell_execute_work ==
    PsAccept \/ PsStore \/ \E len \in PsLens, good \in BOOLEAN : PsExecute(len, good)

PsNext ==
    \/ \E id \in PsIds : tt_pldm_shell_handle_exec(id) \/ tt_pldm_shell_handle_cancel(id)
    \/ \E id \in PsIds, offset \in 0..PsOut, want \in PsReads :
          tt_pldm_shell_handle_get_result(id, offset, want)
    \/ tt_pldm_shell_execute_work

\* The shell's work queue is scheduled and commands return.
PsFair == WF_ps_vars(tt_pldm_shell_execute_work)

PsSpec == PsInit /\ [][PsNext]_ps_vars /\ PsFair
-----------------------------------------------------------------------------
(* Types of the shell context.                                             *)
PsTypeOK ==
    /\ ps_state \in {"IDLE", "QUEUED", "RUNNING", "DONE", "FAILED", "CANCELED"}
    /\ ps_cancel \in BOOLEAN /\ ps_item \in BOOLEAN
    /\ ps_out.len \in 0..PsOut /\ ps_cmd \in 0..PsExecs
    /\ ps_run.pc \in {"idle", "execute", "good", "bad"}

(* What a requester is told about its command is about that command.  Bytes  *)
(* that ShellGetResult returns under an id are bytes of a command that was   *)
(* accepted under that id and has run; a command whose ShellExec was         *)
(* refused, or whose ShellCancel was answered with CANCELED while it was     *)
(* queued, is never handed to the shell, although its work item may still be *)
(* queued then and a later ShellExec may reuse the context and the item.     *)
PsOwnOutput ==
    /\ \A c \in ps_ran : ps_taken[c].fate \notin {"refused", "canceled"}
    /\ (ps_answer.op = "result" /\ ps_answer.cc = "SUCCESS" /\ ps_answer.n > 0) =>
        /\ ps_answer.of \in ps_ran
        /\ ps_taken[ps_answer.of].id = ps_answer.id
        /\ ps_answer.n <= PsChunk /\ ps_answer.offset + ps_answer.n <= ps_answer.total
        /\ ps_answer.more <=> (ps_answer.offset + ps_answer.n < ps_answer.total)

=============================================================================
