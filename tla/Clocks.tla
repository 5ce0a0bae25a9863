------------------------------- MODULE Clocks -------------------------------
(***************************************************************************)
(* The five PLLs of the chip and the two drivers that program them:        *)
(* drivers/clock_control/clock_control_tt_bh.c and PLLInit of              *)
(* lib/tenstorrent/bh_arc/pll.c. Every operation is a sequence of register *)
(* writes, which the chip sees one by one; the boot takes the clocks       *)
(* through both drivers and releases resets on the way (reset.c), and at   *)
(* run time the firmware moves AICLK, sets the GDDR memory clock and       *)
(* switches the L2CPU clocks (bh_power.c).                                 *)
(*                                                                         *)
(* A PLL that is powered up locks before the wait for its lock times out.  *)
(***************************************************************************)
EXTENDS Integers, Sequences, SequencesExt

CONSTANTS
    CkAiclks,   \* AICLK frequencies asked for, MHz
    CkGddrs     \* GDDR memory clock frequencies asked for, MHz

VARIABLES
    ck_pll,     \* registers of the PLLs
    ck_todo,    \* register writes the operation in progress has still to make
    ck_set,     \* data->settings of the devices
    ck_boot,    \* boot steps taken
    ck_want,    \* history: what was asked for last and accepted
    ck_reset    \* resets released: tiles, RISC-V cores

ck_vars == <<ck_pll, ck_todo, ck_set, ck_boot, ck_want, ck_reset>>

REFCLK_F_MHZ == 50
REFDIV == 2
VCO_MIN_FREQ == 1600
VCO_MAX_FREQ == 5000

PLLs == 0 .. 4
AIPLL == 0
GDDRPLL == 3
L2PLL == 4

\* kPLLInitialSettings and the devicetree's init settings: feedback divider and
\* external post dividers.
kPLLInitialSettings ==
    [p \in PLLs |->
       CASE p = 0 -> [fb |-> 128, post |-> <<3, 0, 0, 0>>]
         [] p = 1 -> [fb |-> 192, post |-> <<5, 4, 23, 0>>]
         [] p = 2 -> [fb |-> 68, post |-> <<1, 0, 0, 0>>]
         [] p = 3 -> [fb |-> 120, post |-> <<3, 0, 0, 0>>]
         [] p = 4 -> [fb |-> 64, post |-> <<1, 1, 1, 1>>]]

\* What a divider field divides by; 0 turns the clock off.
GetExtPostdiv(value, used) ==
    CASE ~used -> 1
      [] used /\ value = 0 -> 0
      [] used /\ value \in 1 .. 16 -> value + 1
      [] OTHER -> (value + 1) * 2

\* clock_control_tt_bh_get_freq of output i of a PLL.
clock_control_tt_bh_get_freq(pll, i) ==
    LET div == GetExtPostdiv(pll.post[i], pll.use)
    IN  IF div = 0 THEN 0 ELSE (REFCLK_F_MHZ * pll.fb) \div (REFDIV * div)

clock_control_tt_bh_calculate_fbdiv(mhz, value, used) ==
    (mhz * REFDIV * GetExtPostdiv(value, used)) \div REFCLK_F_MHZ

GetVcoFreq(fb) == (REFCLK_F_MHZ * fb) \div REFDIV

-----------------------------------------------------------------------------
\* Sequences of register writes: <<PLL, register, value>>.

\* PLL off the outputs, powered down, VCO programmed, powered up, locked, post
\* dividers programmed while unused, PLL on the outputs.
PowerDown(p) == <<<<p, "bypass", TRUE>>, <<p, "up", FALSE>>>>
clock_control_tt_bh_config_vco(p, s) == <<<<p, "fb", s.fb>>>>
clock_control_tt_bh_wait_lock(p) == <<<<p, "locked", TRUE>>>>
clock_control_tt_bh_config_ext_postdivs(p, s) ==
    <<<<p, "use", FALSE>>, <<p, "post", s.post>>, <<p, "use", TRUE>>>>

clock_control_tt_bh_update(p, s) ==
    PowerDown(p) \o clock_control_tt_bh_config_vco(p, s) \o <<<<p, "up", TRUE>>>>
    \o clock_control_tt_bh_wait_lock(p) \o clock_control_tt_bh_config_ext_postdivs(p, s)
    \o <<<<p, "bypass", FALSE>>>>

clock_control_tt_bh_configure(p) == <<<<p, "bypass", TRUE>>, <<p, "use", FALSE>>>>

\* The same step for every PLL in turn.
ForAll(op(_)) == FlattenSeq([i \in 1 .. 5 |-> op(i - 1)])

\* PLLInit takes all PLLs through the steps of an update side by side.
PLLInit ==
    LET s(p) == kPLLInitialSettings[p]
        bypass(p) == <<<<p, "bypass", TRUE>>>>   down(p) == <<<<p, "up", FALSE>>>>
        vco(p) == clock_control_tt_bh_config_vco(p, s(p))
        up(p) == <<<<p, "up", TRUE>>>>
        lock(p) == clock_control_tt_bh_wait_lock(p)
        post(p) == clock_control_tt_bh_config_ext_postdivs(p, s(p))
        use(p) == <<<<p, "bypass", FALSE>>>>
    IN  ForAll(bypass) \o ForAll(down) \o ForAll(vco) \o ForAll(up) \o ForAll(lock)
        \o ForAll(post) \o ForAll(use)

clock_control_tt_bh_init ==
    LET op(p) == clock_control_tt_bh_update(p, kPLLInitialSettings[p]) IN ForAll(op)

\* Resets are released with all PLLs bypassed; after the RISC-V resets every
\* device goes back to its initial state.
CkDeassertTileResets ==
    LET op(p) == clock_control_tt_bh_configure(p) IN ForAll(op) \o <<<<0, "reset", "tiles">>>>
CkDeassertRiscvResets ==
    LET op(p) == clock_control_tt_bh_configure(p)
    IN  ForAll(op) \o <<<<0, "reset", "riscv">>>> \o clock_control_tt_bh_init

BootSteps == <<clock_control_tt_bh_init, CkDeassertTileResets, PLLInit, CkDeassertRiscvResets>>

-----------------------------------------------------------------------------

CkInit ==
    /\ ck_pll = [p \in PLLs |-> [bypass |-> TRUE, up |-> FALSE, locked |-> FALSE, fb |-> 0,
                                 post |-> <<0, 0, 0, 0>>, use |-> FALSE]]
    /\ ck_todo = <<>>
    /\ ck_set = kPLLInitialSettings
    /\ ck_boot = 0
    /\ ck_want = [aiclk |-> 800, gddr |-> 750, l2cpu |-> TRUE]
    /\ ck_reset = {}

CkIdle == ck_todo = <<>>
CkBooted == ck_boot = Len(BootSteps) /\ CkIdle

CkBoot ==
    /\ CkIdle /\ ck_boot < Len(BootSteps)
    /\ ck_todo' = BootSteps[ck_boot + 1]
    /\ ck_boot' = ck_boot + 1
    /\ UNCHANGED <<ck_pll, ck_set, ck_want, ck_reset>>

\* One register write; powering a PLL down loses its lock.
clock_control_tt_bh_write_reg ==
    /\ ck_todo # <<>>
    /\ LET w == Head(ck_todo) IN
         IF w[2] = "reset"
         THEN ck_reset' = ck_reset \cup {w[3]} /\ UNCHANGED ck_pll
         ELSE /\ ck_pll' = [ck_pll EXCEPT ![w[1]] =
                  IF w[2] = "up" /\ ~w[3] THEN [@ EXCEPT !.up = FALSE, !.locked = FALSE]
                  ELSE [@ EXCEPT ![w[2]] = w[3]]]
              /\ UNCHANGED ck_reset
    /\ ck_todo' = Tail(ck_todo)
    /\ UNCHANGED <<ck_set, ck_boot, ck_want>>

\* clock_control_tt_bh_set_rate(AICLK): the feedback divider of the running PLL
\* moves by one per write until it is the target's.
CkSetAiclk(mhz) ==
    /\ CkBooted
    /\ LET pll == ck_pll[AIPLL]
           target == clock_control_tt_bh_calculate_fbdiv(mhz, pll.post[1], pll.use)
           dist == IF target > pll.fb THEN target - pll.fb ELSE pll.fb - target
           sign == IF target > pll.fb THEN 1 ELSE -1
       IN  ck_todo' = [i \in 1 .. dist |-> <<AIPLL, "fb", pll.fb + (sign * i)>>]
    /\ ck_want' = [ck_want EXCEPT !.aiclk = mhz]
    /\ UNCHANGED <<ck_pll, ck_set, ck_boot, ck_reset>>

\* clock_control_tt_bh_set_rate(GDDRMEMCLK): refused when the divider would be 0
\* or the VCO out of range, else the PLL is updated from the device's settings.
CkSetGddr(mhz) ==
    /\ CkBooted
    /\ LET fb == clock_control_tt_bh_calculate_fbdiv(mhz, ck_set[GDDRPLL].post[1], TRUE)
           s == [ck_set[GDDRPLL] EXCEPT !.fb = fb]
       IN  /\ fb # 0
           /\ GetVcoFreq(fb) \in VCO_MIN_FREQ .. VCO_MAX_FREQ
           /\ ck_todo' = clock_control_tt_bh_update(GDDRPLL, s)
           /\ ck_set' = [ck_set EXCEPT ![GDDRPLL] = s]
    /\ ck_want' = [ck_want EXCEPT !.gddr = mhz]
    /\ UNCHANGED <<ck_pll, ck_boot, ck_reset>>

bh_set_l2cpu_enable_oneByOne(on) ==
    /\ CkBooted
    /\ LET v == IF on THEN 1 ELSE 0
           after(k) == [ck_set[L2PLL] EXCEPT !.post = [i \in 1 .. 4 |-> IF i = k THEN v ELSE @[i]]]
       IN  /\ ck_todo' = FlattenSeq([k \in 1 .. 4 |-> clock_control_tt_bh_update(L2PLL, after(k))])
           /\ ck_set' = [ck_set EXCEPT ![L2PLL] = after(4)]
    /\ ck_want' = [ck_want EXCEPT !.l2cpu = on]
    /\ UNCHANGED <<ck_pll, ck_boot, ck_reset>>

\* bh_set_l2cpu_enable: clock_control_tt_bh_enable for the four L2CPU clocks in
\* turn, each an update from the settings the one before left.
bh_set_l2cpu_enable(on) ==
    /\ CkBooted
    /\ LET v == IF on THEN 1 ELSE 0
           after(k) == [ck_set[L2PLL] EXCEPT !.post =
                          [i \in 1 .. 4 |-> IF i <= k THEN v ELSE @[i]]]
       IN  /\ ck_todo' = FlattenSeq([k \in 1 .. 4 |-> clock_control_tt_bh_update(L2PLL, after(k))])
           /\ ck_set' = [ck_set EXCEPT ![L2PLL] = after(4)]
    /\ ck_want' = [ck_want EXCEPT !.l2cpu = on]
    /\ UNCHANGED <<ck_pll, ck_boot, ck_reset>>

CkNext ==
    \/ CkBoot
    \/ clock_control_tt_bh_write_reg
    \/ \E mhz \in CkAiclks : CkSetAiclk(mhz)
    \/ \E mhz \in CkGddrs : CkSetGddr(mhz)
    \/ \E on \in BOOLEAN : bh_set_l2cpu_enable(on)

CkSpec == CkInit /\ [][CkNext]_ck_vars

-----------------------------------------------------------------------------

\* Types of the state.
CkTypeOK ==
    /\ ck_pll \in [PLLs -> [bypass : BOOLEAN, up : BOOLEAN, locked : BOOLEAN, fb : 0 .. 65535,
                            post : [1 .. 4 -> 0 .. 255], use : BOOLEAN]]
    /\ ck_boot \in 0 .. Len(BootSteps)
    /\ ck_reset \subseteq {"tiles", "riscv"}

\* Whenever no operation is in progress after the boot, every clock runs at the
\* rate asked for last, rounded down by less than one divider step, the L2CPU
\* clocks are all as last switched, and no operation on one clock has changed
\* another.
CkRatesMet ==
    CkBooted =>
      LET rate(p, i) == clock_control_tt_bh_get_freq(ck_pll[p], i)
      IN  /\ rate(AIPLL, 1) \in (ck_want.aiclk - 6) .. ck_want.aiclk
          /\ rate(GDDRPLL, 1) \in (ck_want.gddr - 6) .. ck_want.gddr
          /\ \A i \in 1 .. 4 : rate(L2PLL, i) = (IF ck_want.l2cpu THEN 800 ELSE 0)
          /\ <<rate(1, 1), rate(1, 2), rate(1, 3), rate(2, 1)>> = <<800, 960, 100, 850>>
          /\ \A p \in PLLs : ~ck_pll[p].bypass

=============================================================================
