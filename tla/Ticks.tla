------------------------------- MODULE Ticks -------------------------------
(***************************************************************************)
(* The tick counter of src/src/handler.c and the sleep system call of      *)
(* src/src/syscall.c.  Every core has its own timer, and all of them add   *)
(* to the one counter ticks, with a load and a store and without a lock:   *)
(* a store may overwrite what other cores have counted since the load, and *)
(* set the counter back.  sys_sleep compares the unsigned difference of    *)
(* two readings with what it was asked for.  The counter has Width bits    *)
(* here, 64 in the code, where it never comes to wrap around.              *)
(***************************************************************************)
EXTENDS Integers, FiniteSets

CONSTANTS Core,
          Sleeper,   \* processes that call sys_sleep, all on core Home
          Home,
          Width,
          MaxSleep,  \* bound on the argument of sys_sleep
          Lag,       \* ticks that a woken process may have to wait for its core
          Stale      \* ticks of other cores between the load and the store of ticks++

Modulus == 2^Width

(***************************************************************************)
(* The bounds stay below the modulus: MaxSleep + Lag + Stale < 2^Width.  A *)
(* core's ready list is served in turn, one tick for each process, so Lag  *)
(* is at most the number of its processes; and ticks++ is a few            *)
(* instructions long, so other cores count few ticks in the middle of it:  *)
(* both are small against the 2^64 values of the code's counter.           *)
(***************************************************************************)
VARIABLES running,  \* the cores that have called init_timer
          ticks,
          tpc,      \* where each core is in timer_interrupt_handler
          loaded,   \* the value of ticks that ticks++ has loaded
          missed,   \* missed[c]: stores of other cores since core c's load
          spc,      \* where each sleeper is in sys_sleep
          old,      \* its old_ticks
          want,     \* its sleep_ticks
          elapsed,  \* history: timer interrupts counted since old was read, up to MaxSleep
          overwritten,  \* history: a store has overwritten other cores' ticks since then
          waited    \* ticks counted since it was woken

vars == <<running, ticks, tpc, loaded, missed, spc, old, want, elapsed, overwritten, waited>>

Values == 0..Modulus-1

TypeOK ==
  /\ running \subseteq Core
  /\ ticks \in Values
  /\ tpc \in [Core -> {"out", "store", "wake"}]
  /\ loaded \in [Core -> Values]
  /\ missed \in [Core -> 0..Stale]
  /\ spc \in [Sleeper -> {"user", "test", "sleep", "asleep", "ready"}]
  /\ old \in [Sleeper -> Values]
  /\ want \in [Sleeper -> 0..MaxSleep]
  /\ elapsed \in [Sleeper -> 0..MaxSleep]
  /\ overwritten \in [Sleeper -> BOOLEAN]
  /\ waited \in [Sleeper -> 0..Lag + Cardinality(Core) - 1]

Init ==
  /\ running = {}
  /\ ticks = 0
  /\ tpc = [c \in Core |-> "out"]
  /\ loaded = [c \in Core |-> 0]
  /\ missed = [c \in Core |-> 0]
  /\ spc = [p \in Sleeper |-> "user"]
  /\ old = [p \in Sleeper |-> 0]
  /\ want = [p \in Sleeper |-> 0]
  /\ elapsed = [p \in Sleeper |-> 0]
  /\ overwritten = [p \in Sleeper |-> FALSE]
  /\ waited = [p \in Sleeper |-> 0]

CoreFree(c) ==
  /\ tpc[c] = "out"
  /\ c = Home => \A p \in Sleeper : spc[p] \in {"user", "asleep", "ready"}

(* The sleepers that have been woken, or have not fallen asleep yet. *)
Awake == {p \in Sleeper : spc[p] \in {"ready", "test", "sleep"}}
-----------------------------------------------------------------------------
(* init_timer; the other cores wait until core Home has called its own. *)
InitTimer(c) ==
  /\ c \in Core \ running
  /\ c = Home \/ Home \in running
  /\ running' = running \cup {c}
  /\ UNCHANGED <<ticks, tpc, loaded, missed, spc, old, want, elapsed, overwritten, waited>>

(* The timer interrupt: ticks++ loads the counter. *)
TickLoad(c) ==
  /\ c \in running /\ CoreFree(c)
  /\ \A p \in Awake : waited[p] < Lag
  /\ tpc' = [tpc EXCEPT ![c] = "store"]
  /\ loaded' = [loaded EXCEPT ![c] = ticks]
  /\ missed' = [missed EXCEPT ![c] = 0]
  /\ UNCHANGED <<running, ticks, spc, old, want, elapsed, overwritten, waited>>

Counted(p) == IF spc[p] = "user" \/ elapsed[p] = MaxSleep THEN elapsed[p] ELSE elapsed[p] + 1

(* ticks++ stores the counter, over whatever others have stored since the load. *)
TickStore(c) ==
  /\ tpc[c] = "store"
  /\ \A d \in Core \ {c} : tpc[d] = "store" => missed[d] < Stale
  /\ tpc' = [tpc EXCEPT ![c] = "wake"]
  /\ ticks' = (loaded[c] + 1) % Modulus
  /\ missed' = [d \in Core |-> IF d # c /\ tpc[d] = "store" THEN missed[d] + 1 ELSE 0]
  /\ elapsed' = [p \in Sleeper |-> Counted(p)]
  /\ overwritten' = [p \in Sleeper |-> overwritten[p] \/ (spc[p] # "user" /\ missed[c] > 0)]
  /\ waited' = [p \in Sleeper |-> IF p \in Awake THEN waited[p] + 1 ELSE 0]
  /\ loaded' = [loaded EXCEPT ![c] = 0]
  /\ UNCHANGED <<running, spc, old, want>>

(* Mutant for SleepEnds: the handler does not call wake_up. *)
TickOnly(c) ==
  /\ tpc[c] = "wake"
  /\ tpc' = [tpc EXCEPT ![c] = "out"]
  /\ UNCHANGED <<running, ticks, loaded, missed, spc, old, want, elapsed, overwritten, waited>>

(* wake_up(-1), and the timer is set again. *)
TickWake(c) ==
  /\ tpc[c] = "wake"
  /\ tpc' = [tpc EXCEPT ![c] = "out"]
  /\ spc' = [p \in Sleeper |-> IF spc[p] = "asleep" THEN "ready" ELSE spc[p]]
  /\ UNCHANGED <<running, ticks, loaded, missed, old, want, elapsed, overwritten, waited>>
-----------------------------------------------------------------------------
(* sys_sleep(n) reads the counter for the first time. *)
SysSleep(p, n) ==
  /\ spc[p] = "user" /\ CoreFree(Home) /\ Home \in running
  /\ spc' = [spc EXCEPT ![p] = IF n = 0 THEN "user" ELSE "sleep"]
  /\ old' = [old EXCEPT ![p] = ticks]
  /\ want' = [want EXCEPT ![p] = n]
  /\ elapsed' = [elapsed EXCEPT ![p] = 0]
  /\ overwritten' = [overwritten EXCEPT ![p] = FALSE]
  /\ waited' = [waited EXCEPT ![p] = 0]
  /\ UNCHANGED <<running, ticks, tpc, loaded, missed>>

(* sleep(-1): the core runs another process. *)
Sleep(p) ==
  /\ spc[p] = "sleep"
  /\ spc' = [spc EXCEPT ![p] = "asleep"]
  /\ waited' = [waited EXCEPT ![p] = 0]
  /\ UNCHANGED <<running, ticks, tpc, loaded, missed, old, want, elapsed, overwritten>>

(* A woken process gets its core and returns from sleep. *)
Resume(p) ==
  /\ spc[p] = "ready" /\ CoreFree(Home)
  /\ spc' = [spc EXCEPT ![p] = "test"]
  /\ UNCHANGED <<running, ticks, tpc, loaded, missed, old, want, elapsed, overwritten, waited>>

(* The loop of sys_sleep goes on, or the call returns and its locals are gone. *)
Loop(p, again) ==
  /\ spc[p] = "test"
  /\ spc' = [spc EXCEPT ![p] = IF again THEN "sleep" ELSE "user"]
  /\ IF again THEN UNCHANGED <<old, want, elapsed, overwritten, waited>>
     ELSE /\ old' = [old EXCEPT ![p] = 0] /\ want' = [want EXCEPT ![p] = 0]
          /\ elapsed' = [elapsed EXCEPT ![p] = 0] /\ waited' = [waited EXCEPT ![p] = 0]
          /\ overwritten' = [overwritten EXCEPT ![p] = FALSE]
  /\ UNCHANGED <<running, ticks, tpc, loaded, missed>>

(* Mutant for EarlyOnlyAfterRace: if for while, sys_sleep returns at the first wake-up. *)
TestOnce(p) == Loop(p, FALSE)

(* while (ticks - old_ticks < sleep_ticks), with a new reading of the counter. *)
Test(p) == Loop(p, (ticks - old[p]) % Modulus < want[p])

TimerStep(c) == TickLoad(c) \/ TickStore(c) \/ TickWake(c)

Next ==
  \/ \E c \in Core : TimerStep(c) \/ InitTimer(c)
  \/ \E p \in Sleeper : Sleep(p) \/ Resume(p) \/ Test(p) \/ \E n \in 0..MaxSleep : SysSleep(p, n)

Spec == Init /\ [][Next]_vars

(***************************************************************************)
(* Every core keeps running: its timer is rearmed by the handler, and the  *)
(* kernel's steps end.                                                     *)
(***************************************************************************)
CoreStep(c) ==
  TimerStep(c) \/ (c = Home /\ \E p \in Sleeper : Sleep(p) \/ Resume(p) \/ Test(p))

Fairness == \A c \in Core : WF_vars(CoreStep(c))

FairSpec == Spec /\ Fairness
-----------------------------------------------------------------------------
(***************************************************************************)
(* With every core's timer running, sys_sleep(n) returns before n timer    *)
(* interrupts have been counted only if, since it first read the counter,  *)
(* a store of ticks++ overwrote an increment that another core had made    *)
(* after the load.  (Then it may: the counter is set back, the unsigned    *)
(* difference is huge, and the next wake-up ends the sleep.)               *)
(***************************************************************************)
LongEnough ==
  \A p \in Sleeper : spc[p] = "test" /\ spc'[p] = "user" => elapsed[p] >= want[p] \/ overwritten[p]

EarlyOnlyAfterRace == [][LongEnough]_vars

(***************************************************************************)
(* Every sys_sleep returns, even when increments are lost and the counter  *)
(* steps back because two cores run ticks++ at the same time.              *)
(***************************************************************************)
SleepEnds == \A p \in Sleeper : spc[p] = "sleep" ~> spc[p] = "user"
=============================================================================
