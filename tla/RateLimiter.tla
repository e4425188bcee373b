---------------------------- MODULE RateLimiter ----------------------------
(***************************************************************************)
(* The in-memory limiter in front of the tool, agent, research, chat,      *)
(* media, integration and install endpoints: a fixed-window count per      *)
(* tenant and a global semaphore (src/app/control_plane/agent_tools.py,    *)
(* class RateLimiter), as the server's request threads use it.             *)
(*                                                                         *)
(* A handler reads the clock, calls try_acquire with what it read, and     *)
(* releases in a finally block.  Reading the clock, the section under the  *)
(* lock and the semaphore are three actions: any thread runs in between.   *)
(* The clock counts windows (minutes), the first one being 1.              *)
(***************************************************************************)
EXTENDS Integers, FiniteSets

CONSTANTS
  Threads,         \* request threads of the server process
  Tenants,
  PerMinute,       \* per_minute
  MaxConcurrency,  \* max_concurrency
  MaxMinute        \* bound: the last window of the clock

ASSUME LimiterAssumption ==
  /\ PerMinute \in Nat
  /\ MaxConcurrency \in Int
  /\ MaxMinute \in Nat \ {0}

ASSUME ThreadsAssumption == IsFiniteSet(Threads) /\ Tenants # {}

VARIABLES
  clock,    \* the current window, int(time.time()) // 60
  thread,   \* thread -> where it is in its handler, its tenant and its `now'
  windows,  \* tenant -> (window, count); window 0 stands for no entry
  permits,  \* the semaphore's value
  admitted, \* history: tenant -> window -> calls the window check let pass
  stale     \* history: tenant -> checks made with a window older than the entry's

limVars == <<clock, thread, windows, permits, admitted, stale>>

Slots == IF MaxConcurrency < 1 THEN 1 ELSE MaxConcurrency
Minutes == 1..MaxMinute

Thread == [pc : {"idle", "timed", "counted", "running"}, tenant : Tenants, now : Minutes]
IdleThread == [pc |-> "idle", tenant |-> CHOOSE t \in Tenants : TRUE, now |-> 1]

LimTypeOK ==
  /\ clock \in Minutes
  /\ thread \in [Threads -> Thread]
  /\ windows \in [Tenants -> [window : 0..MaxMinute, count : Nat]]
  /\ permits \in 0..Slots
  /\ admitted \in [Tenants -> [Minutes -> Nat]]
  /\ stale \in [Tenants -> Nat]

Holders == {th \in Threads : thread[th].pc = "running"}

----------------------------------------------------------------------------
\* RateLimiter.__init__ and idle request threads, in a fresh server process.
Fresh(th, win, per, adm, st) ==
  /\ th = [x \in Threads |-> IdleThread]
  /\ win = [t \in Tenants |-> [window |-> 0, count |-> 0]]
  /\ per = Slots
  /\ adm = [t \in Tenants |-> [m \in Minutes |-> 0]]
  /\ st = [t \in Tenants |-> 0]

LimInit == clock = 1 /\ Fresh(thread, windows, permits, admitted, stale)

Tick ==
  /\ clock < MaxMinute
  /\ clock' = clock + 1
  /\ UNCHANGED <<thread, windows, permits, admitted, stale>>

\* now = int(time.time()), in the handler, before the limiter's lock.
ReadClock(th, t) ==
  /\ thread[th].pc = "idle"
  /\ thread' = [thread EXCEPT ![th] = [pc |-> "timed", tenant |-> t, now |-> clock]]
  /\ UNCHANGED <<clock, windows, permits, admitted, stale>>

\* The entry try_acquire goes on with: a fresh one unless it is of this window.
CurrentWindow(t, window) ==
  IF windows[t].window = window THEN windows[t] ELSE [window |-> window, count |-> 0]

\* try_acquire, the section under the lock.
CountCall(th) ==
  LET t     == thread[th].tenant
      w     == thread[th].now
      entry == CurrentWindow(t, w)
  IN /\ thread[th].pc = "timed"
     /\ IF entry.count >= PerMinute
        THEN /\ thread' = [thread EXCEPT ![th] = IdleThread]
             /\ UNCHANGED <<windows, admitted, stale>>
        ELSE /\ thread' = [thread EXCEPT ![th].pc = "counted"]
             /\ windows' = [windows EXCEPT ![t] = [entry EXCEPT !.count = @ + 1]]
             /\ admitted' = [admitted EXCEPT ![t][w] = @ + 1]
             /\ stale' = [stale EXCEPT ![t] = IF w < windows[t].window THEN @ + 1 ELSE @]
     /\ UNCHANGED <<clock, permits>>

\* Mutant: the semaphore is not taken.
AcquireSlotUncounted(th) ==
  /\ thread[th].pc = "counted"
  /\ thread' = [thread EXCEPT ![th].pc = "running"]
  /\ UNCHANGED <<clock, windows, permits, admitted, stale>>

\* try_acquire, the semaphore: a call refused here has used up its count.
AcquireSlot(th) ==
  /\ thread[th].pc = "counted"
  /\ \/ permits > 0 /\ permits' = permits - 1 /\ thread' = [thread EXCEPT ![th].pc = "running"]
     \/ permits = 0 /\ UNCHANGED permits /\ thread' = [thread EXCEPT ![th] = IdleThread]
  /\ UNCHANGED <<clock, windows, admitted, stale>>

\* Mutant: a handler that leaves without its finally block.
ReleaseLeaks(th) ==
  /\ thread[th].pc = "running"
  /\ thread' = [thread EXCEPT ![th] = IdleThread]
  /\ UNCHANGED <<clock, windows, permits, admitted, stale>>

\* release, from the handler's finally block.  A BoundedSemaphore never passes
\* its initial value; the ValueError it raises instead is swallowed.
Release(th) ==
  /\ thread[th].pc = "running"
  /\ thread' = [thread EXCEPT ![th] = IdleThread]
  /\ permits' = IF permits < Slots THEN permits + 1 ELSE permits
  /\ UNCHANGED <<clock, windows, admitted, stale>>

\* The server process dies and comes back: the limiter is only in memory.
LimRestart == Fresh(thread', windows', permits', admitted', stale') /\ UNCHANGED clock

LimNext ==
  \/ Tick
  \/ \E th \in Threads, t \in Tenants : ReadClock(th, t)
  \/ \E th \in Threads : CountCall(th) \/ AcquireSlot(th) \/ Release(th)
  \/ LimRestart

LimSpec == LimInit /\ [][LimNext]_limVars

----------------------------------------------------------------------------
\* Properties.

\* No slot is lost and none is made up: the semaphore's value and the handlers
\* between try_acquire and release add up to the cap, so that the ValueError
\* release swallows never happens and at most Slots handlers run.
SlotsConserved == permits + Cardinality(Holders) = Slots

\* What the per-minute limit really bounds.  A thread preempted between the
\* clock and the lock checks an old window and throws the tenant's current
\* entry away; each such check can cost one more PerMinute in any window.
RateOvershootBounded ==
  \A t \in Tenants, w \in Minutes : admitted[t][w] <= PerMinute * (stale[t] + 1)

\* The limiter limits: slots are neither lost nor made up over any sequence of
\* handlers and restarts, and a tenant's calls in a minute overshoot by what its
\* stale checks account for, no more.
LimiterHolds == SlotsConserved /\ RateOvershootBounded
============================================================================
