-------------------------------- MODULE Timers --------------------------------
(***************************************************************************)
(* DriverThread::DpcTimer and DriverThread::ExTimer: one object of either  *)
(* class, the client that starts, stops and destroys it, and the kernel's  *)
(* timers, whose expirations call m_Callback on any processor.             *)
(*                                                                         *)
(* A kernel timer is named by the number of the Start that armed it: an    *)
(* ExTimer gets a new one from each Start, a DpcTimer arms its member      *)
(* again.  So is m_Callback, the routine of that Start.  The client starts *)
(* an object that is stopped, or whose timer has fired for the last time:  *)
(* that is its duty, Start does not check it, and nothing is said here of  *)
(* a Start over a timer that is armed, due or running.                     *)
(***************************************************************************)
EXTENDS Integers

CONSTANTS
  Kinds,      \* the classes: "dpc", "ex"
  Timeouts,   \* what Start is called with, relative, in 100 ns
  MaxStarts,  \* bound: calls of Start
  CPUs        \* bound: calls of m_Callback at the same time

ASSUME TimersAssumption ==
  /\ Kinds \subseteq {"dpc", "ex"}
  /\ \A timeout \in Timeouts : timeout \in Int /\ timeout < 0
  /\ MaxStarts \in Nat
  /\ CPUs \in Nat \ {0}

KernelTimers == 1 .. MaxStarts
Null == 0

VARIABLES
  kind,       \* the class of the object
  pc,         \* where its client is
  destroying, \* the call of StopAndWait is the destructor's
  request,    \* what the last Start was asked for
  started,    \* a Start without a StopAndWait after it
  starts,     \* calls of Start so far
  m_Callback, \* the Start whose routine it holds
  m_Timer,    \* an ExTimer's kernel timer
  allocated,  \* kernel: what ExAllocateTimer gave, not deleted
  armed,      \* kernel: the timers that will expire
  periodic,   \* kernel: those that go on after they expired
  queued,     \* kernel: those whose call is due
  running     \* kernel: the calls of m_Callback each timer is in

client == <<pc, destroying, request, started, starts>>
object == <<m_Callback, m_Timer>>
vars == <<kind, client, object, allocated, armed, periodic, queued, running>>

TypeOK ==
  /\ kind \in Kinds
  /\ pc \in {"idle", "start", "start_set", "stop", "flush", "delete", "gone"}
  /\ destroying \in BOOLEAN
  /\ request \in [timeout : Timeouts, periodic : BOOLEAN]
  /\ started \in BOOLEAN
  /\ starts \in 0 .. MaxStarts
  /\ m_Callback \in KernelTimers \cup {Null}
  /\ m_Timer \in allocated \cup {Null}
  /\ pc = "start" => starts \in KernelTimers
  /\ pc \in {"start_set", "delete"} => m_Timer # Null
  /\ {allocated, armed, periodic, queued} \subseteq SUBSET KernelTimers
  /\ running \in [KernelTimers -> 0 .. CPUs]

Init ==
  /\ kind \in Kinds
  /\ pc = "idle"
  /\ destroying = FALSE
  /\ request \in [timeout : Timeouts, periodic : {FALSE}]
  /\ started = FALSE
  /\ starts = 0
  /\ m_Callback = Null
  /\ m_Timer = Null
  /\ allocated = {}
  /\ armed = {}
  /\ periodic = {}
  /\ queued = {}
  /\ running = [t \in KernelTimers |-> 0]

Goto(label) == pc' = label

Quiet(t) == t \notin armed /\ t \notin queued /\ running[t] = 0

-----------------------------------------------------------------------------
\* DpcTimer::Start and ExTimer::Start

\* m_Callback is assigned first.
CallStart(timeout, goes_on) ==
  /\ pc = "idle"
  /\ started => \A t \in KernelTimers : Quiet(t)
  /\ starts < MaxStarts
  /\ request' = [timeout |-> timeout, periodic |-> goes_on]
  /\ started' = TRUE
  /\ starts' = starts + 1
  /\ m_Callback' = starts'
  /\ Goto("start")
  /\ UNCHANGED <<kind, destroying, m_Timer, allocated, armed, periodic,
                 queued, running>>

\* Mutant of PeriodMs: a zero too many.
PeriodMsTooShort(timeout) == (-timeout) \div 100000

\* The period of a DpcTimer in milliseconds, 0 for none.
PeriodMs(timeout) == (-timeout) \div 10000

(* KeSetTimerEx, with a DPC that was just initialised: a period below one  *)
(* millisecond makes a timer that fires once.                              *)
DpcSet ==
  /\ kind = "dpc" /\ pc = "start"
  /\ armed' = {starts}
  /\ periodic' = IF request.periodic /\ PeriodMs(request.timeout) # 0
                 THEN {starts} ELSE {}
  /\ Goto("idle")
  /\ UNCHANGED <<kind, destroying, request, started, starts, object,
                 allocated, queued, running>>

\* The timer of an earlier Start is not looked at, and not deleted.
ExAllocate ==
  /\ kind = "ex" /\ pc = "start"
  /\ m_Timer' = starts
  /\ allocated' = allocated \cup {starts}
  /\ Goto("start_set")
  /\ UNCHANGED <<kind, destroying, request, started, starts, m_Callback,
                 armed, periodic, queued, running>>

ExAllocateFails ==
  /\ kind = "ex" /\ pc = "start"
  /\ m_Timer' = Null
  /\ Goto("idle")
  /\ UNCHANGED <<kind, destroying, request, started, starts, m_Callback,
                 allocated, armed, periodic, queued, running>>

\* ExSetTimer; Start returns false, for the timer was not set before.
ExSet ==
  /\ kind = "ex" /\ pc = "start_set"
  /\ armed' = armed \cup {m_Timer}
  /\ periodic' = IF request.periodic THEN periodic \cup {m_Timer} ELSE periodic
  /\ Goto("idle")
  /\ UNCHANGED <<kind, destroying, request, started, starts, object,
                 allocated, queued, running>>

-----------------------------------------------------------------------------
\* StopAndWait, called by the client or by the destructor

CallStop(destroy) ==
  /\ pc = "idle"
  /\ destroying' = destroy
  /\ Goto("stop")
  /\ UNCHANGED <<kind, request, started, starts, object, allocated, armed,
                 periodic, queued, running>>

StopReturns == started' = FALSE /\ Goto(IF destroying THEN "gone" ELSE "idle")

\* Mutant of DpcCancel: the timer goes on.
DpcNoCancel ==
  /\ kind = "dpc" /\ pc = "stop"
  /\ Goto("flush")
  /\ UNCHANGED <<kind, destroying, request, started, starts, object,
                 allocated, armed, periodic, queued, running>>

\* KeCancelTimer; a call that is due already stays due.
DpcCancel ==
  /\ kind = "dpc" /\ pc = "stop"
  /\ armed' = {}
  /\ Goto("flush")
  /\ UNCHANGED <<kind, destroying, request, started, starts, object,
                 allocated, periodic, queued, running>>

\* Mutant of DpcFlush: KeFlushQueuedDpcs is not called.
DpcNoFlush ==
  /\ kind = "dpc" /\ pc = "flush"
  /\ StopReturns
  /\ UNCHANGED <<kind, destroying, request, starts, object, allocated, armed,
                 periodic, queued, running>>

\* KeFlushQueuedDpcs returns when the calls that were due have come back.
DpcFlush ==
  /\ kind = "dpc" /\ pc = "flush"
  /\ queued = {} /\ \A t \in KernelTimers : running[t] = 0
  /\ StopReturns
  /\ UNCHANGED <<kind, destroying, request, starts, object, allocated, armed,
                 periodic, queued, running>>

ExNothingToStop ==
  /\ kind = "ex" /\ pc = "stop"
  /\ m_Timer = Null
  /\ StopReturns
  /\ UNCHANGED <<kind, destroying, request, starts, object, allocated, armed,
                 periodic, queued, running>>

ExCancel ==
  /\ kind = "ex" /\ pc = "stop"
  /\ m_Timer # Null
  /\ armed' = armed \ {m_Timer}
  /\ Goto("delete")
  /\ UNCHANGED <<kind, destroying, request, started, starts, object,
                 allocated, periodic, queued, running>>

\* Mutant of ExDelete: ExDeleteTimer is told not to wait.
ExDeleteNoWait ==
  /\ kind = "ex" /\ pc = "delete"
  /\ allocated' = allocated \ {m_Timer}
  /\ m_Timer' = Null
  /\ StopReturns
  /\ UNCHANGED <<kind, destroying, request, starts, m_Callback, armed,
                 periodic, queued, running>>

\* ExDeleteTimer waits for the calls of the timer.
ExDelete ==
  /\ kind = "ex" /\ pc = "delete"
  /\ m_Timer \notin queued /\ running[m_Timer] = 0
  /\ allocated' = allocated \ {m_Timer}
  /\ m_Timer' = Null
  /\ StopReturns
  /\ UNCHANGED <<kind, destroying, request, starts, m_Callback, armed,
                 periodic, queued, running>>

-----------------------------------------------------------------------------
\* The kernel, and the interceptors it calls

Expire(t) ==
  /\ t \in armed
  /\ t \in periodic => t \notin queued
  /\ queued' = queued \cup {t}
  /\ armed' = IF t \in periodic THEN armed ELSE armed \ {t}
  /\ UNCHANGED <<kind, client, object, allocated, periodic, running>>

(* DpcTimerInterceptor or ExTimerInterceptor calls m_Callback.  The timer  *)
(* may expire again, and be called on another processor, before it returns.*)
Interceptor(t) ==
  /\ t \in queued
  /\ running[t] < CPUs
  /\ queued' = queued \ {t}
  /\ running' = [running EXCEPT ![t] = @ + 1]
  /\ UNCHANGED <<kind, client, object, allocated, armed, periodic>>

InterceptorReturns(t) ==
  /\ running[t] > 0
  /\ running' = [running EXCEPT ![t] = @ - 1]
  /\ UNCHANGED <<kind, client, object, allocated, armed, periodic, queued>>

ClientStep ==
  \/ DpcSet
  \/ ExAllocate
  \/ ExAllocateFails
  \/ ExSet
  \/ DpcCancel
  \/ DpcFlush
  \/ ExNothingToStop
  \/ ExCancel
  \/ ExDelete

KernelStep(t) == Expire(t) \/ Interceptor(t) \/ InterceptorReturns(t)

Done == pc = "gone" /\ UNCHANGED vars

Next ==
  \/ ClientStep
  \/ \E timeout \in Timeouts, goes_on \in BOOLEAN : CallStart(timeout, goes_on)
  \/ \E destroy \in BOOLEAN : CallStop(destroy)
  \/ \E t \in KernelTimers : KernelStep(t)
  \/ Done

(* A call the client has made goes on, a timer that is armed expires, and  *)
(* the callback returns.                                                   *)
Fairness == WF_vars(ClientStep) /\ \A t \in KernelTimers : WF_vars(KernelStep(t))

Spec == Init /\ [][Next]_vars /\ Fairness

-----------------------------------------------------------------------------
(* When StopAndWait has returned, and when the object is gone, the         *)
(* callback runs nowhere, and will not run before another Start: no call   *)
(* that was due when the timer was cancelled comes late.                   *)
QuietAfterStop ==
  ~started => \A t \in KernelTimers : Quiet(t)

(* A timer that may still call into an ExTimer is the one it knows of, and *)
(* that StopAndWait and the destructor will stop.                          *)
LiveTimersKnown ==
  kind = "ex" => \A t \in KernelTimers : Quiet(t) \/ t = m_Timer

\* The kernel timer that is live is the one the last Start armed.
LiveIsLatest ==
  \A t \in KernelTimers : Quiet(t) \/ t = m_Callback

(* The inductive invariant behind them: no call is due while the object    *)
(* changes timers, and a cancelled timer does not come back to life.       *)
StopInv ==
  /\ QuietAfterStop
  /\ LiveIsLatest
  /\ LiveTimersKnown
  /\ pc \in {"start", "start_set"} => started /\ \A t \in KernelTimers : Quiet(t)
  /\ pc = "start" => m_Callback = starts
  /\ pc = "start_set" => m_Timer = m_Callback
  /\ pc = "flush" => armed = {}
  /\ pc = "delete" => m_Timer \notin armed

(* A timer that was started periodically calls again and again until it is *)
(* stopped, if its period is a millisecond at least.                       *)
PeriodicGoesOn ==
  \A t \in KernelTimers :
    /\ started /\ pc = "idle" /\ m_Callback = t /\ (kind = "ex" => m_Timer = t)
    /\ request.periodic /\ request.timeout <= -10000
    ~> running[t] > 0 \/ pc # "idle"

(* StopAndWait and the destructors come back, whatever is due or running.  *)
StopEnds == pc = "stop" ~> pc \in {"idle", "gone"}
=============================================================================
