-------------------------- MODULE MitmproxyManager --------------------------
(***************************************************************************)
(* MitmproxyManager for one device: the registered mitmdump child, the     *)
(* children that exist, and the calls of startCapture, stopCapture and     *)
(* restartCapture that are in flight.                                      *)
(*                                                                         *)
(* The program is one Node.js process: code between two awaits is atomic,  *)
(* and when a promise settles, everything that waits for it runs before    *)
(* the next event is taken from the queue.  A call that has settled keeps  *)
(* its outcome in call[t] until its caller consumes it.                    *)
(***************************************************************************)
CONSTANTS Threads,     \* the asynchronous invocations that call the manager
          Children,    \* identities of mitmdump processes, reused after exit
          None,
          Crashes      \* mitmdump may exit unasked or not start (BOOLEAN)

ASSUME NoneIsNoChild == None \notin Children

VARIABLES processes,   \* processes.get(deviceId), or None
          proc,        \* the operating system's view of each child
          call,        \* where each thread's call is
          child        \* the child that call waits for, or None

mitmVars == <<processes, proc, call, child>>

ProcState == {"free", "live", "interrupted", "killed"}

Settled == {"ready", "already", "failed", "stopped"}

CallState == {"none", "resolving", "booting", "exiting", "restarting"}
               \cup Settled

MitmTypeOK ==
    /\ processes \in Children \cup {None}
    /\ proc \in [Children -> ProcState]
    /\ call \in [Threads -> CallState]
    /\ child \in [Threads -> Children \cup {None}]

MitmInit ==
    /\ processes = None
    /\ proc = [c \in Children |-> "free"]
    /\ call = [t \in Threads |-> "none"]
    /\ child = [t \in Threads |-> None]

IsCapturing == processes # None

Kill(c) == [proc EXCEPT ![c] = IF @ = "free" THEN @ ELSE "killed"]

-----------------------------------------------------------------------------
(* The synchronous part of each call, up to its first await.               *)

Admission == IF IsCapturing THEN "already" ELSE "resolving"

StartCapture(t) ==
    /\ call' = [call EXCEPT ![t] = Admission]
    /\ UNCHANGED <<processes, proc, child>>

\* Seeded bug: the entry is left for the exit handler to delete.
DetachAtExit(t, waiting) ==
    /\ proc' = [proc EXCEPT ![processes] = "interrupted"]
    /\ call' = [call EXCEPT ![t] = waiting]
    /\ child' = [child EXCEPT ![t] = processes]
    /\ UNCHANGED processes

\* Deregister the child and interrupt it; the call then waits for its exit.
Detach(t, waiting) ==
    /\ processes' = None
    /\ proc' = [proc EXCEPT ![processes] = IF @ = "live" THEN "interrupted" ELSE @]
    /\ call' = [call EXCEPT ![t] = waiting]
    /\ child' = [child EXCEPT ![t] = processes]

StopCapture(t) ==
    \/ IsCapturing /\ Detach(t, "exiting")
    \/ /\ ~IsCapturing
       /\ call' = [call EXCEPT ![t] = "stopped"]
       /\ UNCHANGED <<processes, proc, child>>

\* Both callers have tested isCapturing.
RestartCapture(t) == IsCapturing /\ Detach(t, "restarting")

\* The caller takes the outcome of its settled call.
Consume(t) ==
    /\ call' = [call EXCEPT ![t] = "none"]
    /\ UNCHANGED <<processes, proc, child>>

-----------------------------------------------------------------------------
(* What happens while the calls wait.                                      *)

\* The device's LAN address (and the SOCKS bridge) are resolved: the child is
\* spawned and registered, whatever is registered by now.
Spawn(t) ==
    /\ call[t] = "resolving"
    /\ \E c \in Children :
         /\ proc[c] = "free" /\ \A u \in Threads : child[u] # c
         /\ processes' = c
         /\ proc' = [proc EXCEPT ![c] = "live"]
         /\ child' = [child EXCEPT ![t] = c]
    /\ call' = [call EXCEPT ![t] = "booting"]

\* The SOCKS5 test or the configuration fails before anything is spawned.
ResolutionFails(t) ==
    /\ call[t] = "resolving"
    /\ call' = [call EXCEPT ![t] = "failed"]
    /\ UNCHANGED <<processes, proc, child>>

\* The child prints its READY line.
Ready(t) ==
    /\ call[t] = "booting" /\ proc[child[t]] # "free"
    /\ call' = [call EXCEPT ![t] = "ready"]
    /\ child' = [child EXCEPT ![t] = None]
    /\ UNCHANGED <<processes, proc>>

\* Seeded bug: the catch block forgets to kill the child.
ReadyTimeoutWithoutKill(t) ==
    /\ call[t] = "booting"
    /\ processes' = None
    /\ call' = [call EXCEPT ![t] = "failed"]
    /\ child' = [child EXCEPT ![t] = None]
    /\ UNCHANGED proc

\* Seeded bug: no timer, the start waits for READY or an exit only.
NoReadyTimeout(t) == FALSE

\* 30 s without READY: the catch block deregisters whatever is registered.
ReadyTimeout(t) ==
    /\ call[t] = "booting"
    /\ processes' = None
    /\ proc' = Kill(child[t])
    /\ call' = [call EXCEPT ![t] = "failed"]
    /\ child' = [child EXCEPT ![t] = None]

\* Seeded bug: no timer, a stop waits for the exit only.
NoExitTimeout(t) == FALSE

\* 3 s without an exit: SIGKILL, and the stop resolves; restartCapture goes on
\* to its start.
ExitTimeout(t) ==
    /\ call[t] \in {"exiting", "restarting"}
    /\ proc' = Kill(child[t])
    /\ call' = [call EXCEPT ![t] = IF @ = "exiting" THEN "stopped" ELSE Admission]
    /\ child' = [child EXCEPT ![t] = None]
    /\ UNCHANGED processes

\* A child exits.  Its own exit handler deregisters it only if it is still the
\* registered one; the catch block of a start that waits for it deregisters
\* whatever is registered.
ChildExits(c) ==
    LET Booting == \E t \in Threads : child[t] = c /\ call[t] = "booting"
        left == IF processes = c \/ Booting THEN None ELSE processes
    IN  /\ proc[c] # "free"
        /\ proc[c] = "live" => Crashes
        /\ proc' = [proc EXCEPT ![c] = "free"]
        /\ processes' = left
        /\ call' = [t \in Threads |->
              IF child[t] # c THEN call[t]
              ELSE IF call[t] = "booting" THEN "failed"
              ELSE IF call[t] = "exiting" THEN "stopped"
              ELSE IF left = None THEN "resolving" ELSE "already"]
        /\ child' = [t \in Threads |-> IF child[t] = c THEN None ELSE child[t]]

\* mitmdump cannot be executed: the error event deregisters it, no exit event
\* follows, and the start keeps waiting for its timeout.
SpawnError(c) ==
    /\ Crashes /\ proc[c] = "live"
    /\ \E t \in Threads : child[t] = c /\ call[t] = "booting"
    /\ proc' = [proc EXCEPT ![c] = "free"]
    /\ processes' = IF processes = c THEN None ELSE processes
    /\ UNCHANGED <<call, child>>

CallWaits(t) ==
    Spawn(t) \/ ResolutionFails(t) \/ Ready(t) \/ ReadyTimeout(t) \/ ExitTimeout(t)

-----------------------------------------------------------------------------
(* Properties of the manager alone.                                        *)

\* A registered child has not been told to stop and exists: isCapturing never
\* answers for a process that the manager has already interrupted.
NoDeadEntry == IsCapturing => proc[processes] = "live"

\* Every running mitmdump that nobody has told to stop is the registered one,
\* so that a later stopCapture reaches it.
NoOrphan == \A c \in Children : proc[c] = "live" => processes = c

=============================================================================
