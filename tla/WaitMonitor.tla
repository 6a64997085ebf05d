---------------------------- MODULE WaitMonitor ----------------------------
(* What a C_MUTEX of Include/c+/system/threads.hc promises, and what the   *)
(* task queue relies on: one thread inside, a wait that gives the monitor  *)
(* up, and a notification that is kept until one wait has consumed it.     *)
CONSTANTS Threads, None, TIMED

VARIABLES
  owner,    (* the thread inside                                            *)
  asleep,   (* the threads in a wait, the monitor given up                  *)
  woken,    (* those on their way back                                      *)
  signal    (* a notification nobody has consumed yet                       *)

Init == owner = None /\ asleep = {} /\ woken = {} /\ signal = FALSE

Enter(t) ==
  /\ owner = None /\ t \notin asleep
  /\ owner' = t /\ woken' = woken \ {t}
  /\ UNCHANGED <<asleep, signal>>

Leave(t) ==
  /\ owner = t /\ owner' = None
  /\ asleep' \in {asleep, asleep \cup {t}}
  /\ UNCHANGED <<woken, signal>>

Notify == signal' = TRUE /\ UNCHANGED <<owner, asleep, woken>>

Wake(t) ==
  /\ t \in asleep /\ (signal \/ TIMED)
  /\ asleep' = asleep \ {t} /\ woken' = woken \cup {t}
  /\ signal' \in IF TIMED THEN {signal, FALSE} ELSE {FALSE}
  /\ UNCHANGED owner

Next == (\E t \in Threads : Enter(t) \/ Leave(t) \/ Wake(t)) \/ Notify

vars == <<owner, asleep, woken, signal>>

Spec == Init /\ [][Next]_vars

=============================================================================
