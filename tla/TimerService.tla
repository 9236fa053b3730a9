---- MODULE TimerService ----
(***************************************************************************)
(* What the runtime's timers promise.  A call takes effect at one moment   *)
(* between its begin and its return.  A timer that is set runs once, not   *)
(* before it is due; one that is stopped does not run, and Stop answers    *)
(* truly whether it has prevented that.  A periodic timer is set for a     *)
(* later multiple of its period when it runs.                              *)
(***************************************************************************)
EXTENDS Integers

CONSTANTS T, Client, NoCall

VARIABLES period,   \* of each timer, 0 if it is to run once
          now,
          due,      \* when a timer is to run; NotSet if it is not to run
          call      \* of each client: NoCall, or what it asks for, whether that
                    \* has taken effect, and the answer

NotSet == 0
vars == <<period, now, due, call>>

Init == period \in [T -> Nat] /\ now \in Nat /\ due \in [T -> Nat] /\ call = [c \in Client |-> NoCall]

Begin(c) ==
    /\ call[c] = NoCall /\ call'[c] # NoCall /\ ~call'[c].done
    /\ call' = [call EXCEPT ![c] = call'[c]]
    /\ UNCHANGED <<now, due>>

Return(c) ==
    /\ call[c] # NoCall /\ call[c].done
    /\ call' = [call EXCEPT ![c] = NoCall]
    /\ UNCHANGED <<now, due>>

Pending(c, stop) == call[c] # NoCall /\ ~call[c].done /\ call[c].stop = stop

Set(c) ==
    /\ Pending(c, FALSE)
    /\ due' = [due EXCEPT ![call[c].t] = call[c].when]
    /\ call' = [call EXCEPT ![c].done = TRUE]
    /\ UNCHANGED now

Stop(c) ==
    /\ Pending(c, TRUE)
    /\ due' = [due EXCEPT ![call[c].t] = NotSet]
    /\ call' = [call EXCEPT ![c].done = TRUE, ![c].answer = due[call[c].t] # NotSet]
    /\ UNCHANGED now

Run(t) ==
    /\ due[t] \in 1..now
    /\ IF period[t] = 0 THEN due' = [due EXCEPT ![t] = NotSet]
       ELSE \E n \in 1..now : due' = [due EXCEPT ![t] = @ + n * period[t]]
    /\ UNCHANGED <<now, call>>

Next ==
    /\ \/ \E c \in Client : Begin(c) \/ Set(c) \/ Stop(c) \/ Return(c)
       \/ \E t \in T : Run(t)
       \/ now' > now /\ UNCHANGED <<due, call>>
    /\ UNCHANGED period

Spec == Init /\ [][Next]_vars
====
