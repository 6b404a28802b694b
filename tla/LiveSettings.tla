------------------------------ MODULE LiveSettings ------------------------------
(***************************************************************************)
(* Properties of the running pipeline's elements, set over the control     *)
(* server.  Each connection has a thread, which waits while the main loop  *)
(* sets the property, pauses, waits while the main loop reads it again,    *)
(* and sets it anew when it did not stick.  Nothing keeps two of them from *)
(* setting the same property.                                              *)
(*                                                                         *)
(* Every request sets a value of its own; the property has the value of    *)
(* the request that set it last, and 0 at first.                           *)
(***************************************************************************)
EXTENDS Naturals, Sequences

CONSTANTS
  Connection,   \* threads of the control server
  MaxRequests,  \* bound: requests
  MaxRetries,   \* max_retries
  Slow          \* the main loop may take longer than a thread waits

Request == 1 .. MaxRequests
Call == [of : Request, attempt : 1 .. MaxRetries, what : {"set", "verify"}]

VARIABLES
  value,     \* of the property
  requests,  \* how many there were
  thread,    \* the request a thread is on (0: none), its attempt, and where it is
  outcome,   \* what the callback it waits for has left: "none", "failed", or a value
  calls,     \* callbacks that the main loop has still to make
  looping,   \* the main loop runs
  answer     \* of each request

vars == <<value, requests, thread, outcome, calls, looping, answer>>

Idle == [of |-> 0, attempt |-> 1, at |-> "idle"]
Unset == MaxRequests + 1
Failed == MaxRequests + 2

TypeOK ==
  /\ value \in Request \cup {0} /\ requests \in 0 .. MaxRequests
  /\ thread \in [Connection -> [of : Request \cup {0}, attempt : 1 .. MaxRetries,
                                at : {"idle", "set", "setting", "verify", "verifying"}]]
  /\ outcome \in [Connection -> 0 .. Failed]
  /\ calls \in Seq(Call) /\ looping \in BOOLEAN
  /\ answer \in [Request -> {"none", "success", "error"}]

Init ==
  /\ value = 0 /\ requests = 0
  /\ thread = [c \in Connection |-> Idle] /\ outcome = [c \in Connection |-> Unset]
  /\ calls = <<>> /\ looping = TRUE /\ answer = [r \in Request |-> "none"]

-----------------------------------------------------------------------------
(* The threads of the connections *)

_handle_set(c) ==
  /\ thread[c].at = "idle" /\ requests < MaxRequests
  /\ requests' = requests + 1
  /\ thread' = [thread EXCEPT ![c] = [of |-> requests', attempt |-> 1, at |-> "set"]]
  /\ UNCHANGED <<value, outcome, calls, looping, answer>>

(* idle_add, with a result of its own for each call: one that comes later  *)
(* than it is waited for leaves its result where nobody looks.             *)
IdleAdd(c, what, at) ==
  /\ calls' = Append(calls, [of |-> thread[c].of, attempt |-> thread[c].attempt, what |-> what])
  /\ outcome' = [outcome EXCEPT ![c] = Unset]
  /\ thread' = [thread EXCEPT ![c].at = at]
  /\ UNCHANGED <<value, requests, looping, answer>>

AskSet(c) == thread[c].at = "set" /\ IdleAdd(c, "set", "setting")
AskVerify(c) == thread[c].at = "verify" /\ IdleAdd(c, "verify", "verifying")

Reply(c, status) ==
  /\ answer' = [answer EXCEPT ![thread[c].of] = status]
  /\ thread' = [thread EXCEPT ![c] = Idle]

TimedOut(c) == outcome[c] = Unset /\ (Slow \/ ~looping)

(* The callback has set it, or has failed, or is not waited for any longer. *)
SetDone(c) ==
  /\ thread[c].at = "setting"
  /\ \/ /\ outcome[c] \in Request
        /\ thread' = [thread EXCEPT ![c].at = "verify"] /\ UNCHANGED answer
     \/ /\ outcome[c] = Failed \/ TimedOut(c)
        /\ Reply(c, "error")
  /\ UNCHANGED <<value, requests, outcome, calls, looping>>

VerifyDone_Waiting(c) ==
  /\ thread[c].at = "verifying" /\ outcome[c] # Unset
  /\ IF outcome[c] = thread[c].of THEN Reply(c, "success")
     ELSE IF thread[c].attempt = MaxRetries THEN Reply(c, "error")
     ELSE /\ thread' = [thread EXCEPT ![c].at = "set", ![c].attempt = @ + 1]
          /\ UNCHANGED answer
  /\ UNCHANGED <<value, requests, outcome, calls, looping>>

VerifyDone(c) ==
  /\ thread[c].at = "verifying" /\ (outcome[c] # Unset \/ TimedOut(c))
  /\ IF outcome[c] = thread[c].of THEN Reply(c, "success")
     ELSE IF thread[c].attempt = MaxRetries THEN Reply(c, "error")
     ELSE /\ thread' = [thread EXCEPT ![c].at = "set", ![c].attempt = @ + 1]
          /\ UNCHANGED answer
  /\ UNCHANGED <<value, requests, outcome, calls, looping>>

-----------------------------------------------------------------------------
(* The main loop *)

(* Whoever waits for this very call *)
Waits(c, call) ==
  /\ thread[c].of = call.of /\ thread[c].attempt = call.attempt
  /\ thread[c].at = IF call.what = "set" THEN "setting" ELSE "verifying"

Leaves(call, o) == outcome' = [c \in Connection |-> IF Waits(c, call) THEN o ELSE outcome[c]]

(* The element takes the value, or keeps the one it has, or refuses it.    *)
_do_set(call) ==
  /\ call.what = "set"
  /\ \/ value' \in {call.of, value} /\ Leaves(call, call.of)
     \/ UNCHANGED value /\ Leaves(call, Failed)

_do_verify(call) == call.what = "verify" /\ UNCHANGED value /\ Leaves(call, value)

Dispatch ==
  /\ looping /\ calls # <<>> /\ calls' = Tail(calls)
  /\ _do_set(Head(calls)) \/ _do_verify(Head(calls))
  /\ UNCHANGED <<requests, thread, looping, answer>>

Quit ==
  /\ looping /\ looping' = FALSE
  /\ UNCHANGED <<value, requests, thread, outcome, calls, answer>>

-----------------------------------------------------------------------------
Serve(c) == AskSet(c) \/ AskVerify(c) \/ SetDone(c) \/ VerifyDone(c)
Next == Dispatch \/ Quit \/ \E c \in Connection : _handle_set(c) \/ Serve(c)

Spec == Init /\ [][Next]_vars
FairSpec == Spec /\ WF_vars(Dispatch) /\ \A c \in Connection : WF_vars(Serve(c))

-----------------------------------------------------------------------------
(* Once nobody is at it, the property has the value of a request that was  *)
(* answered with success, and never that of one that was answered with an  *)
(* error: also when two connections set it in turn and undo each other,    *)
(* and values do not stick.  A main loop that is slower than the threads   *)
(* wait, or has ended, violates it: it sets what has been given up.        *)
KeptIsConfirmed ==
  looping /\ calls = <<>> /\ (\A c \in Connection : thread[c].at = "idle") =>
    value = 0 \/ answer[value] = "success"

(* Every request is answered, also when the main loop ends before it has   *)
(* called back.                                                            *)
SetIsAnswered == \A r \in Request : (requests >= r) ~> (answer[r] # "none")
=============================================================================
