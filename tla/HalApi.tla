------------------------------- MODULE HalApi -------------------------------
(* What the HAL promises the SDK (qcloud_iot_export_hasim.h): each SDK       *)
(* thread has at most one HAL call in progress, a call returns what the      *)
(* wrapper makes of one answer of its Java method (or of finding no method), *)
(* and nothing returns once the process has died.  JniBridge, which shows    *)
(* how a call attaches to the VM, finds the method and calls it, implements  *)
(* this specification.                                                       *)
EXTENDS HalTable, FiniteSets

CONSTANTS
  Threads,      \* the threads the SDK calls HAL functions from
  Slots,        \* the wrappers they call
  BufLens,      \* sizes of the buffers they pass
  JavaAnswers   \* ints and texts the Java methods can answer

ASSUME HalAssumption ==
  /\ Slots \subseteq Wrappers
  /\ BufLens \subseteq Nat
  /\ JavaAnswers \subseteq Answers
  /\ NoMethod \notin JavaAnswers

VARIABLES
  call,         \* per thread, the HAL call in progress or last finished
  dead          \* the process was killed

vars == <<call, dead>>

\* A call that has not returned has no outcome: the fields keep these values.
Pending(w, len) ==
  [st |-> "running", slot |-> w, len |-> len, ans |-> NoMethod,
   ret |-> 0, out |-> << >>]

NoCall == [Pending("none", 0) EXCEPT !.st = "never"]

Calls == {NoCall}
  \cup [st : {"running", "done"}, slot : Slots, len : BufLens,
        ans : Answers, ret : Int, out : Seq(Int)]

\* The values of the state.
TypeOK == /\ call \in [Threads -> Calls]
          /\ dead \in BOOLEAN

Init == /\ call = [t \in Threads |-> NoCall]
        /\ dead = FALSE

\* The SDK calls wrapper w from thread t.
Invoke(t, w, len) ==
  /\ ~dead
  /\ call[t].st # "running"
  /\ call' = [call EXCEPT ![t] = Pending(w, len)]
  /\ UNCHANGED dead

\* The call record once the upcall of call c has brought back ans.
Returned(c, ans) ==
  LET res == WrapperResult(c.slot, c.len, ans) IN
  [c EXCEPT !.st = "done", !.ans = ans, !.ret = res.ret, !.out = res.out]

Return(t, ans) ==
  /\ ~dead
  /\ call[t].st = "running"
  /\ Fits(call[t].slot, ans)
  /\ call' = [call EXCEPT ![t] = Returned(call[t], ans)]
  /\ UNCHANGED dead

\* Always possible here: which steps can kill the process is JniBridge's part.
Die == ~dead /\ dead' = TRUE /\ UNCHANGED call

Next ==
  \/ \E t \in Threads, w \in Slots, len \in BufLens : Invoke(t, w, len)
  \/ \E t \in Threads, ans \in JavaAnswers \cup {NoMethod} : Return(t, ans)
  \/ Die

Spec == Init /\ [][Next]_vars

-----------------------------------------------------------------------------
Finished == {t \in Threads : call[t].st = "done"}

\* A call that reports an error has left the caller's output alone: the SDK may
\* keep using what it stored there from the previous call.
OutputOnlyOnSuccess ==
  \A t \in Finished : call[t].ret < 0 => call[t].out = << >>

\* Every text a wrapper copies out of Java, to the caller's buffer or to a local
\* one, leaves room for its terminating NUL whatever its length; only the AT
\* answer of send_at_cmd, which no helper measures, can be too long for its
\* buffer.  (A call that copied too much may still return: see Die.)
TextFitsBuffer ==
  \A t \in Finished :
    Overruns(call[t].slot, call[t].len, call[t].ans)
      => call[t].slot = "send_at_cmd" /\ call[t].ans.n >= AtReplySize

\* A missing Java method is reported as an error by every wrapper but
\* get_iccid, which discards its helper's result.
MissingMethodReported ==
  \A t \in Finished :
    call[t].ans = NoMethod => call[t].ret < 0 \/ call[t].slot = "get_iccid"

\* Every signal strength of the telephony range (-113 to -51 dBm, or the +85
\* YuntuHal computes for "unknown") reaches the SDK as it is, although it is
\* negative like the error codes of the other wrappers.
DbmDelivered ==
  \A t \in Finished :
    call[t].slot = "get_dbm" /\ call[t].ans # NoMethod /\ call[t].ans.n >= -113
      => call[t].ret = 0 /\ call[t].out = <<call[t].ans.n>>

\* The entries that have an output parameter.
HasOutput(w) == w \notin Commands \cup Saves \cup {"send_at_cmd"}

\* qcloud_iot_export_hasim.h:53: a return value >= 0 is success, so the output
\* parameters of the call hold its result.
SuccessWritesOutput ==
  \A t \in Finished :
    HasOutput(call[t].slot) /\ call[t].ret >= 0 => call[t].out # << >>

\* The same, for the entries that hand the helper's text straight through and
\* the ones that store an int: only get_iccid (error dropped) and the two
\* entries that parse JSON can claim success with nothing stored.
SuccessWritesOutputElsewhere ==
  \A t \in Finished :
    /\ HasOutput(call[t].slot)
    /\ call[t].slot \notin JsonText \cup {"get_iccid"}
    /\ call[t].ret >= 0
    => call[t].out # << >>

\* readme.md:183-185: checkNetwork answers 0 for a network that works and
\* anything else for one that does not; the status the SDK reads is then true
\* exactly when the network works.
NetworkStatusTruthful ==
  \A t \in Finished :
    call[t].slot = "check_network" /\ call[t].ret >= 0
      => (call[t].out = <<1>> <=> call[t].ans.n = 0)
=============================================================================
