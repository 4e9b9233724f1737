--------------------------- MODULE JniBridgeProofs --------------------------
(* The type invariant and the safety properties of JniBridge, for every set  *)
(* of threads, wrappers, provided methods, answers and faults.               *)
EXTENDS JniBridge, TLAPS

\* A missing method is possible at all.
SomeMissing == \E w \in Slots : HalMethod[w] \notin Provided

\* An attached thread that has no env of its own in this upcall kept the
\* attachment of an earlier one, together with the exception.
LeakInv ==
  \A t \in attached :
    pc[t] \in {"off", "idle", "entered", "nomethod"} => t \in throwing /\ SomeMissing

\* The call record of a thread is a pending one exactly inside an upcall, and
\* holds one of the wrapper's answers when Java has returned.
CallInv ==
  \A t \in Threads :
    /\ Upcalling(t) <=> call[t].st = "running"
    /\ Upcalling(t) => call[t] # NoCall
    /\ pc[t] = "answered" =>
         call[t].ans \in JavaAnswers /\ Fits(call[t].slot, call[t].ans)

IInv == TypeOK /\ ClassRefLive /\ LeakInv /\ CallInv

-----------------------------------------------------------------------------
\* What a wrapper returns is an int and a sequence of ints, whatever the answer.
LEMMA WrapperResultType ==
  ASSUME NEW w \in Wrappers, NEW len \in Nat, NEW ans \in Answers
  PROVE  WrapperResult(w, len, ans) \in Outcomes
<1>1. ans.n \in Int
  BY DEF Answers
<1>2. << >> \in Seq(Int) /\ \A n \in Int : <<n>> \in Seq(Int)
  OBVIOUS
<1>3. get_buffer_method_type1(len, ans) \in Outcomes
  BY <1>1, <1>2 DEF get_buffer_method_type1, Outcome, Outcomes,
     QCLOUD_ERR_FAILURE, QCLOUD_ERR_BUF_TOO_SHORT
<1>4. get_buffer_method_type1(JsonBufSize, ans) \in Outcomes
  BY <1>1, <1>2 DEF get_buffer_method_type1, Outcome, Outcomes,
     QCLOUD_ERR_FAILURE, QCLOUD_ERR_BUF_TOO_SHORT
<1>5. /\ get_int_method_type2(ans) \in Int
      /\ get_int_method_type4(ans) \in Int
      /\ get_buffer_method_type3(ans).ret \in Int
  BY <1>1 DEF get_int_method_type2, get_int_method_type4, get_buffer_method_type3,
     Outcome, QCLOUD_ERR_FAILURE, QCLOUD_RET_SUCCESS
<1>6. platform_ytcard_get_iccid(len, ans) \in Outcomes
  BY <1>3 DEF platform_ytcard_get_iccid, Outcome, Outcomes
<1>7. platform_ytcard_get_pair(ans) \in Outcomes
  BY <1>1, <1>2, <1>4 DEF platform_ytcard_get_pair, Outcome, Outcomes,
     QCLOUD_ERR_FAILURE, QCLOUD_ERR_BUF_TOO_SHORT, QCLOUD_RET_SUCCESS
<1>8. platform_ytcard_get_dbm(ans) \in Outcomes
  BY <1>2, <1>5 DEF platform_ytcard_get_dbm, Outcome, Outcomes, QCLOUD_ERR_FAILURE
<1>9. platform_ytcard_get_int(ans) \in Outcomes
  BY <1>2, <1>5 DEF platform_ytcard_get_int, Outcome, Outcomes
<1>10. platform_ytcard_get_ps_status(ans) \in Outcomes
  BY <1>2, <1>5 DEF platform_ytcard_get_ps_status, AsBool, Outcome, Outcomes
<1>11. platform_ytcard_check_network_status(ans) \in Outcomes
  BY <1>2, <1>5 DEF platform_ytcard_check_network_status, AsBool, Outcome, Outcomes,
     QCLOUD_RET_SUCCESS
<1>12. platform_ytcard_send_at_cmd(ans) \in Outcomes
  BY <1>2, <1>5 DEF platform_ytcard_send_at_cmd, Outcome, Outcomes, QCLOUD_ERR_FAILURE
<1>13. /\ Outcome(get_int_method_type2(ans), << >>) \in Outcomes
       /\ Outcome(get_int_method_type4(ans), << >>) \in Outcomes
  BY <1>2, <1>5 DEF Outcome, Outcomes
<1> QED
  BY <1>3, <1>6, <1>7, <1>8, <1>9, <1>10, <1>11, <1>12, <1>13
     DEF WrapperResult, Wrappers, PlainText, JsonText, IntValue, Commands, Saves

\* The helper of the text wrappers copies nothing that does not fit, so the one
\* copy that can go past the end of its buffer is the unmeasured one.
LEMMA OverrunIsAtAnswer ==
  ASSUME NEW w \in Wrappers, NEW len \in Nat, NEW ans \in Answers,
         Overruns(w, len, ans)
  PROVE  w = "send_at_cmd" /\ ans.n >= AtReplySize
<1> DEFINE room == Room(w, len)
           copy == WrapperCopy(w, len, ans)
<1>1. room \in Int /\ ans.n \in Int
  BY DEF Room, JsonBufSize, AtReplySize, Answers
<1>2. <<ans.n>>[1] = ans.n
  OBVIOUS
<1>3. copy # << >> /\ copy[1] >= room
  BY DEF Overruns
<1>4. Sig(w) # 1
  <2>1. SUFFICES ASSUME Sig(w) = 1 PROVE FALSE
    OBVIOUS
  <2>2. copy = get_buffer_method_type1(room, ans).out
    BY <2>1 DEF WrapperCopy
  <2>3. copy = << >> \/ (copy = <<ans.n>> /\ ~(ans.n >= room))
    BY <2>2 DEF get_buffer_method_type1, Outcome
  <2> HIDE DEF copy, room
  <2> QED
    BY <1>1, <1>2, <1>3, <2>3
<1>5. Sig(w) = 3
  BY <1>3, <1>4 DEF WrapperCopy
<1>6. w = "send_at_cmd"
  BY <1>5 DEF Sig, HalMethod, MethodSig, Wrappers, PlainText, JsonText, IntValue,
     Commands, Saves
<1>7. room = AtReplySize
  BY <1>6 DEF Room, JsonText
<1>8. copy = << >> \/ copy = <<ans.n>>
  BY <1>4, <1>5 DEF WrapperCopy, get_buffer_method_type3, Outcome
<1> HIDE DEF copy, room
<1> QED
  BY <1>2, <1>3, <1>6, <1>7, <1>8

\* A running call that returns becomes a finished one of the same wrapper.
LEMMA ReturnedType ==
  ASSUME NEW c \in Calls, c # NoCall, NEW ans \in Answers
  PROVE  Returned(c, ans) \in Calls /\ Returned(c, ans).st = "done"
<1>1. c \in [st : {"running", "done"}, slot : Slots, len : BufLens,
             ans : Answers, ret : Int, out : Seq(Int)]
  BY DEF Calls
<1>2. c.slot \in Wrappers /\ c.len \in Nat
  BY <1>1, BridgeAssumption
<1>3. WrapperResult(c.slot, c.len, ans) \in Outcomes
  BY <1>2, WrapperResultType
<1> DEFINE res == WrapperResult(c.slot, c.len, ans)
<1>4. res.ret \in Int /\ res.out \in Seq(Int)
  BY <1>3 DEF Outcomes
<1>5. Returned(c, ans) = [c EXCEPT !.st = "done", !.ans = ans, !.ret = res.ret, !.out = res.out]
  BY DEF Returned
<1> HIDE DEF res
<1> QED
  BY <1>1, <1>4, <1>5 DEF Calls

LEMMA NoMethodType == NoMethod \in Answers
BY DEF NoMethod, Answers, Bodies

LEMMA PendingType ==
  ASSUME NEW w \in Slots, NEW len \in BufLens
  PROVE  /\ Pending(w, len) \in Calls
         /\ Pending(w, len).st = "running"
         /\ Pending(w, len) # NoCall
<1>1. << >> \in Seq(Int)
  OBVIOUS
<1>2. NoCall.st = "never"
  BY DEF NoCall, Pending
<1> QED
  BY <1>1, <1>2, NoMethodType DEF Pending, Calls

\* Killing the process leaves everything but its cause alone.
LEMMA CrashPreserves ==
  ASSUME IInv, NEW cause \in Causes, Crash(cause)
  PROVE  IInv'
BY DEF IInv, TypeOK, ClassRefLive, LeakInv, CallInv, Upcalling, Crash, sdkVars, threadVars

-----------------------------------------------------------------------------
LEMMA InitIInv == Init => IInv
<1> SUFFICES ASSUME Init PROVE IInv
  OBVIOUS
<1>1. NoCall \in Calls /\ MaxStarts \in Nat
  BY BridgeAssumption DEF Calls
<1>2. TypeOK
  <2>1. pc \in [Threads -> PCs] /\ call \in [Threads -> Calls]
    BY <1>1 DEF Init, PCs
  <2>2. env \in [Threads -> BOOLEAN] /\ cls \in [Threads -> Refs \cup {NoRef}]
    BY DEF Init
  <2>3. starts \in 0 .. MaxStarts
    BY <1>1 DEF Init
  <2>4. starting \in BOOLEAN
    BY DEF Init
  <2> QED
    BY <2>1, <2>2, <2>3, <2>4 DEF Init, TypeOK
<1>3. ClassRefLive /\ LeakInv /\ CallInv
  <2>1. NoCall.st = "never"
    BY DEF NoCall, Pending
  <2> QED
    BY <2>1 DEF Init, ClassRefLive, LeakInv, CallInv, Upcalling
<1> QED
  BY <1>2, <1>3 DEF IInv

\* The main thread's two steps.
LEMMA StartPreserves ==
  ASSUME IInv, YuntuStart \/ CreateLoop
  PROVE  IInv'
<1>1. CASE YuntuStart
  <2>1. CASE Crash("uncaught")
    BY <2>1, CrashPreserves DEF Causes
  <2>2. CASE /\ starts' = starts + 1
             /\ starting' = TRUE
             /\ \/ class_obj' = NoRef /\ UNCHANGED globals
                \/ class_obj' = starts' /\ globals' = globals \cup {starts'}
             /\ UNCHANGED <<threadVars, crash>>
    <3>1. starts' \in Refs /\ starts' \in 0 .. MaxStarts /\ starts' # NoRef
      BY <1>1, <2>2, BridgeAssumption DEF IInv, TypeOK, YuntuStart, Refs
    <3>2. TypeOK'
      BY <2>2, <3>1 DEF IInv, TypeOK, threadVars
    <3>3. ClassRefLive'
      BY <2>2, <3>1 DEF IInv, ClassRefLive, threadVars
    <3>4. LeakInv' /\ CallInv'
      BY <2>2 DEF IInv, LeakInv, CallInv, Upcalling, threadVars
    <3> QED
      BY <3>2, <3>3, <3>4 DEF IInv
  <2> QED
    BY <1>1, <2>1, <2>2 DEF YuntuStart
<1>2. CASE CreateLoop
  <2>1. TypeOK'
    BY <1>2 DEF CreateLoop, IInv, TypeOK, PCs, threadVars
  <2>2. ClassRefLive'
    BY <1>2 DEF CreateLoop, IInv, TypeOK, ClassRefLive, threadVars
  <2>3. LeakInv'
    BY <1>2 DEF CreateLoop, IInv, TypeOK, LeakInv, threadVars
  <2>4. CallInv'
    BY <1>2 DEF CreateLoop, IInv, TypeOK, CallInv, Upcalling, threadVars
  <2> QED
    BY <2>1, <2>2, <2>3, <2>4 DEF IInv
<1> QED
  BY <1>1, <1>2

\* Threads that come and go.
LEMMA ThreadsPreserve ==
  ASSUME IInv, NEW t \in Threads,
         SdkCreateThread(t) \/ SdkThreadEnds(t) \/ RunReturns(t)
  PROVE  IInv'
<1>1. CASE SdkCreateThread(t)
  BY <1>1 DEF SdkCreateThread, IInv, TypeOK, PCs, ClassRefLive, LeakInv, CallInv,
     Upcalling, sdkVars
<1>2. ASSUME Exit(t), pc[t] = "idle" PROVE IInv'
  <2>1. CASE t \in attached
    BY <1>2, <2>1, CrashPreserves DEF Exit, Causes
  <2>2. CASE t \notin attached
    BY <1>2, <2>2 DEF Exit, IInv, TypeOK, PCs, ClassRefLive, LeakInv, CallInv,
       Upcalling, sdkVars
  <2> QED
    BY <2>1, <2>2
<1>3. CASE SdkThreadEnds(t)
  BY <1>2, <1>3 DEF SdkThreadEnds
<1>4. CASE RunReturns(t)
  <2>1. CASE Crash("runReturned")
    BY <2>1, CrashPreserves DEF Causes
  <2>2. CASE TearDown(t)
    BY <1>2, <1>4, <2>2 DEF RunReturns, TearDown
  <2> QED
    BY <1>4, <2>1, <2>2 DEF RunReturns
<1> QED
  BY <1>1, <1>3, <1>4

\* The SDK calls a wrapper.
LEMMA EnterPreserves ==
  ASSUME IInv, NEW t \in Threads, NEW w \in Slots, NEW len \in BufLens,
         EnterWrapper(t, w, len)
  PROVE  IInv'
<1> USE DEF EnterWrapper, Step, sdkVars
<1>1. TypeOK'
  BY PendingType DEF IInv, TypeOK, PCs
<1>2. ClassRefLive'
  BY DEF IInv, TypeOK, ClassRefLive
<1>3. LeakInv'
  BY DEF IInv, TypeOK, LeakInv
<1>4. CallInv'
  BY PendingType DEF IInv, TypeOK, CallInv, Upcalling
<1> QED
  BY <1>1, <1>2, <1>3, <1>4 DEF IInv

\* Getting an env for the upcall.
LEMMA GetEnvPreserves ==
  ASSUME IInv, NEW t \in Threads, GetEnv(t)
  PROVE  IInv'
<1>1. CASE t \in attached
  BY <1>1, CrashPreserves DEF GetEnv, EnvOfAttached, Causes
<1>2. CASE t \notin attached /\ (Attach(t) \/ AttachFailed(t))
  BY <1>2 DEF GetEnv, Attach, AttachFailed, Step, IInv, TypeOK, PCs, ClassRefLive,
     LeakInv, CallInv, Upcalling, sdkVars
<1> QED
  BY <1>1, <1>2 DEF GetEnv

\* Looking the method up by name.
LEMMA LookupPreserves ==
  ASSUME IInv, NEW t \in Threads, GetStaticMethodID(t)
  PROVE  IInv'
<1>1. CASE cls[t] \notin globals
  BY <1>1, CrashPreserves DEF GetStaticMethodID, Causes
<1>2. CASE cls[t] \in globals
  <2> USE <1>2 DEF GetStaticMethodID, Step, sdkVars
  <2>1. TypeOK' /\ ClassRefLive' /\ CallInv'
    BY DEF IInv, TypeOK, PCs, ClassRefLive, CallInv, Upcalling
  <2>2. call[t].slot \in Slots
    BY DEF IInv, TypeOK, CallInv, Upcalling, Calls
  <2>3. LeakInv'
    BY <2>2 DEF IInv, TypeOK, LeakInv, SomeMissing
  <2> QED
    BY <2>1, <2>3 DEF IInv
<1> QED
  BY <1>1, <1>2

\* The helper returns on a NULL method id.
LEMMA MethodIsNullPreserves ==
  ASSUME IInv, NEW t \in Threads, MethodIsNull(t)
  PROVE  IInv'
<1>1. CASE Crash("nullEnv") \/ Crash("pendingCall")
  BY <1>1, CrashPreserves DEF Causes
<1>2. CASE ReturnNoMethod(t)
  <2> USE <1>2 DEF ReturnNoMethod, Step, sdkVars
  <2>1. /\ Returned(call[t], NoMethod) \in Calls
        /\ Returned(call[t], NoMethod).st = "done"
    BY ReturnedType, NoMethodType DEF MethodIsNull, IInv, TypeOK, CallInv, Upcalling
  <2>2. TypeOK'
    BY <2>1 DEF IInv, TypeOK, PCs
  <2>3. ClassRefLive' /\ LeakInv'
    BY DEF MethodIsNull, IInv, TypeOK, ClassRefLive, LeakInv
  <2>4. CallInv'
    BY <2>1 DEF IInv, TypeOK, CallInv, Upcalling
  <2> QED
    BY <2>2, <2>3, <2>4 DEF IInv
<1> QED
  BY <1>1, <1>2 DEF MethodIsNull

\* The Java method is called and ends.
LEMMA JavaPreserves ==
  ASSUME IInv, NEW t \in Threads,
         \/ CallStaticMethod(t)
         \/ \E ans \in JavaAnswers : JavaReturns(t, ans)
         \/ JavaThrows(t)
         \/ JavaReturnsNull(t)
  PROVE  IInv'
<1>1. CASE CallStaticMethod(t)
  <2>1. CASE cls[t] \notin globals
    BY <1>1, <2>1, CrashPreserves DEF CallStaticMethod, Causes
  <2>2. CASE cls[t] \in globals
    BY <1>1, <2>2 DEF CallStaticMethod, Step, IInv, TypeOK, PCs, ClassRefLive,
       LeakInv, CallInv, Upcalling, sdkVars
  <2> QED
    BY <2>1, <2>2
<1>2. ASSUME NEW ans \in JavaAnswers, JavaReturns(t, ans) PROVE IInv'
  <2> USE <1>2 DEF JavaReturns, Step, sdkVars
  <2>1. /\ [call[t] EXCEPT !.ans = ans] \in Calls
        /\ [call[t] EXCEPT !.ans = ans].st = "running"
        /\ [call[t] EXCEPT !.ans = ans] # NoCall
    BY BridgeAssumption DEF IInv, TypeOK, CallInv, Upcalling, Calls, NoCall, Pending
  <2>2. call' = [call EXCEPT ![t] = [call[t] EXCEPT !.ans = ans]]
    BY DEF IInv, TypeOK
  <2>3. TypeOK'
    BY <2>1, <2>2 DEF IInv, TypeOK, PCs
  <2>4. CallInv'
    BY <2>1, <2>2 DEF IInv, TypeOK, CallInv, Upcalling
  <2>5. ClassRefLive' /\ LeakInv'
    BY DEF IInv, TypeOK, ClassRefLive, LeakInv
  <2> QED
    BY <2>3, <2>4, <2>5 DEF IInv
<1>3. CASE JavaThrows(t)
  BY <1>3 DEF JavaThrows, Step, IInv, TypeOK, PCs, ClassRefLive, LeakInv, CallInv,
     Upcalling, sdkVars
<1>4. CASE JavaReturnsNull(t)
  BY <1>4 DEF JavaReturnsNull, Step, IInv, TypeOK, PCs, ClassRefLive, LeakInv,
     CallInv, Upcalling, sdkVars
<1> QED
  BY <1>1, <1>2, <1>3, <1>4

\* The helper copies the answer and detaches, or finds an exception.
LEMMA FinishPreserves ==
  ASSUME IInv, NEW t \in Threads, Finish(t) \/ FinishBadly(t)
  PROVE  IInv'
<1>1. CASE Finish(t) /\ ReturnAnswer(t)
  <2> USE <1>1 DEF Finish, ReturnAnswer, Step, sdkVars
  <2>1. call[t].ans \in Answers
    BY NoMethodType DEF IInv, TypeOK, Calls, CallInv, Upcalling
  <2>2. /\ Returned(call[t], call[t].ans) \in Calls
        /\ Returned(call[t], call[t].ans).st = "done"
    BY <2>1, ReturnedType DEF IInv, TypeOK, CallInv, Upcalling
  <2>3. TypeOK'
    BY <2>2 DEF IInv, TypeOK, PCs
  <2>4. ClassRefLive' /\ LeakInv'
    BY DEF IInv, TypeOK, ClassRefLive, LeakInv
  <2>5. CallInv'
    BY <2>2 DEF IInv, TypeOK, CallInv, Upcalling
  <2> QED
    BY <2>3, <2>4, <2>5 DEF IInv
<1>2. CASE Crash("overrun") \/ FinishBadly(t)
  BY <1>2, CrashPreserves DEF FinishBadly, Causes
<1> QED
  BY <1>1, <1>2 DEF Finish

-----------------------------------------------------------------------------
\* IInv is inductive: one lemma per group of actions.
LEMMA NextIInv ==
  ASSUME IInv, [Next]_vars
  PROVE  IInv'
<1>1. CASE YuntuStart \/ CreateLoop
  BY <1>1, StartPreserves
<1>2. ASSUME NEW t \in Threads,
             \/ SdkCreateThread(t) \/ SdkThreadEnds(t) \/ RunReturns(t)
             \/ \E w \in Slots, len \in BufLens : EnterWrapper(t, w, len)
             \/ Upcall(t)
      PROVE  IInv'
  <2>1. CASE Upcall(t)
    BY <2>1, GetEnvPreserves, LookupPreserves, MethodIsNullPreserves, JavaPreserves,
       FinishPreserves DEF Upcall
  <2> QED
    BY <1>2, <2>1, ThreadsPreserve, EnterPreserves
<1>3. CASE UNCHANGED vars
  BY <1>3 DEF vars, IInv, TypeOK, ClassRefLive, LeakInv, CallInv, Upcalling
<1> QED
  BY <1>1, <1>2, <1>3 DEF Next

LEMMA AlwaysIInv == Spec => []IInv
BY InitIInv, NextIInv, PTL DEF Spec

\* Every reachable state has the declared types.
THEOREM TypeCorrect == Spec => []TypeOK
<1>1. IInv => TypeOK
  BY DEF IInv
<1> QED
  BY <1>1, AlwaysIInv, PTL

\* No interleaving of restarts, tear-downs and upcalls makes an upcall use a
\* class reference that was deleted.
THEOREM ClassRefAlwaysLive == Spec => []ClassRefLive
<1>1. IInv => ClassRefLive
  BY DEF IInv
<1> QED
  BY <1>1, AlwaysIInv, PTL

\* A thread is attached between HAL calls only after a lookup that failed on it.
THEOREM AttachmentsBalanced == Spec => []IdleDetached
<1>1. IInv => IdleDetached
  BY DEF IInv, TypeOK, PCs, LeakInv, SomeMissing, IdleDetached, Upcalling
<1> QED
  BY <1>1, AlwaysIInv, PTL
-----------------------------------------------------------------------------
\* Why an env may be NULL.

\* The class reference is missing while threads run only if NewGlobalRef failed,
\* an env is missing in an upcall only if that or the attachment did.
EnvInv ==
  /\ class_obj = NoRef /\ "globalRef" \notin Faults
       => ~starting /\ \A t \in Threads : pc[t] = "off"
  /\ \A t \in Threads : pc[t] = "attached" => env[t]
  /\ \A t \in Threads :
       pc[t] = "nomethod" /\ ~env[t] => Faults \cap {"attach", "globalRef"} # {}

NullEnvInv == IInv /\ EnvInv /\ NullEnvExplained

\* A crash that is explained keeps EnvInv and the explanation.
LEMMA CrashExplained ==
  ASSUME NullEnvInv, NEW cause \in Causes, Crash(cause), Alive,
         cause = "nullEnv" =>
           \E t \in Threads :
             \/ Leaked(t)
             \/ /\ pc[t] = "nomethod" /\ TakesText(call[t].slot)
                /\ Faults \cap {"attach", "globalRef"} # {}
  PROVE  EnvInv' /\ NullEnvExplained'
BY DEF NullEnvInv, EnvInv, NullEnvExplained, Crash, Leaked, sdkVars, threadVars

LEMMA NextNullEnv ==
  ASSUME NullEnvInv, [Next]_vars
  PROVE  EnvInv' /\ NullEnvExplained'
<1> USE DEF NullEnvInv, IInv, TypeOK, sdkVars, threadVars
\* A living process stays explained by not having crashed.
<1>0. ASSUME Alive, UNCHANGED crash PROVE NullEnvExplained'
  BY <1>0 DEF Alive, NullEnvExplained
<1>1. CASE YuntuStart
  <2>1. CASE Crash("uncaught")
    BY <1>1, <2>1, CrashExplained DEF YuntuStart, Causes
  <2>2. CASE UNCHANGED <<threadVars, crash>>
    BY <1>0, <1>1, <2>2, BridgeAssumption DEF YuntuStart, EnvInv, Refs, Crash
  <2> QED
    BY <1>1, <2>1, <2>2 DEF YuntuStart
<1>2. CASE CreateLoop
  BY <1>0, <1>2 DEF CreateLoop, EnvInv
<1>3. ASSUME NEW t \in Threads, SdkCreateThread(t) PROVE EnvInv' /\ NullEnvExplained'
  BY <1>0, <1>3 DEF SdkCreateThread, EnvInv
<1>4. ASSUME NEW t \in Threads, Exit(t), Alive, pc[t] = "idle"
      PROVE  EnvInv' /\ NullEnvExplained'
  <2>1. CASE t \in attached
    BY <1>4, <2>1, CrashExplained DEF Exit, Causes
  <2>2. CASE t \notin attached
    BY <1>0, <1>4, <2>2 DEF Exit, EnvInv
  <2> QED
    BY <2>1, <2>2
<1>5. ASSUME NEW t \in Threads, SdkThreadEnds(t) \/ RunReturns(t)
      PROVE  EnvInv' /\ NullEnvExplained'
  <2>1. CASE Alive /\ Crash("runReturned")
    BY <2>1, CrashExplained DEF Causes
  <2> QED
    BY <1>4, <1>5, <2>1 DEF SdkThreadEnds, RunReturns, TearDown
<1>6. ASSUME NEW t \in Threads, NEW w \in Slots, NEW len \in BufLens,
             EnterWrapper(t, w, len)
      PROVE  EnvInv' /\ NullEnvExplained'
  BY <1>0, <1>6 DEF EnterWrapper, Step, EnvInv
<1>7. ASSUME NEW t \in Threads, GetEnv(t) PROVE EnvInv' /\ NullEnvExplained'
  <2>1. CASE t \in attached
    <3>1. Leaked(t)
      BY <1>7, <2>1 DEF GetEnv, LeakInv, Leaked
    <3> QED
      BY <1>7, <2>1, <3>1, CrashExplained DEF GetEnv, EnvOfAttached, Causes
  <2>2. CASE t \notin attached
    BY <1>0, <1>7, <2>2 DEF GetEnv, Attach, AttachFailed, Step, EnvInv
  <2> QED
    BY <2>1, <2>2
<1>8. ASSUME NEW t \in Threads, GetStaticMethodID(t) PROVE EnvInv' /\ NullEnvExplained'
  <2>1. CASE cls[t] \notin globals
    BY <1>8, <2>1, CrashExplained DEF GetStaticMethodID, Causes
  <2>2. CASE cls[t] \in globals
    BY <1>0, <1>8, <2>2 DEF GetStaticMethodID, Step, EnvInv
  <2> QED
    BY <2>1, <2>2
<1>9. ASSUME NEW t \in Threads, MethodIsNull(t) PROVE EnvInv' /\ NullEnvExplained'
  <2>1. CASE ReturnNoMethod(t)
    BY <1>0, <1>9, <2>1 DEF MethodIsNull, ReturnNoMethod, Step, EnvInv
  <2>2. CASE Crash("pendingCall")
    BY <1>9, <2>2, CrashExplained DEF MethodIsNull, Causes
  <2>3. CASE TakesText(call[t].slot) /\ ~env[t] /\ Crash("nullEnv")
    BY <1>9, <2>3, CrashExplained DEF MethodIsNull, Causes, EnvInv
  <2> QED
    BY <1>9, <2>1, <2>2, <2>3 DEF MethodIsNull
<1>10. ASSUME NEW t \in Threads,
              \/ CallStaticMethod(t)
              \/ \E ans \in JavaAnswers : JavaReturns(t, ans)
              \/ JavaThrows(t) \/ JavaReturnsNull(t) \/ Finish(t) \/ FinishBadly(t)
       PROVE  EnvInv' /\ NullEnvExplained'
  <2>1. CASE Alive /\ \E c \in Causes \ {"nullEnv"} : Crash(c)
    BY <2>1, CrashExplained
  <2>2. CASE CallStaticMethod(t)
    BY <1>0, <2>1, <2>2 DEF CallStaticMethod, Step, EnvInv, Causes
  <2>3. CASE \/ \E ans \in JavaAnswers : JavaReturns(t, ans)
             \/ JavaThrows(t) \/ JavaReturnsNull(t)
    BY <1>0, <2>3 DEF JavaReturns, JavaThrows, JavaReturnsNull, Step, EnvInv
  <2>4. CASE FinishBadly(t)
    BY <2>1, <2>4 DEF FinishBadly, Causes
  <2>5. CASE Finish(t)
    <3>1. CASE ReturnAnswer(t)
      BY <1>0, <2>5, <3>1 DEF Finish, ReturnAnswer, Step, EnvInv
    <3>2. CASE Crash("overrun")
      BY <2>1, <2>5, <3>2 DEF Finish, Causes
    <3> QED
      BY <2>5, <3>1, <3>2 DEF Finish
  <2> QED
    BY <1>10, <2>2, <2>3, <2>4, <2>5
<1>11. CASE UNCHANGED vars
  BY <1>11 DEF vars, EnvInv, NullEnvExplained, Leaked
<1> QED
  BY <1>1, <1>2, <1>3, <1>5, <1>6, <1>7, <1>8, <1>9, <1>10, <1>11 DEF Next, Upcall

\* The only NULL env an upcall dereferences comes from a thread that kept its
\* attachment or from a text argument converted where no env was got.
THEOREM NullEnvAlwaysExplained == Spec => []NullEnvExplained
<1>1. Init => NullEnvInv
  BY InitIInv DEF Init, NullEnvInv, EnvInv, NullEnvExplained
<1>2. NullEnvInv /\ [Next]_vars => NullEnvInv'
  BY NextIInv, NextNullEnv DEF NullEnvInv
<1>3. NullEnvInv => NullEnvExplained
  BY DEF NullEnvInv
<1> QED
  BY <1>1, <1>2, <1>3, PTL DEF Spec
-----------------------------------------------------------------------------
\* A step of the bridge leaves a thread that kept its attachment where it was.
LEMMA LeakedStays ==
  ASSUME IInv, [Next]_vars, NEW t \in Threads, Leaked(t), Alive'
  PROVE  Leaked(t)'
<1> USE DEF IInv, TypeOK, Leaked, sdkVars, threadVars, Step
<1>1. ASSUME NEW c \in Causes, Crash(c) PROVE FALSE
  BY <1>1 DEF Crash, Causes, Alive
<1>2. CASE YuntuStart \/ CreateLoop
  BY <1>1, <1>2 DEF YuntuStart, CreateLoop, Causes
<1>3. ASSUME NEW u \in Threads, SdkCreateThread(u) \/ SdkThreadEnds(u) \/ RunReturns(u)
      PROVE  Leaked(t)'
  BY <1>1, <1>3 DEF SdkCreateThread, SdkThreadEnds, RunReturns, TearDown, Exit, Causes
<1>4. ASSUME NEW u \in Threads, NEW w \in Slots, NEW len \in BufLens,
             EnterWrapper(u, w, len)
      PROVE  Leaked(t)'
  BY <1>4 DEF EnterWrapper
<1>5. ASSUME NEW u \in Threads, GetEnv(u) \/ GetStaticMethodID(u) \/ MethodIsNull(u)
      PROVE  Leaked(t)'
  <2>1. CASE GetEnv(u)
    BY <1>1, <2>1 DEF GetEnv, EnvOfAttached, Attach, AttachFailed, Causes
  <2>2. CASE GetStaticMethodID(u)
    BY <1>1, <2>2 DEF GetStaticMethodID, Causes
  <2>3. CASE MethodIsNull(u)
    BY <1>1, <2>3 DEF MethodIsNull, ReturnNoMethod, Causes
  <2> QED
    BY <1>5, <2>1, <2>2, <2>3
<1>6. ASSUME NEW u \in Threads,
             \/ CallStaticMethod(u)
             \/ \E ans \in JavaAnswers : JavaReturns(u, ans)
             \/ JavaThrows(u) \/ JavaReturnsNull(u) \/ Finish(u) \/ FinishBadly(u)
      PROVE  Leaked(t)'
  BY <1>1, <1>6 DEF CallStaticMethod, JavaReturns, JavaThrows, JavaReturnsNull, Finish,
     ReturnAnswer, FinishBadly, Causes
<1>7. CASE UNCHANGED vars
  BY <1>7 DEF vars
<1> QED
  BY <1>2, <1>3, <1>4, <1>5, <1>6, <1>7 DEF Next, Upcall

\* A thread that kept its attachment is lost to the SDK until the process dies.
THEOREM LeakIsForever == Spec => LeakedThreadDoomed
<1>1. IInv /\ [Next]_vars
        => [\A t \in Threads : Leaked(t) => Leaked(t)' \/ ~Alive']_vars
  BY LeakedStays
<1> QED
  BY <1>1, AlwaysIInv, PTL DEF Spec, LeakedThreadDoomed

-----------------------------------------------------------------------------
\* Runs in which nothing goes wrong around the code.

Clean == Faults = {} /\ ~SomeMissing

\* The process lives, unless an AT answer overran its buffer, and no upcall is on
\* another path that ends badly.
CleanInv ==
  /\ Alive \/ OverrunByAtAnswer
  /\ \A t \in Threads : pc[t] \notin {"nomethod", "threw", "nulltext"}

LEMMA NextClean ==
  ASSUME Clean, NullEnvInv, CleanInv, [Next]_vars
  PROVE  CleanInv'
<1> DEFINE PathsEndWell == \A t \in Threads : pc[t] \notin {"nomethod", "threw", "nulltext"}
<1> USE DEF Clean, NullEnvInv, IInv, TypeOK, sdkVars, threadVars
<1>0. PathsEndWell /\ (Alive' /\ PathsEndWell' => CleanInv')
  BY DEF CleanInv
<1> HIDE DEF CleanInv
<1>1. CASE YuntuStart \/ CreateLoop
  BY <1>0, <1>1 DEF YuntuStart, CreateLoop, Alive
<1>2. ASSUME NEW t \in Threads, SdkCreateThread(t) PROVE CleanInv'
  BY <1>0, <1>2 DEF SdkCreateThread, Alive
\* A thread between upcalls is not attached, and so may end.
<1>3. ASSUME NEW t \in Threads, SdkThreadEnds(t) \/ RunReturns(t) PROVE CleanInv'
  BY <1>0, <1>3 DEF SdkThreadEnds, RunReturns, Exit, LeakInv, Alive
\* A thread runs only after a start that stored a class reference.
<1>4. ASSUME NEW t \in Threads, NEW w \in Slots, NEW len \in BufLens,
             EnterWrapper(t, w, len)
      PROVE  CleanInv'
  BY <1>0, <1>4 DEF EnterWrapper, Step, EnvInv, Alive
<1>5. ASSUME NEW t \in Threads, GetEnv(t) PROVE CleanInv'
  BY <1>0, <1>5 DEF GetEnv, Attach, Step, LeakInv, Alive
\* The class reference is alive, and the method is there.
<1>6. ASSUME NEW t \in Threads, GetStaticMethodID(t) PROVE CleanInv'
  <2>1. call[t].slot \in Slots
    BY <1>6 DEF GetStaticMethodID, CallInv, Upcalling, Calls
  <2>2. cls[t] \in globals /\ HalMethod[call[t].slot] \in Provided
    BY <1>6, <2>1 DEF GetStaticMethodID, ClassRefLive, SomeMissing
  <2> QED
    BY <1>0, <1>6, <2>2 DEF GetStaticMethodID, Step, Alive
<1>7. ASSUME NEW t \in Threads,
             \/ MethodIsNull(t) \/ CallStaticMethod(t)
             \/ \E ans \in JavaAnswers : JavaReturns(t, ans)
             \/ JavaThrows(t) \/ JavaReturnsNull(t) \/ FinishBadly(t)
      PROVE  CleanInv'
  BY <1>0, <1>7 DEF MethodIsNull, CallStaticMethod, JavaReturns, JavaThrows,
     JavaReturnsNull, FinishBadly, Step, ClassRefLive, Alive
\* The one copy that can end the process is that of an AT answer too long.
<1>8. ASSUME NEW t \in Threads, Finish(t) PROVE CleanInv'
  <2>1. CASE ReturnAnswer(t)
    BY <1>0, <1>8, <2>1 DEF Finish, ReturnAnswer, Step, Alive
  <2>2. CASE /\ Overruns(call[t].slot, call[t].len, call[t].ans)
             /\ Crash("overrun")
    <3>1. /\ call[t].slot \in Wrappers /\ call[t].len \in Nat
          /\ call[t].ans \in Answers
      BY <1>8, BridgeAssumption DEF Finish, CallInv, Upcalling, Calls
    <3>2. call[t].slot = "send_at_cmd" /\ call[t].ans.n >= AtReplySize
      BY <2>2, <3>1, OverrunIsAtAnswer
    <3>3. OverrunByAtAnswer'
      BY <1>8, <2>2, <3>2 DEF Finish, Crash, OverrunByAtAnswer
    <3> QED
      BY <1>0, <2>2, <3>3 DEF Crash, CleanInv
  <2> QED
    BY <1>8, <2>1, <2>2 DEF Finish
<1>9. CASE UNCHANGED vars
  BY <1>9 DEF vars, Alive, CleanInv, OverrunByAtAnswer
<1> QED
  BY <1>1, <1>2, <1>3, <1>4, <1>5, <1>6, <1>7, <1>8, <1>9 DEF Next, Upcall

\* With every method present and nothing failing, no interleaving of restarts
\* and upcalls kills the process, but an AT answer of 256 bytes or more can.
THEOREM CleanRunsAlwaysSurvive == Spec => []CleanRunsSurvive
<1> DEFINE Inv == NullEnvInv /\ (Clean => CleanInv)
<1>1. Init => Inv
  BY InitIInv DEF Init, NullEnvInv, EnvInv, NullEnvExplained, CleanInv, Alive
<1>2. Inv /\ [Next]_vars => Inv'
  BY NextIInv, NextNullEnv, NextClean DEF NullEnvInv, Clean, SomeMissing
<1>3. Inv => CleanRunsSurvive
  BY DEF Clean, CleanInv, SomeMissing, CleanRunsSurvive
<1> QED
  BY <1>1, <1>2, <1>3, PTL DEF Spec

-----------------------------------------------------------------------------
\* The bridge implements HalApi.

\* The copy of HalTable that HalApi brings along is the same table.
LEMMA SameTable ==
  /\ Hal!NoMethod = NoMethod
  /\ \A w, len, ans : Hal!WrapperResult(w, len, ans) = WrapperResult(w, len, ans)
  /\ \A w, ans : Hal!Fits(w, ans) = Fits(w, ans)
<1> USE DEF Hal!NoMethod, NoMethod
<1>1. \A w, len, ans : Hal!WrapperResult(w, len, ans) = WrapperResult(w, len, ans)
  <2> USE DEF Hal!Outcome, Outcome, Hal!QCLOUD_ERR_FAILURE, QCLOUD_ERR_FAILURE,
          Hal!QCLOUD_RET_SUCCESS, QCLOUD_RET_SUCCESS,
          Hal!QCLOUD_ERR_BUF_TOO_SHORT, QCLOUD_ERR_BUF_TOO_SHORT,
          Hal!get_int_method_type2, get_int_method_type2,
          Hal!get_buffer_method_type1, get_buffer_method_type1
  <2> QED
    BY DEF Hal!WrapperResult, WrapperResult,
       Hal!PlainText, PlainText, Hal!JsonText, JsonText, Hal!IntValue, IntValue,
       Hal!Commands, Commands, Hal!Saves, Saves, Hal!JsonBufSize, JsonBufSize,
       Hal!AsBool, AsBool,
       Hal!get_buffer_method_type3, get_buffer_method_type3,
       Hal!get_int_method_type4, get_int_method_type4,
       Hal!platform_ytcard_get_iccid, platform_ytcard_get_iccid,
       Hal!platform_ytcard_get_pair, platform_ytcard_get_pair,
       Hal!platform_ytcard_get_dbm, platform_ytcard_get_dbm,
       Hal!platform_ytcard_get_int, platform_ytcard_get_int,
       Hal!platform_ytcard_get_ps_status, platform_ytcard_get_ps_status,
       Hal!platform_ytcard_check_network_status, platform_ytcard_check_network_status,
       Hal!platform_ytcard_send_at_cmd, platform_ytcard_send_at_cmd
<1>2. \A w, ans : Hal!Fits(w, ans) = Fits(w, ans)
  BY DEF Hal!Fits, Fits, Hal!ReturnsText, ReturnsText, Hal!Sig, Sig,
     Hal!MethodSig, MethodSig, Hal!HalMethod, HalMethod
<1> QED
  BY <1>1, <1>2

\* A returned call has the same record as the abstract call returning.
LEMMA AbsReturned ==
  ASSUME NEW c \in Calls, c # NoCall, c.st = "running", NEW ans \in Answers
  PROVE  AbsCall(Returned(c, ans)) = Hal!Returned(AbsCall(c), ans)
<1>1. c \in [st : {"running", "done"}, slot : Slots, len : BufLens,
             ans : Answers, ret : Int, out : Seq(Int)]
  BY DEF Calls
<1> DEFINE res == WrapperResult(c.slot, c.len, ans)
           a == [c EXCEPT !.ans = NoMethod]
<1>2. AbsCall(Returned(c, ans)) = Returned(c, ans)
  BY ReturnedType DEF AbsCall
<1>3. AbsCall(c) = a
  BY DEF AbsCall
<1>4. a.slot = c.slot /\ a.len = c.len
  BY <1>1
<1>5. Returned(c, ans)
        = [c EXCEPT !.st = "done", !.ans = ans, !.ret = res.ret, !.out = res.out]
  BY DEF Returned
<1>6. Hal!Returned(a, ans)
        = [a EXCEPT !.st = "done", !.ans = ans, !.ret = res.ret, !.out = res.out]
  BY <1>4, SameTable DEF Hal!Returned
<1>7. [c EXCEPT !.st = "done", !.ans = ans, !.ret = res.ret, !.out = res.out]
        = [a EXCEPT !.st = "done", !.ans = ans, !.ret = res.ret, !.out = res.out]
  <2> HIDE DEF res
  <2> QED
    BY <1>1
<1> QED
  BY <1>2, <1>3, <1>5, <1>6, <1>7
\* Changing one thread's record changes one abstract record.
LEMMA AbsExcept ==
  ASSUME TypeOK, NEW t \in Threads, NEW c, call' = [call EXCEPT ![t] = c]
  PROVE  [u \in Threads |-> AbsCall(call'[u])]
           = [[u \in Threads |-> AbsCall(call[u])] EXCEPT ![t] = AbsCall(c)]
BY DEF TypeOK

\* A crash is the abstract death, whatever kills the process.
LEMMA CrashIsDeath ==
  ASSUME Alive, NEW cause \in Causes, Crash(cause)
  PROVE  Hal!Next
<1>1. ~(crash # "no") /\ (crash' # "no") = TRUE
  BY DEF Alive, Crash, Causes
<1>2. call' = call
  BY DEF Crash, threadVars
<1>3. Hal!Die
  BY <1>1, <1>2 DEF Hal!Die
<1> QED
  BY <1>3 DEF Hal!Next

\* A helper that gives up on a missing method, or one that finishes, is the
\* abstract return of its call.
LEMMA ReturnIsReturn ==
  ASSUME IInv, Alive, NEW t \in Threads, Upcalling(t),
         NEW ans \in JavaAnswers \cup {NoMethod}, Fits(call[t].slot, ans),
         call' = [call EXCEPT ![t] = Returned(call[t], ans)], UNCHANGED crash
  PROVE  Hal!Next
<1> DEFINE abs == [u \in Threads |-> AbsCall(call[u])]
<1>1. call[t] \in Calls /\ call[t] # NoCall /\ call[t].st = "running"
  BY DEF IInv, TypeOK, CallInv
<1>2. ans \in Answers
  BY BridgeAssumption, NoMethodType
<1>3. AbsCall(call[t]).st = "running" /\ AbsCall(call[t]).slot = call[t].slot
  BY <1>1 DEF AbsCall, Calls
<1>4. [u \in Threads |-> AbsCall(call'[u])]
        = [abs EXCEPT ![t] = Hal!Returned(abs[t], ans)]
  <2>1. AbsCall(Returned(call[t], ans)) = Hal!Returned(AbsCall(call[t]), ans)
    BY <1>1, <1>2, AbsReturned
  <2>2. abs[t] = AbsCall(call[t])
    OBVIOUS
  <2>3. [u \in Threads |-> AbsCall(call'[u])]
          = [abs EXCEPT ![t] = AbsCall(Returned(call[t], ans))]
    BY AbsExcept DEF IInv
  <2> QED
    BY <2>1, <2>2, <2>3
<1>5. Hal!Return(t, ans)
  BY <1>3, <1>4, SameTable DEF Hal!Return, Alive
<1> QED
  BY <1>5, SameTable DEF Hal!Next

\* Every step of the bridge is a step of HalApi or leaves its state alone.
LEMMA StepSimulation ==
  ASSUME IInv, [Next]_vars
  PROVE  [Hal!Next]_(Hal!vars)
<1> USE DEF sdkVars, threadVars, Step
<1>1. ASSUME UNCHANGED <<call, crash>> PROVE UNCHANGED Hal!vars
  BY <1>1 DEF Hal!vars
<1>2. CASE YuntuStart \/ CreateLoop
  BY <1>1, <1>2, CrashIsDeath DEF YuntuStart, CreateLoop, Causes
<1>3. ASSUME NEW t \in Threads, SdkCreateThread(t) \/ SdkThreadEnds(t) \/ RunReturns(t)
      PROVE  [Hal!Next]_(Hal!vars)
  BY <1>1, <1>3, CrashIsDeath
     DEF SdkCreateThread, SdkThreadEnds, RunReturns, TearDown, Exit, Causes
<1>4. ASSUME NEW t \in Threads, NEW w \in Slots, NEW len \in BufLens,
             EnterWrapper(t, w, len)
      PROVE  Hal!Next
  <2> DEFINE abs == [u \in Threads |-> AbsCall(call[u])]
  <2>1. AbsCall(Pending(w, len)) = Hal!Pending(w, len)
    BY SameTable DEF AbsCall, Pending, Hal!Pending
  <2>2. [u \in Threads |-> AbsCall(call'[u])]
          = [abs EXCEPT ![t] = Hal!Pending(w, len)]
    BY <1>4, <2>1, AbsExcept DEF EnterWrapper, IInv
  <2>3. AbsCall(call[t]).st # "running"
    BY <1>4 DEF EnterWrapper, IInv, CallInv, Upcalling, AbsCall
  <2>4. Hal!Invoke(t, w, len)
    BY <1>4, <2>2, <2>3 DEF Hal!Invoke, EnterWrapper, Alive
  <2> QED
    BY <2>4 DEF Hal!Next
<1>5. ASSUME NEW t \in Threads, GetEnv(t) \/ GetStaticMethodID(t)
      PROVE  [Hal!Next]_(Hal!vars)
  BY <1>1, <1>5, CrashIsDeath
     DEF GetEnv, EnvOfAttached, Attach, AttachFailed, GetStaticMethodID, Causes
<1>6. ASSUME NEW t \in Threads, MethodIsNull(t) PROVE Hal!Next
  <2>1. CASE ReturnNoMethod(t)
    BY <1>6, <2>1, ReturnIsReturn DEF MethodIsNull, ReturnNoMethod, Fits, Upcalling
  <2> QED
    BY <1>6, <2>1, CrashIsDeath DEF MethodIsNull, Causes
<1>7. ASSUME NEW t \in Threads, CallStaticMethod(t) \/ JavaThrows(t) \/ JavaReturnsNull(t)
      PROVE  [Hal!Next]_(Hal!vars)
  BY <1>1, <1>7, CrashIsDeath DEF CallStaticMethod, JavaThrows, JavaReturnsNull, Causes
<1>8. ASSUME NEW t \in Threads, NEW ans \in JavaAnswers, JavaReturns(t, ans)
      PROVE  UNCHANGED Hal!vars
  <2>1. call[t] \in Calls /\ call[t] # NoCall /\ call[t].st = "running"
    BY <1>8 DEF IInv, TypeOK, CallInv, Upcalling, JavaReturns
  <2>2. call' = [call EXCEPT ![t] = [call[t] EXCEPT !.ans = ans]]
    BY <1>8 DEF JavaReturns, IInv, TypeOK
  <2>3. AbsCall([call[t] EXCEPT !.ans = ans]) = AbsCall(call[t])
    BY <2>1 DEF AbsCall, Calls
  <2>4. [u \in Threads |-> AbsCall(call'[u])] = [u \in Threads |-> AbsCall(call[u])]
    BY <2>2, <2>3, AbsExcept DEF IInv
  <2> QED
    BY <1>8, <2>4 DEF Hal!vars, JavaReturns
<1>9. ASSUME NEW t \in Threads, Finish(t) PROVE Hal!Next
  <2>1. Crash("overrun") => Hal!Next
    BY <1>9, CrashIsDeath DEF Finish, Causes
  <2>2. call[t].ans \in JavaAnswers /\ Fits(call[t].slot, call[t].ans)
    BY <1>9 DEF Finish, IInv, CallInv
  <2>3. ReturnAnswer(t) => Hal!Next
    BY <1>9, <2>2, ReturnIsReturn DEF Finish, ReturnAnswer, Upcalling
  <2> QED
    BY <1>9, <2>1, <2>3 DEF Finish
<1>10. ASSUME NEW t \in Threads, FinishBadly(t) PROVE Hal!Next
  BY <1>10, CrashIsDeath DEF FinishBadly, Causes
<1>11. CASE UNCHANGED vars
  BY <1>1, <1>11 DEF vars
<1> QED
  BY <1>2, <1>3, <1>4, <1>5, <1>6, <1>7, <1>8, <1>9, <1>10, <1>11 DEF Next, Upcall

\* The bridge implements the HAL contract.
THEOREM BridgeImplementsHal == Spec => ImplementsHal
<1>1. Init => Hal!Init
  BY DEF Init, Hal!Init, AbsCall, NoCall, Pending, Hal!NoCall, Hal!Pending,
     NoMethod, Hal!NoMethod
<1>2. IInv /\ [Next]_vars => [Hal!Next]_(Hal!vars)
  BY StepSimulation
<1> QED
  BY <1>1, <1>2, AlwaysIInv, PTL DEF Spec, ImplementsHal, Hal!Spec
=============================================================================
