----------------------------- MODULE JniBridge ------------------------------
(* android_wrapper.cpp: how a HAL call made by an SDK thread becomes a call  *)
(* of a static Java method.  Every upcall reads the global class reference,  *)
(* attaches its thread to the VM, looks the method up by name, calls it,     *)
(* copies the answer and detaches again; the main thread may start the SDK   *)
(* (again) meanwhile, and a finished SDK loop tears down.  Undefined         *)
(* behaviour that ends the process is a crash with its cause; where the      *)
(* build may also survive it, both outcomes are steps.                       *)
EXTENDS HalTable, FiniteSets

CONSTANTS
  Threads,      \* the SDK's threads, its loop threads among them
  Slots,        \* the wrappers they call
  BufLens,      \* sizes of the buffers they pass
  JavaAnswers,  \* ints and texts the Java methods can answer
  Provided,     \* the static methods the Java class has
  Faults,       \* what may go wrong around the code, a subset of FaultKinds
  MaxStarts,    \* bound: calls of startYuntu
  NoRef         \* a NULL class reference

\* "attach": AttachCurrentThread fails; "globalRef": NewGlobalRef returns NULL;
\* "findClass": FindClass does; "thread": HAL_ThreadCreate fails; "exception": a
\* Java method throws; "nullText": it returns null; "runReturns":
\* QCLOUD_HASIM_RUN gives up.
FaultKinds == {"attach", "globalRef", "findClass", "thread", "exception",
               "nullText", "runReturns"}

ASSUME BridgeAssumption ==
  /\ Slots \subseteq Wrappers
  /\ BufLens \subseteq Nat
  /\ JavaAnswers \subseteq Answers
  /\ NoMethod \notin JavaAnswers
  /\ Provided \subseteq Methods
  /\ Faults \subseteq FaultKinds
  /\ MaxStarts \in Nat
  /\ NoRef \notin Nat

VARIABLES
  class_obj,    \* the global variable: NoRef or a global reference
  globals,      \* global references the VM keeps alive
  starts,       \* calls of YuntuStart so far; also names the references
  starting,     \* YuntuStart is between NewGlobalRef and HAL_ThreadCreate
  pc,           \* per SDK thread: where it is
  loop,         \* threads that run thd_fn
  attached,     \* threads attached to the VM
  throwing,     \* threads with a pending Java exception
  env,          \* per thread: the upcall's env pointer is not NULL
  cls,          \* per thread: the class reference the upcall has read
  call,         \* per thread: the HAL call in progress or last finished
  crash         \* "no", or what killed the process

vars == <<class_obj, globals, starts, starting, pc, loop, attached, throwing,
          env, cls, call, crash>>

sdkVars   == <<class_obj, globals, starts, starting>>
threadVars == <<pc, loop, attached, throwing, env, cls, call>>

Refs   == 1 .. MaxStarts
Causes == {"nullEnv", "staleClass", "nullText", "uncaught", "pendingCall",
           "exitAttached", "runReturned", "overrun"}

\* The record of a call, as in HalApi.
Pending(w, len) ==
  [st |-> "running", slot |-> w, len |-> len, ans |-> NoMethod,
   ret |-> 0, out |-> << >>]

NoCall == [Pending("none", 0) EXCEPT !.st = "never"]

Calls == {NoCall}
  \cup [st : {"running", "done"}, slot : Slots, len : BufLens,
        ans : Answers, ret : Int, out : Seq(Int)]

Returned(c, ans) ==
  LET res == WrapperResult(c.slot, c.len, ans) IN
  [c EXCEPT !.st = "done", !.ans = ans, !.ret = res.ret, !.out = res.out]

\* "off": not created or finished; "idle": between HAL calls; "entered": class
\* reference read; "attached": has an env; "nomethod": the lookup gave NULL;
\* "found": it gave a method; "java": in the Java method; the last three are
\* back from it, with an answer, an exception or a null text.
PCs == {"off", "idle", "entered", "attached", "nomethod", "found", "java",
        "answered", "threw", "nulltext"}

Upcalling(t) == pc[t] \notin {"off", "idle"}

Init ==
  /\ class_obj = NoRef /\ globals = {} /\ starts = 0 /\ starting = FALSE
  /\ pc = [t \in Threads |-> "off"]
  /\ loop = {} /\ attached = {} /\ throwing = {}
  /\ env = [t \in Threads |-> FALSE]
  /\ cls = [t \in Threads |-> NoRef]
  /\ call = [t \in Threads |-> NoCall]
  /\ crash = "no"

Alive == crash = "no"

Crash(cause) == crash' = cause /\ UNCHANGED <<sdkVars, threadVars>>

-----------------------------------------------------------------------------
\* The main thread: YuntuStart, called whenever the activity is created.

\* A bug: the local reference FindClass gave is stored without NewGlobalRef, so
\* class_obj names none of the global references.
YuntuStart_StoresLocalRef ==
  /\ Alive /\ ~starting /\ starts < MaxStarts
  /\ starts' = starts + 1
  /\ starting' = TRUE
  /\ class_obj' = 0
  /\ UNCHANGED <<globals, threadVars, crash>>

\* FindClass, whose failure comes back to onCreate as an exception nobody
\* catches, and NewGlobalRef; class_obj is overwritten, the reference an earlier
\* start stored there stays alive.
YuntuStart ==
  /\ Alive /\ ~starting /\ starts < MaxStarts
  /\ \/ "findClass" \in Faults /\ Crash("uncaught")
     \/ /\ starts' = starts + 1
        /\ starting' = TRUE
        /\ \/ "globalRef" \in Faults /\ class_obj' = NoRef /\ UNCHANGED globals
           \/ class_obj' = starts' /\ globals' = globals \cup {starts'}
        /\ UNCHANGED <<threadVars, crash>>

\* HAL_ThreadCreate(thd_fn); its result is dropped.
CreateLoop ==
  /\ Alive /\ starting
  /\ starting' = FALSE
  /\ \/ "thread" \in Faults /\ UNCHANGED threadVars
     \/ \E t \in Threads :
          /\ pc[t] = "off"
          /\ pc' = [pc EXCEPT ![t] = "idle"]
          /\ loop' = loop \cup {t}
          /\ UNCHANGED <<attached, throwing, env, cls, call>>
     \/ (\A t \in Threads : pc[t] # "off") /\ UNCHANGED threadVars
  /\ UNCHANGED <<class_obj, globals, starts, crash>>

-----------------------------------------------------------------------------
\* The SDK's side (closed source): its loop starts worker threads, which end.

SdkCreateThread(t) ==
  /\ Alive /\ pc[t] = "off"
  /\ \E l \in loop : pc[l] = "idle"
  /\ pc' = [pc EXCEPT ![t] = "idle"]
  /\ UNCHANGED <<sdkVars, loop, attached, throwing, env, cls, call, crash>>

\* A thread that ends attached makes the VM abort.
Exit(t) ==
  IF t \in attached THEN Crash("exitAttached")
  ELSE /\ pc' = [pc EXCEPT ![t] = "off"]
       /\ loop' = loop \ {t}
       /\ UNCHANGED <<sdkVars, attached, throwing, env, cls, call, crash>>

SdkThreadEnds(t) ==
  Alive /\ pc[t] = "idle" /\ t \notin loop /\ Exit(t)

\* A bug: thd_fn gets as far as DeleteGlobalRef and keeps the pointer.
TearDown_DeletesRef(t) ==
  /\ pc' = [pc EXCEPT ![t] = "off"]
  /\ loop' = loop \ {t}
  /\ globals' = globals \ {class_obj}
  /\ UNCHANGED <<class_obj, starts, starting, attached, throwing, env, cls, call, crash>>

\* QCLOUD_HASIM_RUN returns to thd_fn, which hands GetEnv a NULL pointer and
\* then dereferences it: the build crashes there or, taking the branch that
\* attaches and returns, ends the thread.  Neither reaches DeleteGlobalRef.
TearDown(t) == Exit(t)

RunReturns(t) ==
  /\ Alive /\ "runReturns" \in Faults
  /\ pc[t] = "idle" /\ t \in loop
  /\ Crash("runReturned") \/ TearDown(t)

-----------------------------------------------------------------------------
\* One upcall of thread t.

Step(t, to) == pc' = [pc EXCEPT ![t] = to]

\* A wrapper, its helper, and _get_method up to reading class_obj.
EnterWrapper(t, w, len) ==
  /\ Alive /\ pc[t] = "idle"
  /\ call' = [call EXCEPT ![t] = Pending(w, len)]
  /\ cls' = [cls EXCEPT ![t] = class_obj]
  /\ env' = [env EXCEPT ![t] = FALSE]
  /\ Step(t, IF class_obj = NoRef THEN "nomethod" ELSE "entered")
  /\ UNCHANGED <<sdkVars, loop, attached, throwing, crash>>

\* A bug: GetEnv is asked for JNI_VERSION_1_6, and a thread that kept its
\* attachment goes on with its old env and its pending exception.
EnvOfAttached_Served(t) ==
  /\ env' = [env EXCEPT ![t] = TRUE]
  /\ Step(t, "attached")
  /\ UNCHANGED <<sdkVars, loop, attached, throwing, cls, call, crash>>

\* GetEnv asks for version 0: on an attached thread it answers JNI_EVERSION and
\* leaves env NULL, which is then dereferenced.
EnvOfAttached(t) == Crash("nullEnv")

\* On a detached thread, AttachCurrentThread.
Attach(t) ==
  /\ attached' = attached \cup {t}
  /\ env' = [env EXCEPT ![t] = TRUE]
  /\ Step(t, "attached")
  /\ UNCHANGED <<sdkVars, loop, throwing, cls, call, crash>>

\* CHECK_NULL_WITH_RET(*pp_env, NULL)
AttachFailed(t) ==
  /\ Step(t, "nomethod")
  /\ UNCHANGED <<sdkVars, loop, attached, throwing, env, cls, call, crash>>

GetEnv(t) ==
  /\ Alive /\ pc[t] = "entered"
  /\ IF t \in attached THEN EnvOfAttached(t)
     ELSE Attach(t) \/ ("attach" \in Faults /\ AttachFailed(t))

\* GetStaticMethodID: a missing method is NULL and a pending NoSuchMethodError.
GetStaticMethodID(t) ==
  /\ Alive /\ pc[t] = "attached"
  /\ IF cls[t] \notin globals THEN Crash("staleClass")
     ELSE /\ IF HalMethod[call[t].slot] \in Provided
             THEN Step(t, "found") /\ UNCHANGED throwing
             ELSE Step(t, "nomethod") /\ throwing' = throwing \cup {t}
          /\ UNCHANGED <<sdkVars, loop, attached, env, cls, call, crash>>

\* The helper finds method_id NULL.  Types 3 and 4 have already made a Java
\* string from their argument, through an env that may be NULL or with an
\* exception pending.  Nobody detaches or clears the exception on this path.
ReturnNoMethod(t) ==
  /\ call' = [call EXCEPT ![t] = Returned(call[t], NoMethod)]
  /\ Step(t, "idle")
  /\ UNCHANGED <<sdkVars, loop, attached, throwing, env, cls, crash>>

MethodIsNull(t) ==
  /\ Alive /\ pc[t] = "nomethod"
  /\ IF ~TakesText(call[t].slot) THEN ReturnNoMethod(t)
     ELSE IF ~env[t] THEN Crash("nullEnv")
     ELSE ReturnNoMethod(t) \/ Crash("pendingCall")

\* A bug: the VM is asked again and again while another upcall runs.
CallStaticMethod_OneAtATime(t) ==
  /\ Alive /\ pc[t] = "found"
  /\ \A u \in Threads \ {t} : pc[u] # "found"
  /\ Step(t, "java")
  /\ UNCHANGED <<sdkVars, loop, attached, throwing, env, cls, call, crash>>

CallStaticMethod(t) ==
  /\ Alive /\ pc[t] = "found"
  /\ IF cls[t] \notin globals THEN Crash("staleClass")
     ELSE Step(t, "java") /\ UNCHANGED <<sdkVars, loop, attached, throwing,
                                         env, cls, call, crash>>

\* The Java method is over.
JavaReturns(t, ans) ==
  /\ Alive /\ pc[t] = "java" /\ Fits(call[t].slot, ans)
  /\ call' = [call EXCEPT ![t].ans = ans]
  /\ Step(t, "answered")
  /\ UNCHANGED <<sdkVars, loop, attached, throwing, env, cls, crash>>

JavaThrows(t) ==
  /\ Alive /\ pc[t] = "java" /\ "exception" \in Faults
  /\ throwing' = throwing \cup {t}
  /\ Step(t, "threw")
  /\ UNCHANGED <<sdkVars, loop, attached, env, cls, call, crash>>

JavaReturnsNull(t) ==
  /\ Alive /\ pc[t] = "java" /\ "nullText" \in Faults /\ ReturnsText(call[t].slot)
  /\ Step(t, "nulltext")
  /\ UNCHANGED <<sdkVars, loop, attached, throwing, env, cls, call, crash>>

\* A bug: the early return for a short buffer skips DetachCurrentThread.
ReturnAnswer_ShortBufferStaysAttached(t) ==
  LET c == Returned(call[t], call[t].ans) IN
  /\ call' = [call EXCEPT ![t] = c]
  /\ attached' = IF c.ret = QCLOUD_ERR_BUF_TOO_SHORT THEN attached ELSE attached \ {t}
  /\ env' = [env EXCEPT ![t] = FALSE]
  /\ Step(t, "idle")
  /\ UNCHANGED <<sdkVars, loop, throwing, cls, crash>>

\* A bug: an answer that does not fit is cut and returned as a success.
ReturnAnswer_HidesShortBuffer(t) ==
  LET c == Returned(call[t], call[t].ans) IN
  /\ call' = [call EXCEPT ![t] =
       IF c.ret = QCLOUD_ERR_BUF_TOO_SHORT THEN [c EXCEPT !.ret = c.len - 1] ELSE c]
  /\ attached' = attached \ {t}
  /\ env' = [env EXCEPT ![t] = FALSE]
  /\ Step(t, "idle")
  /\ UNCHANGED <<sdkVars, loop, throwing, cls, crash>>

\* DetachCurrentThread, the wrapper returns.
ReturnAnswer(t) ==
  /\ call' = [call EXCEPT ![t] = Returned(call[t], call[t].ans)]
  /\ attached' = attached \ {t}
  /\ env' = [env EXCEPT ![t] = FALSE]
  /\ Step(t, "idle")
  /\ UNCHANGED <<sdkVars, loop, throwing, cls, crash>>

\* The helper copies the answer; a copy that goes past the end of its buffer on
\* the stack may end the process, or go unnoticed.
Finish(t) ==
  /\ Alive /\ pc[t] = "answered"
  /\ \/ ReturnAnswer(t)
     \/ /\ Overruns(call[t].slot, call[t].len, call[t].ans)
        /\ Crash("overrun")

\* After an exception a text is NULL and strlen dereferences it; an int is
\* returned, and DetachCurrentThread reports the exception as uncaught.
FinishBadly(t) ==
  /\ Alive
  /\ \/ pc[t] = "nulltext" /\ Crash("nullText")
     \/ pc[t] = "threw"
        /\ Crash(IF ReturnsText(call[t].slot) THEN "nullText" ELSE "uncaught")

-----------------------------------------------------------------------------
Upcall(t) ==
  \/ GetEnv(t)
  \/ GetStaticMethodID(t)
  \/ MethodIsNull(t)
  \/ CallStaticMethod(t)
  \/ \E ans \in JavaAnswers : JavaReturns(t, ans)
  \/ JavaThrows(t)
  \/ JavaReturnsNull(t)
  \/ Finish(t)
  \/ FinishBadly(t)

Next ==
  \/ YuntuStart
  \/ CreateLoop
  \/ \E t \in Threads :
       \/ SdkCreateThread(t)
       \/ SdkThreadEnds(t)
       \/ RunReturns(t)
       \/ \E w \in Slots, len \in BufLens : EnterWrapper(t, w, len)
       \/ Upcall(t)

Spec == Init /\ [][Next]_vars

\* The scheduler runs every thread, and the Java methods of YuntuHal end: the
\* one that waits, checkNetwork, does so for three seconds at most.
Fairness == \A t \in Threads : WF_vars(Upcall(t))

FairSpec == Spec /\ Fairness

-----------------------------------------------------------------------------
\* The values of the state.
TypeOK ==
  /\ class_obj \in Refs \cup {NoRef} /\ globals \subseteq Refs
  /\ starts \in 0 .. MaxStarts /\ starting \in BOOLEAN
  /\ pc \in [Threads -> PCs]
  /\ loop \subseteq Threads /\ attached \subseteq Threads /\ throwing \subseteq Threads
  /\ env \in [Threads -> BOOLEAN]
  /\ cls \in [Threads -> Refs \cup {NoRef}]
  /\ call \in [Threads -> Calls]
  /\ crash \in Causes \cup {"no"}

\* Whatever starts, restarts and tear-downs run meanwhile, an upcall past
\* reading class_obj works with a global reference that is still alive: the
\* reference it read may have been replaced in class_obj, never deleted.
ClassRefLive ==
  /\ class_obj # NoRef => class_obj \in globals
  /\ \A t \in Threads :
       pc[t] \notin {"off", "idle", "nomethod"} => cls[t] \in globals

\* Every helper balances its attachment: an SDK thread is attached between HAL
\* calls only when a lookup failed on it, which also left an exception pending,
\* and that happens only if the Java class lacks a method of the table.
IdleDetached ==
  \A t \in attached :
    \/ Upcalling(t)
    \/ t \in throwing /\ \E w \in Slots : HalMethod[w] \notin Provided

\* A thread that kept its attachment, whatever call it is in now.
Leaked(t) == t \in attached \cap throwing /\ pc[t] \in {"idle", "entered", "nomethod"}

\* A NULL env is dereferenced in two ways only: by an upcall on a thread that
\* kept its attachment, or to convert a text argument after no env was got.
NullEnvExplained ==
  crash = "nullEnv" =>
    \E t \in Threads :
      \/ Leaked(t)
      \/ /\ pc[t] = "nomethod" /\ TakesText(call[t].slot)
         /\ Faults \cap {"attach", "globalRef"} # {}

\* The process died copying an AT answer that its local buffer cannot hold.
OverrunByAtAnswer ==
  /\ crash = "overrun"
  /\ \E t \in Threads : /\ pc[t] = "answered" /\ call[t].slot = "send_at_cmd"
                        /\ call[t].ans.n >= AtReplySize

\* With every method of the table present and nothing going wrong around the
\* code, no interleaving of restarts and upcalls kills the process: only an AT
\* answer of 256 bytes or more can.
CleanRunsSurvive ==
  Faults = {} /\ (\A w \in Slots : HalMethod[w] \in Provided)
    => Alive \/ OverrunByAtAnswer

\* A thread that kept its attachment never serves another upcall: its calls find
\* no method, or the process dies.
LeakedThreadDoomed ==
  [][\A t \in Threads : Leaked(t) => Leaked(t)' \/ ~Alive']_vars

\* A HAL call the SDK makes comes back, whatever the other threads do, unless
\* the process dies.
EveryCallReturns ==
  \A t \in Threads : call[t].st = "running" ~> (call[t].st = "done" \/ ~Alive)

\* What the SDK sees of the bridge: a call has no answer before it returns.
AbsCall(c) == IF c.st = "running" THEN [c EXCEPT !.ans = NoMethod] ELSE c

Hal == INSTANCE HalApi WITH call <- [t \in Threads |-> AbsCall(call[t])],
                            dead <- crash # "no"

\* The bridge keeps the HAL contract of HalApi through restarts, failed lookups,
\* failed attachments and crashes.
ImplementsHal == Hal!Spec

\* readme.md:19: the static methods of its YuntuHal class correspond one to one
\* to the HAL API, so a class made of them keeps the SDK served.
TemplateServes == Alive
=============================================================================
