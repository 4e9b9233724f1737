------------------------------ MODULE ModemHal ------------------------------
(* YuntuHal.java and MainActivity.java: what the SDK's threads, the main     *)
(* thread with its message queue, and the modem do to teleManager and        *)
(* lastSignal.  The telephony service is external: a listener is told the    *)
(* present signal when it is registered and every change after that, by      *)
(* messages to the main thread.  Calls that only ask the telephony service   *)
(* are one call here, Ask.                                                   *)
EXTENDS Integers, Sequences, SequencesExt, FiniteSets

CONSTANTS
  Threads,     \* threads of the SDK
  Signals,     \* signal strengths, in asu
  MaxQueue,    \* bound: messages waiting for the main thread
  MaxListeners \* bound: listeners registered

ASSUME ModemAssumption == Signals \subseteq Nat /\ MaxQueue \in Nat /\ MaxListeners \in Nat

VARIABLES
  service,     \* there is a telephony service
  permission,  \* "no", "asked", "granted", "denied"
  started,     \* startYuntu has been called
  teleManager, \* the field is not null
  lastSignal,
  asu,         \* the signal now
  listeners,   \* how many are registered
  queue,       \* of the main thread
  sdk,         \* each thread: where it is, and what its last call answered
  crash        \* what ended the process, or "none"

vars == <<service, permission, started, teleManager, lastSignal, asu, listeners, queue,
          sdk, crash>>

Idle(answer) == [pc |-> "idle", answer |-> answer]

Init ==
  /\ service \in BOOLEAN /\ permission = "no" /\ started = FALSE
  /\ teleManager = FALSE /\ lastSignal = 0 /\ asu \in Signals /\ listeners = 0
  /\ queue = << >> /\ sdk = [t \in Threads |-> Idle("none")] /\ crash = "none"

Running == crash = "none"

Message(what, value) == [what |-> what, value |-> value]

Post(what) == Len(queue) < MaxQueue /\ queue' = Append(queue, Message(what, 0))

Dbm(a) == -113 + 2 * a

-----------------------------------------------------------------------------
\* The activity.

\* onCreate, also of an activity that is created again: asks for permission, and
\* starts the SDK without waiting for the answer.
onCreate ==
  /\ Running /\ started' = TRUE
  /\ \/ permission = "granted" /\ Post("granted") /\ UNCHANGED permission
     \/ permission # "granted" /\ permission' = "asked" /\ UNCHANGED queue
  /\ UNCHANGED <<service, teleManager, lastSignal, asu, listeners, sdk, crash>>

Answer(yes) ==
  /\ Running /\ permission = "asked"
  /\ IF yes THEN permission' = "granted" /\ Post("granted")
     ELSE permission' = "denied" /\ UNCHANGED queue
  /\ UNCHANGED <<service, started, teleManager, lastSignal, asu, listeners, sdk, crash>>

-----------------------------------------------------------------------------
\* The calls of the SDK.

\* A bug: the listener is posted before the field it uses is set.
StoreService_Later(t) ==
  /\ sdk[t].pc = "idle"
  /\ sdk' = [sdk EXCEPT ![t].pc = "post"]
  /\ Len(queue) < MaxQueue /\ queue' = Append(queue, Message("listen", 0))
  /\ UNCHANGED teleManager

\* deviceInit stores what the system gives for the telephony service.
StoreService(t) ==
  /\ sdk[t].pc = "idle"
  /\ teleManager' = service
  /\ sdk' = [sdk EXCEPT ![t] = IF service THEN [@ EXCEPT !.pc = "post"] ELSE Idle("failure")]
  /\ UNCHANGED queue

\* It then has the main thread register a listener.
PostListen(t) ==
  /\ sdk[t].pc = "post" /\ Post("listen")
  /\ sdk' = [sdk EXCEPT ![t] = Idle("success")]
  /\ UNCHANGED teleManager

deviceInit(t) ==
  /\ Running /\ started
  /\ StoreService(t) \/ PostListen(t)
  /\ UNCHANGED <<service, permission, started, lastSignal, asu, listeners, crash>>

Replies(t, answer) == sdk' = [sdk EXCEPT ![t] = Idle(answer)] /\ UNCHANGED crash

\* An exception nobody catches: on a thread of the SDK it stays pending until the
\* JNI bridge reads the text or detaches, which ends the process.
Throws(what) == crash' = what /\ UNCHANGED sdk

\* getImei answers a default while the field is null, the others dereference it.
AskNull(t, tested) ==
  /\ ~teleManager
  /\ IF tested THEN Replies(t, "default") ELSE Throws("null")

\* The service answers, or throws: it wants the permission, or another that the
\* app never asks for, or answers a null or too short a text for the method.
AskService(t) ==
  teleManager /\ (Replies(t, "value") \/ Throws("service"))

\* All calls of the SDK that ask the service: getImei, with its test, and others.
Ask(t, tested) ==
  /\ Running /\ started /\ sdk[t].pc = "idle"
  /\ AskNull(t, tested) \/ AskService(t)
  /\ UNCHANGED <<service, permission, started, teleManager, lastSignal, asu, listeners,
                 queue>>

getDbm(t) ==
  /\ Running /\ started /\ sdk[t].pc = "idle"
  /\ sdk' = [sdk EXCEPT ![t] = Idle(IF lastSignal = 0 THEN "nodbm" ELSE "dbm")]
  /\ UNCHANGED <<service, permission, started, teleManager, lastSignal, asu, listeners,
                 queue, crash>>

-----------------------------------------------------------------------------
\* The modem, and the main thread.

SignalChanges(a) ==
  /\ Running /\ a # asu /\ asu' = a
  /\ Len(queue) + listeners <= MaxQueue
  /\ queue' = queue \o [i \in 1 .. listeners |-> Message("signal", a)]
  /\ UNCHANGED <<service, permission, started, teleManager, lastSignal, listeners, sdk, crash>>

\* The main thread takes a message: onGranted asks for the ICCID without a test
\* of the field, the posted listen() registers one more listener, a listener
\* stores the signal.  What onGranted's question throws is caught by nobody.
Handle ==
  LET m == queue[1] IN
  /\ Running /\ queue # << >>
  /\ \/ /\ m.what = "granted" /\ queue' = Tail(queue)
        /\ crash' \in (IF teleManager THEN {"none", "service"} ELSE {"granted"})
        /\ UNCHANGED <<lastSignal, listeners>>
     \/ /\ m.what = "listen" /\ (teleManager => listeners < MaxListeners)
        /\ IF teleManager
           THEN /\ listeners' = listeners + 1
                /\ queue' = Append(Tail(queue), Message("signal", asu))
                /\ UNCHANGED <<crash, lastSignal>>
           ELSE crash' = "listen" /\ UNCHANGED <<listeners, queue, lastSignal>>
     \/ /\ m.what = "signal" /\ queue' = Tail(queue)
        /\ lastSignal' = Dbm(m.value)
        /\ UNCHANGED <<listeners, crash>>
  /\ UNCHANGED <<service, permission, started, teleManager, asu, sdk>>

Next ==
  \/ onCreate \/ \E yes \in BOOLEAN : Answer(yes)
  \/ \E t \in Threads : deviceInit(t) \/ getDbm(t) \/ \E tested \in BOOLEAN : Ask(t, tested)
  \/ \E a \in Signals : SignalChanges(a)
  \/ Handle

Spec == Init /\ [][Next]_vars

-----------------------------------------------------------------------------
\* However often the SDK and the activity are started again: a null field ends
\* the process in an SDK call or in onGranted, never after a deviceInit has
\* stored the service, and never in the listen() that deviceInit posts; only the
\* service itself, once stored, can still throw.  The signal is 0, no dBm value,
\* only until the first listener has been told; and with all messages handled it
\* is the present one, whichever of the listeners was told last.
ModemConsistent ==
  /\ crash \in {"null", "granted"} => ~teleManager
  /\ crash = "service" => teleManager
  /\ crash # "listen"
  /\ \A t \in Threads : sdk[t].answer = "success" => teleManager
  /\ listeners = 0 => lastSignal = 0
  /\ ~(\E i \in DOMAIN queue : queue[i].what = "signal") /\ listeners > 0
       => lastSignal = Dbm(asu)
=============================================================================
