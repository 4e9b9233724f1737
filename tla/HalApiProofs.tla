---------------------------- MODULE HalApiProofs ----------------------------
(* The promises of HalApi for every set of threads, wrappers, buffer sizes   *)
(* and Java answers.                                                         *)
EXTENDS HalApi, TLAPS

-----------------------------------------------------------------------------
\* What the wrappers of HalTable return.

\* What a wrapper returns is an int and a sequence of ints, whatever the answer.
LEMMA WrapperResultType ==
  ASSUME NEW w \in Wrappers, NEW len \in Nat, NEW ans \in Answers
  PROVE  WrapperResult(w, len, ans) \in Outcomes
<1>1. ans.n \in Int
  BY DEF Answers
<1>2. << >> \in Seq(Int) /\ \A n \in Int : <<n>> \in Seq(Int)
  OBVIOUS
<1>3. get_buffer_method_type1(len, ans) \in Outcomes
  BY <1>1, <1>2 DEF get_buffer_method_type1, Outcome, Outcomes,
     QCLOUD_ERR_FAILURE, QCLOUD_ERR_BUF_TOO_SHORT
<1>4. get_buffer_method_type1(JsonBufSize, ans) \in Outcomes
  BY <1>1, <1>2 DEF get_buffer_method_type1, Outcome, Outcomes,
     QCLOUD_ERR_FAILURE, QCLOUD_ERR_BUF_TOO_SHORT
<1>5. /\ get_int_method_type2(ans) \in Int
      /\ get_int_method_type4(ans) \in Int
      /\ get_buffer_method_type3(ans).ret \in Int
  BY <1>1 DEF get_int_method_type2, get_int_method_type4, get_buffer_method_type3,
     Outcome, QCLOUD_ERR_FAILURE, QCLOUD_RET_SUCCESS
<1>6. platform_ytcard_get_iccid(len, ans) \in Outcomes
  BY <1>3 DEF platform_ytcard_get_iccid, Outcome, Outcomes
<1>7. platform_ytcard_get_pair(ans) \in Outcomes
  BY <1>1, <1>2, <1>4 DEF platform_ytcard_get_pair, Outcome, Outcomes,
     QCLOUD_ERR_FAILURE, QCLOUD_ERR_BUF_TOO_SHORT, QCLOUD_RET_SUCCESS
<1>8. platform_ytcard_get_dbm(ans) \in Outcomes
  BY <1>2, <1>5 DEF platform_ytcard_get_dbm, Outcome, Outcomes, QCLOUD_ERR_FAILURE
<1>9. platform_ytcard_get_int(ans) \in Outcomes
  BY <1>2, <1>5 DEF platform_ytcard_get_int, Outcome, Outcomes
<1>10. platform_ytcard_get_ps_status(ans) \in Outcomes
  BY <1>2, <1>5 DEF platform_ytcard_get_ps_status, AsBool, Outcome, Outcomes
<1>11. platform_ytcard_check_network_status(ans) \in Outcomes
  BY <1>2, <1>5 DEF platform_ytcard_check_network_status, AsBool, Outcome, Outcomes,
     QCLOUD_RET_SUCCESS
<1>12. platform_ytcard_send_at_cmd(ans) \in Outcomes
  BY <1>2, <1>5 DEF platform_ytcard_send_at_cmd, Outcome, Outcomes, QCLOUD_ERR_FAILURE
<1>13. /\ Outcome(get_int_method_type2(ans), << >>) \in Outcomes
       /\ Outcome(get_int_method_type4(ans), << >>) \in Outcomes
  BY <1>2, <1>5 DEF Outcome, Outcomes
<1> QED
  BY <1>3, <1>6, <1>7, <1>8, <1>9, <1>10, <1>11, <1>12, <1>13
     DEF WrapperResult, Wrappers, PlainText, JsonText, IntValue, Commands, Saves

\* Which wrappers call a method that answers a text, from the two tables.
LEMMA TextWrappers ==
  /\ \A w \in PlainText \cup JsonText \cup {"get_iccid", "send_at_cmd"} : ReturnsText(w)
  /\ \A w \in IntValue \cup Commands \cup Saves
                \cup {"get_dbm", "get_ps_status", "check_network"} : ~ReturnsText(w)
<1>1. \A w \in PlainText : Sig(w) = 1
  BY DEF PlainText, Sig, HalMethod, MethodSig
<1>2. \A w \in JsonText : Sig(w) = 1
  BY DEF JsonText, Sig, HalMethod, MethodSig
<1>3. Sig("get_iccid") = 1 /\ Sig("send_at_cmd") = 3
  BY DEF Sig, HalMethod, MethodSig
<1>4. \A w \in IntValue : Sig(w) = 2
  BY DEF IntValue, Sig, HalMethod, MethodSig
<1>5. \A w \in Commands : Sig(w) = 2
  BY DEF Commands, Sig, HalMethod, MethodSig
<1>6. \A w \in Saves : Sig(w) = 4
  BY DEF Saves, Sig, HalMethod, MethodSig
<1>7. Sig("get_dbm") = 2 /\ Sig("get_ps_status") = 2 /\ Sig("check_network") = 4
  BY DEF Sig, HalMethod, MethodSig
<1> QED
  BY <1>1, <1>2, <1>3, <1>4, <1>5, <1>6, <1>7 DEF ReturnsText

-----------------------------------------------------------------------------
\* To show where the result of a wrapper lies, show it for each group.
LEMMA WrapperIn ==
  ASSUME NEW S, NEW w \in Wrappers, NEW len, NEW ans,
         w \in PlainText => get_buffer_method_type1(len, ans) \in S,
         w = "get_iccid" => platform_ytcard_get_iccid(len, ans) \in S,
         w \in JsonText => platform_ytcard_get_pair(ans) \in S,
         w = "get_dbm" => platform_ytcard_get_dbm(ans) \in S,
         w \in IntValue => platform_ytcard_get_int(ans) \in S,
         w = "get_ps_status" => platform_ytcard_get_ps_status(ans) \in S,
         w = "check_network" => platform_ytcard_check_network_status(ans) \in S,
         w = "send_at_cmd" => platform_ytcard_send_at_cmd(ans) \in S,
         w \in Commands => Outcome(get_int_method_type2(ans), << >>) \in S,
         w \in Saves => Outcome(get_int_method_type4(ans), << >>) \in S
  PROVE  WrapperResult(w, len, ans) \in S
BY DEF WrapperResult, Wrappers, PlainText, JsonText, IntValue, Commands, Saves

\* Which function the result of a wrapper is the result of.
LEMMA WrapperCases ==
  ASSUME NEW w \in Wrappers, NEW len, NEW ans
  PROVE  LET res == WrapperResult(w, len, ans) IN
         /\ w \in PlainText => res = get_buffer_method_type1(len, ans)
         /\ w = "get_iccid" => res = platform_ytcard_get_iccid(len, ans)
         /\ w \in JsonText => res = platform_ytcard_get_pair(ans)
         /\ w = "get_dbm" => res = platform_ytcard_get_dbm(ans)
         /\ w \in IntValue => res = platform_ytcard_get_int(ans)
         /\ w = "get_ps_status" => res = platform_ytcard_get_ps_status(ans)
         /\ w = "check_network" => res = platform_ytcard_check_network_status(ans)
         /\ w = "send_at_cmd" => res = platform_ytcard_send_at_cmd(ans)
         /\ w \in Commands => res = Outcome(get_int_method_type2(ans), << >>)
         /\ w \in Saves => res = Outcome(get_int_method_type4(ans), << >>)
<1>1. ASSUME w \in PlainText
      PROVE  WrapperResult(w, len, ans) \in {get_buffer_method_type1(len, ans)}
  <2>1. w \notin JsonText \cup IntValue \cup Commands \cup Saves
                  \cup {"get_iccid", "get_dbm", "get_ps_status", "check_network",
                        "send_at_cmd"}
    BY <1>1 DEF PlainText, JsonText, IntValue, Commands, Saves
  <2>2. get_buffer_method_type1(len, ans) \in {get_buffer_method_type1(len, ans)}
    OBVIOUS
  <2> QED
    BY <2>1, <2>2, WrapperIn
<1>2. ASSUME w = "get_iccid"
      PROVE  WrapperResult(w, len, ans) \in {platform_ytcard_get_iccid(len, ans)}
  BY <1>2, WrapperIn DEF PlainText, JsonText, IntValue, Commands, Saves
<1>3. ASSUME w \in JsonText
      PROVE  WrapperResult(w, len, ans) \in {platform_ytcard_get_pair(ans)}
  BY <1>3, WrapperIn DEF PlainText, JsonText, IntValue, Commands, Saves
<1>4. ASSUME w = "get_dbm"
      PROVE  WrapperResult(w, len, ans) \in {platform_ytcard_get_dbm(ans)}
  BY <1>4, WrapperIn DEF PlainText, JsonText, IntValue, Commands, Saves
<1>5. ASSUME w \in IntValue
      PROVE  WrapperResult(w, len, ans) \in {platform_ytcard_get_int(ans)}
  BY <1>5, WrapperIn DEF PlainText, JsonText, IntValue, Commands, Saves
<1>6. ASSUME w = "get_ps_status"
      PROVE  WrapperResult(w, len, ans) \in {platform_ytcard_get_ps_status(ans)}
  BY <1>6, WrapperIn DEF PlainText, JsonText, IntValue, Commands, Saves
<1>7. ASSUME w = "check_network"
      PROVE  WrapperResult(w, len, ans) \in {platform_ytcard_check_network_status(ans)}
  BY <1>7, WrapperIn DEF PlainText, JsonText, IntValue, Commands, Saves
<1>8. ASSUME w = "send_at_cmd"
      PROVE  WrapperResult(w, len, ans) \in {platform_ytcard_send_at_cmd(ans)}
  BY <1>8, WrapperIn DEF PlainText, JsonText, IntValue, Commands, Saves
<1>9. ASSUME w \in Commands
      PROVE  WrapperResult(w, len, ans) \in {Outcome(get_int_method_type2(ans), << >>)}
  BY <1>9, WrapperIn DEF PlainText, JsonText, IntValue, Commands, Saves
<1>10. ASSUME w \in Saves
      PROVE  WrapperResult(w, len, ans) \in {Outcome(get_int_method_type4(ans), << >>)}
  BY <1>10, WrapperIn DEF PlainText, JsonText, IntValue, Commands, Saves
<1> QED
  BY <1>1, <1>2, <1>3, <1>4, <1>5, <1>6, <1>7, <1>8, <1>9, <1>10

\* The helper of the text wrappers stores a text exactly when it returns its
\* length, and only one that leaves room for a NUL.
LEMMA Type1 ==
  ASSUME NEW len \in Int, NEW ans \in Answers, ans = NoMethod \/ ans.n >= 0
  PROVE  LET res == get_buffer_method_type1(len, ans) IN
         \/ res.ret < 0 /\ res.out = << >>
         \/ /\ ans # NoMethod /\ res.ret >= 0 /\ res.ret = ans.n
            /\ res.out = <<ans.n>> /\ ans.n < len
BY DEF get_buffer_method_type1, Outcome, Answers, QCLOUD_ERR_FAILURE,
       QCLOUD_ERR_BUF_TOO_SHORT

\* The wrappers that parse a text report a success only for outputs they stored.
LEMMA Pair ==
  ASSUME NEW ans \in Answers, ans = NoMethod \/ ans.n >= 0
  PROVE  LET res == platform_ytcard_get_pair(ans) IN
         /\ res.out # << >> => res.ret = 0 /\ res.out = <<ans.n>> /\ ans.n < JsonBufSize
         /\ ans = NoMethod => res.ret < 0
<1> DEFINE res1 == get_buffer_method_type1(JsonBufSize, ans)
<1>1. JsonBufSize \in Int
  BY DEF JsonBufSize
<1>2. \/ res1.ret < 0
      \/ ans # NoMethod /\ res1.ret >= 0 /\ ans.n < JsonBufSize
  BY <1>1, Type1
<1>3. res1.ret \in Int
  BY DEF get_buffer_method_type1, Outcome, Answers, QCLOUD_ERR_FAILURE,
         QCLOUD_ERR_BUF_TOO_SHORT
<1> HIDE DEF res1
<1> QED
  BY <1>2, <1>3 DEF platform_ytcard_get_pair, res1, Outcome, QCLOUD_ERR_FAILURE,
     QCLOUD_ERR_BUF_TOO_SHORT, QCLOUD_RET_SUCCESS

\* The wrappers of an int: an error leaves the output alone, a success stores it.
LEMMA IntWrappers ==
  ASSUME NEW w \in Wrappers \ (PlainText \cup JsonText \cup {"get_iccid"}),
         NEW len \in Nat, NEW ans \in Answers
  PROVE  LET res == WrapperResult(w, len, ans) IN
         /\ res.ret < 0 => res.out = << >>
         /\ res.ret >= 0 => \/ res.out # << >>
                            \/ w \in Commands \cup Saves \cup {"send_at_cmd"}
         /\ w = "send_at_cmd" => res.out = << >>
         /\ ans = NoMethod => res.ret < 0
<1>1. ans.n \in Int
  BY DEF Answers
<1>2. /\ get_int_method_type2(ans) \in Int
      /\ get_int_method_type4(ans) \in Int
      /\ ans = NoMethod => /\ get_int_method_type2(ans) = QCLOUD_ERR_FAILURE
                           /\ get_int_method_type4(ans) = QCLOUD_ERR_FAILURE
                           /\ get_buffer_method_type3(ans).ret = QCLOUD_ERR_FAILURE
  BY <1>1 DEF get_int_method_type2, get_int_method_type4, get_buffer_method_type3,
     Outcome, QCLOUD_ERR_FAILURE
<1>3. get_buffer_method_type3(ans).ret \in {QCLOUD_ERR_FAILURE, QCLOUD_RET_SUCCESS}
  BY DEF get_buffer_method_type3, Outcome
<1>4. \A x : <<x>> # << >>
  OBVIOUS
<1>5. CASE w = "get_dbm"
  <2>1. WrapperResult(w, len, ans) = platform_ytcard_get_dbm(ans)
    BY <1>5, WrapperCases
  <2> QED
    BY <1>2, <1>4, <1>5, <2>1 DEF platform_ytcard_get_dbm, Outcome, QCLOUD_ERR_FAILURE
<1>6. CASE w \in IntValue
  <2>1. WrapperResult(w, len, ans) = platform_ytcard_get_int(ans)
    BY <1>6, WrapperCases
  <2>2. w # "send_at_cmd"
    BY <1>6 DEF IntValue
  <2> QED
    BY <1>2, <1>4, <2>1, <2>2 DEF platform_ytcard_get_int, Outcome, QCLOUD_ERR_FAILURE
<1>7. CASE w = "get_ps_status"
  <2>1. WrapperResult(w, len, ans) = platform_ytcard_get_ps_status(ans)
    BY <1>7, WrapperCases
  <2>2. CASE get_int_method_type2(ans) < 0
    <3>1. WrapperResult(w, len, ans) = Outcome(get_int_method_type2(ans), << >>)
      BY <2>1, <2>2 DEF platform_ytcard_get_ps_status
    <3> QED
      BY <1>2, <1>7, <2>2, <3>1 DEF Outcome
  <2>3. CASE ~(get_int_method_type2(ans) < 0)
    <3>1. WrapperResult(w, len, ans) = Outcome(0, <<AsBool(get_int_method_type2(ans))>>)
      BY <2>1, <2>3 DEF platform_ytcard_get_ps_status, QCLOUD_RET_SUCCESS
    <3>2. ans # NoMethod
      BY <1>2, <2>3 DEF QCLOUD_ERR_FAILURE
    <3> QED
      BY <1>4, <1>7, <3>1, <3>2 DEF Outcome
  <2> QED
    BY <2>2, <2>3
<1>8. CASE w = "check_network"
  <2>1. WrapperResult(w, len, ans) = platform_ytcard_check_network_status(ans)
    BY <1>8, WrapperCases
  <2>2. CASE get_int_method_type4(ans) < 0
    <3>1. WrapperResult(w, len, ans) = Outcome(get_int_method_type4(ans), << >>)
      BY <2>1, <2>2 DEF platform_ytcard_check_network_status
    <3> QED
      BY <1>2, <1>8, <2>2, <3>1 DEF Outcome
  <2>3. CASE ~(get_int_method_type4(ans) < 0)
    <3>1. WrapperResult(w, len, ans) = Outcome(0, <<AsBool(get_int_method_type4(ans))>>)
      BY <2>1, <2>3 DEF platform_ytcard_check_network_status, QCLOUD_RET_SUCCESS
    <3>2. ans # NoMethod
      BY <1>2, <2>3 DEF QCLOUD_ERR_FAILURE
    <3> QED
      BY <1>4, <1>8, <3>1, <3>2 DEF Outcome
  <2> QED
    BY <2>2, <2>3
<1>9. CASE w = "send_at_cmd"
  <2>1. WrapperResult(w, len, ans) = platform_ytcard_send_at_cmd(ans)
    BY <1>9, WrapperCases
  <2> QED
    BY <1>2, <1>3, <1>9, <2>1 DEF platform_ytcard_send_at_cmd, Outcome,
       QCLOUD_ERR_FAILURE, QCLOUD_RET_SUCCESS
<1>10. CASE w \in Commands
  <2>1. WrapperResult(w, len, ans) = Outcome(get_int_method_type2(ans), << >>)
    BY <1>10, WrapperCases
  <2> QED
    BY <1>2, <1>10, <2>1 DEF Outcome, QCLOUD_ERR_FAILURE
<1>11. CASE w \in Saves
  <2>1. WrapperResult(w, len, ans) = Outcome(get_int_method_type4(ans), << >>)
    BY <1>11, WrapperCases
  <2> QED
    BY <1>2, <1>11, <2>1 DEF Outcome, QCLOUD_ERR_FAILURE
<1> QED
  BY <1>5, <1>6, <1>7, <1>8, <1>9, <1>10, <1>11 DEF Wrappers

-----------------------------------------------------------------------------
\* A finished call has the result its wrapper makes of an answer that fits it.
AnsweredInv ==
  \A t \in Finished :
    LET c == call[t] IN
    /\ c.slot \in Slots /\ c.len \in BufLens
    /\ c.ans \in Answers /\ Fits(c.slot, c.ans)
    /\ c.ret = WrapperResult(c.slot, c.len, c.ans).ret
    /\ c.out = WrapperResult(c.slot, c.len, c.ans).out

IInv == TypeOK /\ AnsweredInv

\* Starting and finishing calls keep the invariant.
LEMMA InitIInv == Init => IInv
<1> SUFFICES ASSUME Init PROVE IInv
  OBVIOUS
<1>1. NoCall.st = "never"
  BY DEF NoCall, Pending
<1> QED
  BY <1>1 DEF Init, IInv, TypeOK, AnsweredInv, Finished, Calls

LEMMA InvokeIInv ==
  ASSUME IInv, NEW t \in Threads, NEW w \in Slots, NEW len \in BufLens, Invoke(t, w, len)
  PROVE  IInv'
<1> DEFINE c == Pending(w, len)
<1>1. c.st = "running"
  BY DEF Pending
<1>2. NoMethod \in Answers /\ << >> \in Seq(Int)
  BY DEF NoMethod, Answers, Bodies
<1>3. c \in Calls
  BY <1>2 DEF Pending, Calls
<1> HIDE DEF c
<1>4. call' = [call EXCEPT ![t] = c] /\ dead' = dead /\ call \in [Threads -> Calls]
  BY DEF Invoke, IInv, TypeOK, c
<1>5. TypeOK'
  BY <1>3, <1>4 DEF IInv, TypeOK
<1>6. \A u \in Threads : call'[u].st = "done" => call'[u] = call[u] /\ u \in Finished
  BY <1>1, <1>4 DEF Finished
<1> QED
  BY <1>5, <1>6 DEF IInv, AnsweredInv, Finished

LEMMA ReturnIInv ==
  ASSUME IInv, NEW t \in Threads, NEW ans \in JavaAnswers \cup {NoMethod}, Return(t, ans)
  PROVE  IInv'
<1> DEFINE c == call[t]
           res == WrapperResult(c.slot, c.len, ans)
           r == Returned(c, ans)
<1>1. /\ call' = [call EXCEPT ![t] = r] /\ dead' = dead /\ call \in [Threads -> Calls]
      /\ c.st = "running" /\ Fits(c.slot, ans)
  BY DEF Return, IInv, TypeOK
<1>2. ans \in Answers
  BY HalAssumption DEF NoMethod, Answers, Bodies
<1>3. c # NoCall
  BY <1>1 DEF NoCall, Pending
<1>4. c \in [st : {"running", "done"}, slot : Slots, len : BufLens,
             ans : Answers, ret : Int, out : Seq(Int)]
  BY <1>1, <1>3 DEF Calls
<1>5. res \in Outcomes
  BY <1>2, <1>4, HalAssumption, WrapperResultType
<1> HIDE DEF res
<1>6. res.ret \in Int /\ res.out \in Seq(Int)
  BY <1>5 DEF Outcomes
<1>7. r = [c EXCEPT !.st = "done", !.ans = ans, !.ret = res.ret, !.out = res.out]
  BY DEF Returned, res
<1>8. /\ r \in Calls /\ r.slot \in Slots /\ r.len \in BufLens
      /\ r.slot = c.slot /\ r.len = c.len /\ r.ans = ans
      /\ r.ret = res.ret /\ r.out = res.out
  BY <1>2, <1>4, <1>6, <1>7 DEF Calls
<1> HIDE DEF r
<1>9. TypeOK'
  BY <1>1, <1>8 DEF IInv, TypeOK
<1>10. /\ call'[t] = r
       /\ \A u \in Threads \ {t} : call'[u] = call[u]
  BY <1>1
<1>11. AnsweredInv'
  <2> SUFFICES ASSUME NEW u \in Threads, call'[u].st = "done"
               PROVE  LET d == call'[u] IN
                      /\ d.slot \in Slots /\ d.len \in BufLens
                      /\ d.ans \in Answers /\ Fits(d.slot, d.ans)
                      /\ d.ret = WrapperResult(d.slot, d.len, d.ans).ret
                      /\ d.out = WrapperResult(d.slot, d.len, d.ans).out
    BY DEF AnsweredInv, Finished
  <2>1. CASE u = t
    BY <1>1, <1>2, <1>8, <1>10, <2>1 DEF res
  <2>2. CASE u # t
    BY <1>10, <2>2 DEF IInv, AnsweredInv, Finished
  <2> QED
    BY <2>1, <2>2
<1> QED
  BY <1>9, <1>11 DEF IInv

LEMMA NextIInv == IInv /\ [Next]_vars => IInv'
<1> SUFFICES ASSUME IInv, [Next]_vars PROVE IInv'
  OBVIOUS
<1>1. CASE \E t \in Threads, w \in Slots, len \in BufLens : Invoke(t, w, len)
  BY <1>1, InvokeIInv
<1>2. CASE \E t \in Threads, ans \in JavaAnswers \cup {NoMethod} : Return(t, ans)
  BY <1>2, ReturnIInv
<1>3. CASE Die
  BY <1>3 DEF Die, IInv, TypeOK, AnsweredInv, Finished
<1>4. CASE UNCHANGED vars
  BY <1>4 DEF vars, IInv, TypeOK, AnsweredInv, Finished
<1> QED
  BY <1>1, <1>2, <1>3, <1>4 DEF Next

LEMMA AlwaysIInv == Spec => []IInv
BY InitIInv, NextIInv, PTL DEF Spec

\* The calls of HalApi are well formed whatever the SDK calls and Java answers.
THEOREM CallsWellFormed == Spec => []TypeOK
<1>1. IInv => TypeOK
  BY DEF IInv
<1> QED
  BY <1>1, AlwaysIInv, PTL

-----------------------------------------------------------------------------
\* Java answers a text of a natural length to every wrapper of a text.
LEMMA TextAnswers ==
  ASSUME NEW w \in PlainText \cup JsonText \cup {"get_iccid", "send_at_cmd"},
         NEW ans \in Answers, Fits(w, ans)
  PROVE  ans = NoMethod \/ ans.n >= 0
BY TextWrappers DEF Fits

\* An outcome without a stored output or without an error: what every wrapper
\* promises of its return code and its output, get_iccid aside.
LEMMA ErrorXorOutput ==
  ASSUME NEW w \in Wrappers, NEW len \in Nat, NEW ans \in Answers, Fits(w, ans)
  PROVE  LET res == WrapperResult(w, len, ans) IN
         /\ res.ret < 0 => res.out = << >>
         /\ res.ret >= 0 /\ HasOutput(w) /\ w \notin JsonText \cup {"get_iccid"}
              => res.out # << >>
         /\ ans = NoMethod /\ w # "get_iccid" => res.ret < 0
<1> DEFINE res == WrapperResult(w, len, ans)
           r1 == get_buffer_method_type1(len, ans)
<1>1. CASE w \in PlainText
  <2>1. res = r1
    BY <1>1, WrapperCases
  <2>2. /\ \/ r1.ret < 0 /\ r1.out = << >>
           \/ ans # NoMethod /\ r1.ret >= 0 /\ r1.out = <<ans.n>>
    BY <1>1, TextAnswers, Type1
  <2>3. <<ans.n>> # << >>
    OBVIOUS
  <2>4. r1.ret \in Int
    BY DEF get_buffer_method_type1, Outcome, Answers, QCLOUD_ERR_FAILURE,
           QCLOUD_ERR_BUF_TOO_SHORT
  <2>5. w # "get_iccid"
    BY <1>1 DEF PlainText
  <2> HIDE DEF r1, res
  <2>6. /\ res.ret < 0 => res.out = << >>
        /\ res.ret >= 0 => res.out # << >>
        /\ ans = NoMethod => res.ret < 0
    BY <2>1, <2>2, <2>3, <2>4
  <2> QED
    BY <2>6 DEF res
<1>2. CASE w \in JsonText
  <2> DEFINE rp == platform_ytcard_get_pair(ans)
  <2>1. WrapperResult(w, len, ans) = rp
    BY <1>2, WrapperCases
  <2>2. /\ rp.out # << >> => rp.ret = 0
        /\ ans = NoMethod => rp.ret < 0
    BY <1>2, TextAnswers, Pair
  <2> HIDE DEF rp
  <2> QED
    BY <1>2, <2>1, <2>2
<1>3. CASE w = "get_iccid"
  <2>1. WrapperResult(w, len, ans) = platform_ytcard_get_iccid(len, ans)
    BY <1>3, WrapperCases
  <2> QED
    BY <1>3, <2>1 DEF platform_ytcard_get_iccid, Outcome
<1>4. CASE w \in Wrappers \ (PlainText \cup JsonText \cup {"get_iccid"})
  <2>1. /\ res.ret < 0 => res.out = << >>
        /\ res.ret >= 0 => \/ res.out # << >>
                           \/ w \in Commands \cup Saves \cup {"send_at_cmd"}
        /\ ans = NoMethod => res.ret < 0
    BY <1>4, IntWrappers
  <2> QED
    BY <2>1 DEF HasOutput
<1> QED
  BY <1>1, <1>2, <1>3, <1>4

\* What AnsweredInv says of a finished call, with the types the lemmas ask for.
LEMMA FinishedFacts ==
  ASSUME IInv, NEW t \in Finished
  PROVE  /\ call[t].slot \in Wrappers /\ call[t].len \in Nat
         /\ call[t].ans \in Answers /\ Fits(call[t].slot, call[t].ans)
         /\ call[t].ret = WrapperResult(call[t].slot, call[t].len, call[t].ans).ret
         /\ call[t].out = WrapperResult(call[t].slot, call[t].len, call[t].ans).out
BY HalAssumption DEF IInv, AnsweredInv

\* A call that reports an error has left the caller's output alone, whatever
\* Java answered and however long the caller's buffer is.
THEOREM ErrorsLeaveOutputs == Spec => []OutputOnlyOnSuccess
<1>1. IInv => OutputOnlyOnSuccess
  <2> SUFFICES ASSUME IInv, NEW t \in Finished, call[t].ret < 0
               PROVE  call[t].out = << >>
    BY DEF OutputOnlyOnSuccess
  <2> QED
    BY FinishedFacts, ErrorXorOutput
<1> QED
  BY <1>1, AlwaysIInv, PTL

\* Every wrapper but get_iccid reports a Java method it did not find.
THEOREM MissingMethodsReported == Spec => []MissingMethodReported
<1>1. IInv => MissingMethodReported
  <2> SUFFICES ASSUME IInv, NEW t \in Finished, call[t].ans = NoMethod,
                      call[t].slot # "get_iccid"
               PROVE  call[t].ret < 0
    BY DEF MissingMethodReported
  <2> QED
    BY FinishedFacts, ErrorXorOutput
<1> QED
  BY <1>1, AlwaysIInv, PTL

\* A success of an entry that neither parses JSON nor drops its helper's error
\* has stored an output.
THEOREM SuccessesStoreOutputs == Spec => []SuccessWritesOutputElsewhere
<1>1. IInv => SuccessWritesOutputElsewhere
  <2> SUFFICES ASSUME IInv, NEW t \in Finished, HasOutput(call[t].slot),
                      call[t].slot \notin JsonText \cup {"get_iccid"},
                      call[t].ret >= 0
               PROVE  call[t].out # << >>
    BY DEF SuccessWritesOutputElsewhere
  <2> QED
    BY FinishedFacts, ErrorXorOutput
<1> QED
  BY <1>1, AlwaysIInv, PTL

-----------------------------------------------------------------------------
\* The helper of the text wrappers copies nothing that does not fit, so the one
\* copy that can go past the end of its buffer is the unmeasured one.
LEMMA OverrunIsAtAnswer ==
  ASSUME NEW w \in Wrappers, NEW len \in Nat, NEW ans \in Answers,
         Overruns(w, len, ans)
  PROVE  w = "send_at_cmd" /\ ans.n >= AtReplySize
<1> DEFINE room == Room(w, len)
           copy == WrapperCopy(w, len, ans)
<1>1. room \in Int /\ ans.n \in Int
  BY DEF Room, JsonBufSize, AtReplySize, Answers
<1>2. <<ans.n>>[1] = ans.n
  OBVIOUS
<1>3. copy # << >> /\ copy[1] >= room
  BY DEF Overruns
<1>4. Sig(w) # 1
  <2>1. SUFFICES ASSUME Sig(w) = 1 PROVE FALSE
    OBVIOUS
  <2>2. copy = get_buffer_method_type1(room, ans).out
    BY <2>1 DEF WrapperCopy
  <2>3. copy = << >> \/ (copy = <<ans.n>> /\ ~(ans.n >= room))
    BY <2>2 DEF get_buffer_method_type1, Outcome
  <2> HIDE DEF copy, room
  <2> QED
    BY <1>1, <1>2, <1>3, <2>3
<1>5. Sig(w) = 3
  BY <1>3, <1>4 DEF WrapperCopy
<1>6. w = "send_at_cmd"
  BY <1>5 DEF Sig, HalMethod, MethodSig, Wrappers, PlainText, JsonText, IntValue,
     Commands, Saves
<1>7. room = AtReplySize
  BY <1>6 DEF Room, JsonText
<1>8. copy = << >> \/ copy = <<ans.n>>
  BY <1>4, <1>5 DEF WrapperCopy, get_buffer_method_type3, Outcome
<1> HIDE DEF copy, room
<1> QED
  BY <1>2, <1>3, <1>6, <1>7, <1>8

\* Every text copied out of Java fits its buffer, whatever its length and the
\* caller's size, but an AT answer longer than the local buffer of send_at_cmd.
THEOREM TextsFitBuffers == Spec => []TextFitsBuffer
<1>1. IInv => TextFitsBuffer
  BY FinishedFacts, OverrunIsAtAnswer DEF TextFitsBuffer
<1> QED
  BY <1>1, AlwaysIInv, PTL

\* Every signal strength of the telephony range is delivered as it is.
THEOREM DbmAlwaysDelivered == Spec => []DbmDelivered
<1>1. ASSUME NEW len, NEW ans \in Answers, ans # NoMethod, ans.n >= -113
      PROVE  /\ WrapperResult("get_dbm", len, ans).ret = 0
             /\ WrapperResult("get_dbm", len, ans).out = <<ans.n>>
  <2>1. WrapperResult("get_dbm", len, ans) = platform_ytcard_get_dbm(ans)
    BY WrapperCases DEF Wrappers
  <2>2. ans.n \in Int
    BY DEF Answers
  <2> QED
    BY <1>1, <2>1, <2>2 DEF platform_ytcard_get_dbm, get_int_method_type2, Outcome
<1>2. IInv => DbmDelivered
  BY <1>1, FinishedFacts DEF DbmDelivered
<1> QED
  BY <1>2, AlwaysIInv, PTL
=============================================================================
