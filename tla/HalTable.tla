------------------------------ MODULE HalTable ------------------------------
(* The HAL wrappers of android_wrapper.cpp as pure operators: the dispatch   *)
(* table from HAL entry to Java method and JNI signature, the four helpers   *)
(* that turn what Java answered into a C result, and the post-processing of  *)
(* each platform_ytcard_* function.  What a wrapper leaves behind is its     *)
(* return code and what it stored through its output pointer: <<>> for an    *)
(* output it did not touch, <<v>> for a stored v.  A text is known by its    *)
(* length and by its body, the only things the wrappers tell apart.          *)
EXTENDS Integers, Sequences

QCLOUD_RET_SUCCESS       == 0
QCLOUD_ERR_FAILURE       == -1001
QCLOUD_ERR_BUF_TOO_SHORT == -119

\* sizeof(cell_info), sizeof(loc_info)
JsonBufSize == 256

\* sizeof(at_reply), the local buffer of send_at_cmd
AtReplySize == 256

\* HAL entry -> the Java method its wrapper names.
HalMethod ==
  [ get_imei      |-> "getImei",      get_iccid       |-> "getICCID",
    get_imsi      |-> "getIMSI",      get_lac_cellid  |-> "getCellid",
    get_lon_lat   |-> "getCellid",    device_init     |-> "deviceInit",
    auto_dial_up  |-> "autoDialUp",   reset_modem     |-> "resetModem",
    get_dbm       |-> "getDbm",       get_operator    |-> "getOperator",
    get_vendor    |-> "getNetworkVendor", get_mode    |-> "getNetworkMode",
    get_ps_status |-> "getPsStatus",  get_delay       |-> "getNetworkDelay",
    check_network |-> "checkNetwork", config_save     |-> "saveConfig",
    config_read   |-> "readConfig",   strategy_save   |-> "saveStrategy",
    strategy_read |-> "readStrategy", send_at_cmd     |-> "sendATCmd" ]

\* The wrappers by what they do with their helper's result.
PlainText == {"get_imei", "get_imsi", "config_read", "strategy_read"}
JsonText  == {"get_lac_cellid", "get_lon_lat"}
IntValue  == {"get_operator", "get_mode", "get_vendor", "get_delay"}
Commands  == {"auto_dial_up", "reset_modem", "device_init"}
Saves     == {"config_save", "strategy_save"}

Wrappers == PlainText \cup JsonText \cup IntValue \cup Commands \cup Saves
  \cup {"get_iccid", "get_dbm", "get_ps_status", "check_network", "send_at_cmd"}

\* The entries of sg_ytcard_api: four wrappers are commented out there.
Registered ==
  Wrappers \ {"get_operator", "get_delay", "strategy_save", "strategy_read"}

\* Java method -> METHOD_SIG_TYPE of method_name.
MethodSig ==
  [ getImei     |-> 1, getDbm         |-> 2, getICCID        |-> 1,
    getIMSI     |-> 1, getCellid      |-> 1, getOperator     |-> 2,
    getNetworkMode |-> 2, getPsStatus |-> 2, getLocation     |-> 1,
    sendATCmd   |-> 3, autoDialUp     |-> 2, resetModem      |-> 2,
    getNetworkDelay |-> 2, saveConfig |-> 4, readConfig      |-> 1,
    saveStrategy |-> 4, readStrategy  |-> 1, checkNetwork    |-> 4,
    deviceInit  |-> 2, getNetworkVendor |-> 2 ]

Methods == DOMAIN MethodSig

Sig(w)         == MethodSig[HalMethod[w]]
ReturnsText(w) == Sig(w) \in {1, 3}
TakesText(w)   == Sig(w) \in {3, 4}

\* What an upcall brings back: an int, a text, or nothing because no method id
\* was found.  Bodies: "pair" is a JSON object with the two fields, short enough
\* for the caller's buffers, "long" one with a field that does not fit,
\* "expected" the AT response the caller waits for, "plain" anything else.
Bodies   == {"plain", "pair", "long", "expected"}
IntAnswer(n)     == [kind |-> "int", n |-> n, body |-> "plain"]
TextAnswer(n, b) == [kind |-> "text", n |-> n, body |-> b]
NoMethod         == [kind |-> "none", n |-> 0, body |-> "plain"]
Answers  == [kind : {"int", "text", "none"}, n : Int, body : Bodies]

\* An answer Java can give to wrapper w; an empty text is no JSON object.
Fits(w, ans) ==
  \/ ans = NoMethod
  \/ ans.kind = "text" /\ ReturnsText(w) /\ ans.n >= 0
     /\ (ans.body \in {"pair", "long"} => ans.n > 0)
  \/ ans.kind = "int" /\ ~ReturnsText(w)

Outcome(ret, out) == [ret |-> ret, out |-> out]
Outcomes == [ret : Int, out : Seq(Int)]

--------------------------------------------------------------------------
\* The four helpers.

\* A bug: the text is copied before its size is tested.
type1_CopiesFirst(len, ans) ==
  IF ans = NoMethod THEN Outcome(QCLOUD_ERR_FAILURE, << >>)
  ELSE IF ans.n >= len THEN Outcome(QCLOUD_ERR_BUF_TOO_SHORT, <<ans.n>>)
  ELSE Outcome(ans.n, <<ans.n>>)

\* A bug: > for >=, no room for the terminating NUL.
type1_NoRoomForNul(len, ans) ==
  IF ans = NoMethod THEN Outcome(QCLOUD_ERR_FAILURE, << >>)
  ELSE IF ans.n > len THEN Outcome(QCLOUD_ERR_BUF_TOO_SHORT, << >>)
  ELSE Outcome(ans.n, <<ans.n>>)

get_buffer_method_type1(len, ans) ==
  IF ans = NoMethod THEN Outcome(QCLOUD_ERR_FAILURE, << >>)
  ELSE IF ans.n >= len THEN Outcome(QCLOUD_ERR_BUF_TOO_SHORT, << >>)
  ELSE Outcome(ans.n, <<ans.n>>)

\* A bug: a missing method is not an error.
type2_MissingIsSuccess(ans) ==
  IF ans = NoMethod THEN QCLOUD_RET_SUCCESS ELSE ans.n

get_int_method_type2(ans) ==
  IF ans = NoMethod THEN QCLOUD_ERR_FAILURE ELSE ans.n

\* strcpy: the helper is told no size, the text is copied whatever its length.
get_buffer_method_type3(ans) ==
  IF ans = NoMethod THEN Outcome(QCLOUD_ERR_FAILURE, << >>)
  ELSE Outcome(QCLOUD_RET_SUCCESS, <<ans.n>>)

get_int_method_type4(ans) ==
  IF ans = NoMethod THEN QCLOUD_ERR_FAILURE ELSE ans.n

--------------------------------------------------------------------------
\* The wrappers, grouped by what they do with the helper's result.

\* A bug: the error test of the other int wrappers.
get_dbm_NegativeIsError(ans) ==
  LET ret == get_int_method_type2(ans) IN
  IF ret < 0 THEN Outcome(QCLOUD_ERR_FAILURE, << >>) ELSE Outcome(0, <<ret>>)

platform_ytcard_get_dbm(ans) ==
  LET ret == get_int_method_type2(ans) IN
  IF ret <= -1000 THEN Outcome(QCLOUD_ERR_FAILURE, << >>) ELSE Outcome(0, <<ret>>)

platform_ytcard_get_iccid(len, ans) ==
  Outcome(0, get_buffer_method_type1(len, ans).out)

\* get_lac_cellid and get_lon_lat: a text in a local buffer, parsed as JSON.
platform_ytcard_get_pair(ans) ==
  LET res == get_buffer_method_type1(JsonBufSize, ans) IN
  IF res.ret # 0 THEN Outcome(res.ret, << >>)
  ELSE IF ans.n = 0 THEN Outcome(QCLOUD_ERR_FAILURE, << >>)
  ELSE IF ans.body # "pair" THEN Outcome(QCLOUD_ERR_BUF_TOO_SHORT, << >>)
  ELSE Outcome(QCLOUD_RET_SUCCESS, <<ans.n>>)

\* A bug: <= for <, so that 0 is returned and not stored.
get_int_ZeroIsError(ans) ==
  LET ret == get_int_method_type2(ans) IN
  IF ret <= 0 THEN Outcome(ret, << >>) ELSE Outcome(0, <<ret>>)

\* get_operator, get_mode, get_vendor, get_delay: a negative int is an error.
platform_ytcard_get_int(ans) ==
  LET ret == get_int_method_type2(ans) IN
  IF ret < 0 THEN Outcome(ret, << >>) ELSE Outcome(0, <<ret>>)

\* (bool)ret, as 0 or 1
AsBool(ret) == IF ret = 0 THEN 0 ELSE 1

platform_ytcard_get_ps_status(ans) ==
  LET ret == get_int_method_type2(ans) IN
  IF ret < 0 THEN Outcome(ret, << >>) ELSE Outcome(0, <<AsBool(ret)>>)

platform_ytcard_check_network_status(ans) ==
  LET ret == get_int_method_type4(ans) IN
  IF ret < 0 THEN Outcome(ret, << >>) ELSE Outcome(QCLOUD_RET_SUCCESS, <<AsBool(ret)>>)

\* The answer stays in the local buffer, where it is compared.
platform_ytcard_send_at_cmd(ans) ==
  LET ret == get_buffer_method_type3(ans).ret IN
  IF ret # 0 THEN Outcome(ret, << >>)
  ELSE IF ans.body # "expected" THEN Outcome(QCLOUD_ERR_FAILURE, << >>)
  ELSE Outcome(0, << >>)

\* What wrapper w returns and stores, called with a buffer of len bytes (where
\* it takes one) when its upcall brings back ans.
WrapperResult(w, len, ans) ==
  CASE w \in PlainText      -> get_buffer_method_type1(len, ans)
    [] w = "get_iccid"       -> platform_ytcard_get_iccid(len, ans)
    [] w \in JsonText        -> platform_ytcard_get_pair(ans)
    [] w = "get_dbm"         -> platform_ytcard_get_dbm(ans)
    [] w \in IntValue        -> platform_ytcard_get_int(ans)
    [] w = "get_ps_status"   -> platform_ytcard_get_ps_status(ans)
    [] w = "check_network"   -> platform_ytcard_check_network_status(ans)
    [] w = "send_at_cmd"     -> platform_ytcard_send_at_cmd(ans)
    [] w \in Commands        -> Outcome(get_int_method_type2(ans), << >>)
    [] w \in Saves           -> Outcome(get_int_method_type4(ans), << >>)

--------------------------------------------------------------------------
\* The copies of texts: each goes to a buffer of the caller's or to a local one.

\* Bytes of the buffer wrapper w has its helper copy to.
Room(w, len) ==
  IF w \in JsonText THEN JsonBufSize
  ELSE IF w = "send_at_cmd" THEN AtReplySize ELSE len

\* What the helper of wrapper w has copied there.
WrapperCopy(w, len, ans) ==
  IF Sig(w) = 1 THEN get_buffer_method_type1(Room(w, len), ans).out
  ELSE IF Sig(w) = 3 THEN get_buffer_method_type3(ans).out ELSE << >>

\* The copied text and its NUL go past the end of the buffer.
Overruns(w, len, ans) ==
  WrapperCopy(w, len, ans) # << >> /\ WrapperCopy(w, len, ans)[1] >= Room(w, len)
=============================================================================
