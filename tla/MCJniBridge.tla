---------------------------- MODULE MCJniBridge -----------------------------
(* JniBridge with a few SDK threads, one wrapper per kind of helper.         *)
EXTENDS JniBridge, TLC

CONSTANTS t1, t2

MCThreads == {t1, t2}
Sym       == Permutations(MCThreads)

\* One wrapper per JNI signature.
MCSlots == {"get_imsi", "get_vendor", "check_network", "send_at_cmd"}
MCBufLens == {16}
\* Texts around the caller's 16 bytes, and one too long for at_reply.
MCJavaAnswers == {IntAnswer(0), IntAnswer(-1001), TextAnswer(15, "plain"),
                  TextAnswer(16, "plain"), TextAnswer(2, "expected"),
                  TextAnswer(256, "plain")}

AllFaults == FaultKinds
NoFaults  == {}
AllMethods == Methods

\* A class without getNetworkVendor (an int method) and sendATCmd.
MCProvided == Methods \ {"getNetworkVendor", "sendATCmd"}

\* The static methods of the YuntuHal class in readme.md:21-200.
ReadmeMethods ==
  {"getImei", "getDbm", "getICCID", "getIMSI", "getCellid", "getOperator",
   "getNetworkMode", "getPsStatus", "getLocation", "sendATCmd", "autoDialUp",
   "resetModem", "getNetworkDelay", "saveConfig", "readConfig", "saveStrategy",
   "readStrategy", "checkNetwork", "deviceInit"}
=============================================================================
