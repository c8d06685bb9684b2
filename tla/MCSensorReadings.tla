---------------------------- MODULE MCSensorReadings ----------------------------
\* Boilers that report a few parameters each, with the readings that matter to them.
EXTENDS SensorReadings

MCBoilers == {
  {"B_start", "B_STATE"}, {"B_Oxy1", "B_STATE", "B_fireS"}, {"B_razP", "B_addConf"},
  {"B_P1", "K1B_P", "B_KONF"}, {"B_P2", "B_KONF"}, {"B_bup", "B_KONF"}, {"B_PTV_PRI", "B_KONF"},
  {"B_REO", "B_KONF"}, {"B_resInd", "B_resDir", "B_resMax"} } \cup
  {{p} : p \in {"B_specG", "B_razina", "B_SUP_TYPE", "B_Tk1", "B_Tdpl1", "K1B_dayNight", "B_signal",
               "B_misP", "B_FotV", "PVAL_582_0", "B_Inp1", "B_Ppwm", "CNT_0", "B_VER", "K1B_kor"}}

Ints(S) == {Reading("int", n) : n \in S}
Texts(S) == {Reading("text", n) : n \in S}
Odd == {Null, Reading("nan", 0), Reading("word", 9)}

\* B_KONF: no DHW, a DHW tank on K1 (scheme 43), P1 for the buffer (17), DHW in
\* the buffer (12), an unknown scheme.
MCValues(p) ==
  CASE p = "B_STATE"  -> {Standby, Reading("word", 1), Null}
    [] p = "B_KONF"   -> Ints({0, 42, 16, 11, 45}) \cup {Null}
    [] p \in {"B_addConf", "B_Inp1"} -> Ints({8, 10, 40}) \cup Texts({10}) \cup {Reading("hex", 10), Null}
    [] p \in {"B_resInd", "B_resMax"} -> Texts({0, 1, 60, 120}) \cup {Null}
    [] p = "B_resDir" -> Texts({0, 1}) \cup {Null}
    [] p \in {"CNT_0"} -> Ints({0, 7}) \cup {Null}
    [] p \in {"B_P1", "B_P2", "K1B_P", "B_fireS"} -> Ints({0, 1}) \cup {Null}
    [] p = "B_start" -> Ints(0 .. 4) \cup {Null, Reading("word", 9)}
    [] p \in {"B_Tk1", "B_Tdpl1"} -> Ints({-45, 0, 144, 145, 299, 300}) \cup Odd \cup {Reading("decimal", -45)}
    [] p = "B_FotV" -> Ints({-1, 0, 1001, 1002}) \cup Odd
    [] p \in {"B_misP", "B_razP"} -> Ints({0, 100, 101}) \cup Texts({50}) \cup Odd \cup {Reading("decimal", 99), Reading("inf", 0)}
    [] p = "PVAL_582_0" -> Ints({0, 10000, 10001}) \cup Odd
    [] OTHER -> Ints({0, 1, 6}) \cup Odd
=============================================================================
