---------------------------- MODULE MCRadioSetup ----------------------------
(* Values of the constants of RadioSetup for TLC. *)
EXTENDS RadioSetup, TLC

\* An int has 20 bits here: 1048583 = 2^20 + 7, -524289 = -2^19 - 1.
Numbers ==
  "0" :> 0 @@ "1" :> 1 @@ "5" :> 5 @@ "6" :> 6 @@ "7" :> 7 @@ "8" :> 8 @@ "9" :> 9
  @@ "12" :> 12 @@ "13" :> 13 @@ "14" :> 14 @@ "20" :> 20 @@ "52" :> 52
  @@ "-3" :> -3 @@ "-242" :> -242 @@ "65535" :> 65535 @@ "65536" :> 65536
  @@ "7800" :> 7800 @@ "125000" :> 125000 @@ "300000" :> 300000 @@ "500000" :> 500000
  @@ "1048583" :> 1048583 @@ "1048587" :> 1048587 @@ "-524289" :> -524289
  @@ "433123457" :> 433123457 @@ "1939800000" :> 1939800000

L(form, key, quote, word, hash) ==
  [form |-> form, key |-> key, quote |-> quote, word |-> word, hash |-> hash]
Set(key, word) == L("set", key, "", word, "none")
Quoted(key, word) == L("set", key, "'", word, "none")
Cut(key, word) == L("set", key, "'", word, "inside")
Skip == L("skip", "unknown", "", "", "none")
Neither == L("other", "unknown", "", "", "none")
Reset == Set("pin_reset", "7")

\* Files that differ in every register, fit or do not, with and without RESET.
RadioFiles ==
  {<<>>,
   <<Set("spreading_factor", "6"), Set("bandwidth", "500000"), Set("tx_power", "-242"),
     Set("sync_word", "-242"), Set("frequency", "1939800000")>>,
   <<Set("spreading_factor", "12"), Set("spreading_factor", "7"), Set("bandwidth", "7800"),
     Set("coding_rate", "8"), Set("tx_power", "20"), Set("frequency", "433123457"),
     Set("sync_word", "52")>>,
   <<Set("spreading_factor", "1048587"), Set("bandwidth", "125000"), Set("tx_power", "14")>>,
   <<Reset, Set("bandwidth", "300000")>>,
   <<Reset, Set("coding_rate", "9")>>,
   <<Set("spreading_factor", "13")>>}

\* Good lines of every kind and type of field, set again, and at most one bad.
TextFiles ==
  {<<Skip, Set("unknown", "1"), Quoted("role", "client"), Cut("role", "client"), Neither>>,
   <<Set("repeat_raw", "1"), Quoted("repeat_raw", "off"), Set("repeat_raw", "7")>>,
   <<Set("web_port", "1"), Quoted("web_port", "65535"), Set("web_port", "65536")>>,
   <<Set("spi_speed", "1048583"), Set("frequency", "?")>>,
   <<Set("pin_nss", "-524289"), Set("pin_nss", "?"), Set("spi_speed", "-3")>>,
   <<Quoted("spreading_factor", "1048583"), Cut("spreading_factor", "7")>>,
   <<Set("web_port", "0")>>}

SetupFiles == RadioFiles \union TextFiles
=============================================================================
