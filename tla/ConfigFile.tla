----------------------------- MODULE ConfigFile -----------------------------
(***************************************************************************)
(* load_config_file() of config.cpp: the file is read line by line into a  *)
(* Config that starts from the defaults, at every start of the daemon, and *)
(* the first line that cannot be used ends the process.                    *)
(*                                                                         *)
(* A line is a record.  Its value is a word between quotes or not; what    *)
(* follows a # is cut off, the closing quote with it.                      *)
(***************************************************************************)
EXTENDS Integers, Sequences

CONSTANTS
  Files,    \* contents that the file may have; a missing file is an empty one
  Number,   \* what strtoll() makes of the words that are numbers
  Half      \* an int is in -Half .. Half - 1, 2^31 in the code

\* The keys, by the type of their field: a text, an int, a uint32_t, a uint64_t,
\* a port, a bool.
TextKeys ==
  {"role", "region", "spi_device", "device_name", "web_bind", "ota_token", "ota_image_path"}
IntKeys ==
  {"spreading_factor", "bandwidth", "coding_rate", "tx_power", "sync_word",
   "pin_nss", "pin_reset", "pin_dio0", "pin_dio1", "pin_dio2"}
UIntKeys == {"spi_speed", "poll_ms"}
UInt64Keys == {"frequency", "ota_max_upload_bytes"}
PortKeys == {"web_port"}
BoolKeys == {"repeat_raw", "web_enabled", "ota_enabled", "ota_keep_config"}
Keys == TextKeys \union IntKeys \union UIntKeys \union UInt64Keys \union PortKeys \union BoolKeys

\* form: "skip" for blank lines, comments and sections, "set" for
\* option key 'value' and key=value alike, "other" for what is neither.
LineType ==
  [form : {"skip", "set", "other"}, key : Keys \union {"unknown"},
   quote : {"", "'"}, word : STRING, hash : {"none", "inside"}]

ASSUME ConfigAssumption ==
  /\ Files \subseteq Seq(LineType)
  /\ \A w \in DOMAIN Number : Number[w] \in Int
  /\ Half \in Nat /\ Half > 500000

VARIABLES
  file,   \* the file as the running process finds it
  at,     \* "start", "load", "loaded": the daemon goes on, "failed": it has ended
  line,   \* lines read without an error
  conf    \* the Config

loader == <<file, at, line, conf>>

Ports == 1 .. 65535

\* A field of the Config: a text, perhaps with a quote in front, or a number.
Text(w) == [quote |-> "", word |-> w, number |-> 0]
Num(n) == [quote |-> "", word |-> "", number |-> n]

DefaultWord(k) ==
  CASE k = "role" -> "repeater"
    [] k = "region" -> "AU915"
    [] k = "spi_device" -> "/dev/spidev0.0"
    [] k = "device_name" -> "meshcore-he4025"
    [] k = "web_bind" -> "0.0.0.0"
    [] k = "ota_image_path" -> "/tmp/meshcore-sysupgrade.bin"
    [] OTHER -> ""

DefaultNumber(k) ==
  CASE k = "frequency" -> 915800000
    [] k = "spreading_factor" -> 11
    [] k = "bandwidth" -> 250000
    [] k = "coding_rate" -> 5
    [] k = "tx_power" -> 17
    [] k = "sync_word" -> 18
    [] k = "spi_speed" -> 1000000
    [] k = "poll_ms" -> 5
    [] k = "web_port" -> 8080
    [] k = "ota_max_upload_bytes" -> 16777216
    [] OTHER -> -1

Default ==
  [k \in Keys |->
     IF k \in TextKeys THEN Text(DefaultWord(k))
     ELSE IF k \in BoolKeys THEN Text(IF k = "web_enabled" THEN "true" ELSE "false")
     ELSE Num(DefaultNumber(k))]

-----------------------------------------------------------------------------
(* A value: the quotes go if they are a pair once the line has been cut.   *)

Read(l) ==
  [quote |-> IF l.hash = "inside" THEN l.quote ELSE "", word |-> l.word, number |-> 0]

IsNumber(v) == v.quote = "" /\ v.word \in {"", "?"} \union DOMAIN Number
Parsed(v) == IF v.word \in {"", "?"} THEN -1 ELSE Number[v.word]

Yes == {"1", "true", "yes", "on"}
No == {"0", "false", "no", "off"}

Good(k, v) ==
  CASE k \in TextKeys -> TRUE
    [] k \in IntKeys -> IsNumber(v)
    [] k \in UIntKeys \union UInt64Keys -> IsNumber(v) /\ Parsed(v) >= 0
    [] k \in PortKeys -> IsNumber(v) /\ Parsed(v) \in Ports
    [] k \in BoolKeys -> v.quote = "" /\ v.word \in Yes \union No

\* Mutant: what does not fit is stored as it is, above the width of the field.
StoredWide(k, v) ==
  CASE k \in TextKeys -> v
    [] k \in BoolKeys -> Text(IF v.word \in Yes THEN "true" ELSE "false")
    [] OTHER -> Num(Parsed(v))

\* static_cast<int>, static_cast<uint32_t>: modulo 2 * Half.
Stored(k, v) ==
  CASE k \in TextKeys -> v
    [] k \in IntKeys -> Num(((Parsed(v) + Half) % (2 * Half)) - Half)
    [] k \in UIntKeys -> Num(Parsed(v) % (2 * Half))
    [] k \in UInt64Keys \union PortKeys -> Num(Parsed(v))
    [] k \in BoolKeys -> Text(IF v.word \in Yes THEN "true" ELSE "false")

Sets(l, k) == l.form = "set" /\ l.key = k
Bad(l) == l.form = "other" \/ \E k \in Keys : Sets(l, k) /\ ~Good(k, Read(l))

-----------------------------------------------------------------------------
Init == file \in Files /\ at = "start" /\ line = 0 /\ conf = Default

Start ==
  /\ at = "start" /\ at' = "load" /\ line' = 0 /\ conf' = Default
  /\ UNCHANGED file

\* A line that is skipped, or sets a key that the daemon does not know.
SkipLine ==
  /\ at = "load" /\ line < Len(file)
  /\ LET l == file[line + 1] IN l.form = "skip" \/ Sets(l, "unknown")
  /\ line' = line + 1
  /\ UNCHANGED <<file, at, conf>>

\* Mutant: the first of two lines counts.
SetValueOnce ==
  /\ at = "load" /\ line < Len(file) /\ ~Bad(file[line + 1])
  /\ \E k \in Keys :
       /\ Sets(file[line + 1], k)
       /\ conf' = IF conf[k] # Default[k] THEN conf
                  ELSE [conf EXCEPT ![k] = Stored(k, Read(file[line + 1]))]
  /\ line' = line + 1
  /\ UNCHANGED <<file, at>>

SetValue ==
  /\ at = "load" /\ line < Len(file) /\ ~Bad(file[line + 1])
  /\ \E k \in Keys :
       /\ Sets(file[line + 1], k)
       /\ conf' = [conf EXCEPT ![k] = Stored(k, Read(file[line + 1]))]
  /\ line' = line + 1
  /\ UNCHANGED <<file, at>>

RejectLine ==
  /\ at = "load" /\ line < Len(file) /\ Bad(file[line + 1])
  /\ at' = "failed"
  /\ UNCHANGED <<file, line, conf>>

\* getline() fails: at the end of the file, or on a read error.
EndOfFile ==
  /\ at = "load" /\ at' = "loaded"
  /\ UNCHANGED <<file, line, conf>>

\* The process ends, the file may be edited, and the daemon is started again.
Restart ==
  /\ at \in {"loaded", "failed"} /\ at' = "start"
  /\ file' \in Files
  /\ UNCHANGED <<line, conf>>

Load == Start \/ SkipLine \/ SetValue \/ RejectLine \/ EndOfFile

Next == Load \/ Restart

Spec == Init /\ [][Next]_loader

-----------------------------------------------------------------------------
(* Properties.                                                             *)

Ints == -Half .. Half - 1
UInts == 0 .. 2 * Half - 1

\* The fields keep the types that config.h gives them, whatever the file says.
TypeOK ==
  /\ file \in Files /\ at \in {"start", "load", "loaded", "failed"}
  /\ line \in Nat
  /\ DOMAIN conf = Keys
  /\ \A k \in Keys :
       /\ k \in IntKeys => conf[k].number \in Ints
       /\ k \in UIntKeys => conf[k].number \in UInts
       /\ k \in UInt64Keys => conf[k].number \in Nat
       /\ k \in PortKeys => conf[k].number \in Ports
       /\ k \in BoolKeys => conf[k].word \in {"true", "false"}

\* w is what a value says: a number that the field cannot hold says nothing.
Says(k, v, w) ==
  CASE k \in TextKeys -> w = v
    [] k \in IntKeys -> Parsed(v) \in Ints => w.number = Parsed(v)
    [] k \in UIntKeys -> Parsed(v) \in UInts => w.number = Parsed(v)
    [] k \in UInt64Keys \union PortKeys -> w.number = Parsed(v)
    [] k \in BoolKeys -> w.word = "true" <=> v.word \in Yes

\* The i-th line is the last one read that sets k.
Current(k, i) ==
  /\ i \in 1 .. line /\ Sets(file[i], k)
  /\ \A j \in i + 1 .. line : ~Sets(file[j], k)

\* A daemon that goes on has found every line it read usable, and its Config
\* says what the last line for each key says, the default without one: not
\* what an earlier line, or an earlier file, said.  One that does not go on
\* has stopped at the first line that is not usable.
RunsAsWritten ==
  /\ at \in {"loaded", "failed"} => \A i \in 1 .. line : ~Bad(file[i])
  /\ at = "failed" => line < Len(file) /\ Bad(file[line + 1])
  /\ at = "loaded" => \A k \in Keys :
       /\ \A i \in 1 .. line : Current(k, i) => Says(k, Read(file[i]), conf[k])
       /\ (\A i \in 1 .. line : ~Sets(file[i], k)) => conf[k] = Default[k]
=============================================================================
