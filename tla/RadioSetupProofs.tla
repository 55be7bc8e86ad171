-------------------------- MODULE RadioSetupProofs --------------------------
(***************************************************************************)
(* Why the daemon runs by the last line for each key, and why the chip is  *)
(* on the air with what the file says: the invariant of the reading of the *)
(* file, for any files, any numbers and any width of an int that holds the *)
(* defaults; the arithmetic of the registers; and the invariant that their *)
(* writing keeps, for any number of processes.                             *)
(***************************************************************************)
EXTENDS RadioSetup, TLAPS

-----------------------------------------------------------------------------
(* The table of keys, and values.                                          *)

\* What the proofs need of the constants: the large numbers stay in here.
LEMMA HalfOK == Half \in Nat /\ Half > 0
BY SMT, ConfigAssumption

LEMMA DefaultsFit ==
  ASSUME NEW n \in Int
  PROVE  /\ -1 <= n /\ n <= 250000 => n \in Ints
         /\ 0 <= n /\ n <= 1000000 => n \in UInts
BY SMT, ConfigAssumption DEF Ints, UInts

LEMMA Words == \A w \in DOMAIN Number : Number[w] \in Int
BY ConfigAssumption

LEMMA Fields ==
  ASSUME NEW x
  PROVE  Num(x).number = x /\ Text(x).word = x /\ Text(x).quote = ""
BY DEF Num, Text

\* A key has one type.
LEMMA OneKind ==
  ASSUME NEW k \in Keys
  PROVE  \/ /\ k \in TextKeys
            /\ k \notin IntKeys /\ k \notin UIntKeys /\ k \notin UInt64Keys
            /\ k \notin PortKeys /\ k \notin BoolKeys
         \/ /\ k \in IntKeys
            /\ k \notin TextKeys /\ k \notin UIntKeys /\ k \notin UInt64Keys
            /\ k \notin PortKeys /\ k \notin BoolKeys
         \/ /\ k \in UIntKeys
            /\ k \notin TextKeys /\ k \notin IntKeys /\ k \notin UInt64Keys
            /\ k \notin PortKeys /\ k \notin BoolKeys
         \/ /\ k \in UInt64Keys \union PortKeys
            /\ k \notin TextKeys /\ k \notin IntKeys /\ k \notin UIntKeys /\ k \notin BoolKeys
         \/ /\ k \in BoolKeys
            /\ k \notin TextKeys /\ k \notin IntKeys /\ k \notin UIntKeys
            /\ k \notin UInt64Keys /\ k \notin PortKeys
BY DEF Keys, TextKeys, IntKeys, UIntKeys, UInt64Keys, PortKeys, BoolKeys

LEMMA PortKind == UInt64Keys \intersect PortKeys = {}
BY DEF UInt64Keys, PortKeys

LEMMA UnknownIsNoKey == "unknown" \notin Keys
BY DEF Keys, TextKeys, IntKeys, UIntKeys, UInt64Keys, PortKeys, BoolKeys

\* What the fields of a kind hold.
Held(k, w) ==
  /\ k \in IntKeys => w.number \in Ints
  /\ k \in UIntKeys => w.number \in UInts
  /\ k \in UInt64Keys => w.number \in Nat
  /\ k \in PortKeys => w.number \in Ports
  /\ k \in BoolKeys => w.word \in {"true", "false"}

LEMMA DefaultNumberOK ==
  ASSUME NEW k \in Keys, k \notin TextKeys, k \notin BoolKeys
  PROVE  /\ DefaultNumber(k) \in Int
         /\ k \in IntKeys => DefaultNumber(k) \in Ints
         /\ k \in UIntKeys => DefaultNumber(k) \in UInts
         /\ k \in UInt64Keys => DefaultNumber(k) \in Nat
         /\ k \in PortKeys => DefaultNumber(k) \in Ports
<1>1. DefaultNumber(k) \in Int
  BY SMT DEF DefaultNumber
<1>2. ASSUME k \in IntKeys PROVE DefaultNumber(k) \in Ints
  <2>1. DefaultNumber(k) \in Int /\ -1 <= DefaultNumber(k) /\ DefaultNumber(k) <= 250000
    BY SMT, <1>2 DEF IntKeys, DefaultNumber
  <2> QED
    BY SMT, <2>1, DefaultsFit
<1>3. ASSUME k \in UIntKeys PROVE DefaultNumber(k) \in UInts
  <2>1. k = "spi_speed" \/ k = "poll_ms"
    BY <1>3 DEF UIntKeys
  <2>2. DefaultNumber(k) = 5 \/ DefaultNumber(k) = 1000000
    BY SMT, <2>1 DEF DefaultNumber
  <2>3. DefaultNumber(k) \in Int /\ 0 <= DefaultNumber(k) /\ DefaultNumber(k) <= 1000000
    BY SMT, <2>2
  <2> QED
    BY SMT, <2>3, DefaultsFit
<1>4. ASSUME k \in UInt64Keys PROVE DefaultNumber(k) \in Nat
  BY SMT, <1>4 DEF UInt64Keys, DefaultNumber
<1>5. ASSUME k \in PortKeys PROVE DefaultNumber(k) \in Ports
  BY SMT, <1>5 DEF PortKeys, DefaultNumber, Ports
<1> QED
  BY <1>1, <1>2, <1>3, <1>4, <1>5

LEMMA DefaultOK == DOMAIN Default = Keys /\ \A k \in Keys : Held(k, Default[k])
<1>1. ASSUME NEW k \in Keys PROVE Held(k, Default[k])
  <2>1. Default[k] = IF k \in TextKeys THEN Text(DefaultWord(k))
                     ELSE IF k \in BoolKeys
                          THEN Text(IF k = "web_enabled" THEN "true" ELSE "false")
                     ELSE Num(DefaultNumber(k))
    BY DEF Default
  <2>2. CASE k \in TextKeys
    BY <2>2, OneKind DEF Held
  <2>3. CASE k \in BoolKeys
    <3>1. Default[k] = Text(IF k = "web_enabled" THEN "true" ELSE "false")
      BY <2>1, <2>3, OneKind
    <3>2. Default[k].word \in {"true", "false"}
      BY <3>1, Fields
    <3> QED
      BY <2>3, <3>2, OneKind DEF Held
  <2>4. CASE k \notin TextKeys /\ k \notin BoolKeys
    <3>1. Default[k].number = DefaultNumber(k)
      BY <2>1, <2>4, Fields
    <3> QED
      BY <2>4, <3>1, DefaultNumberOK DEF Held
  <2> QED
    BY <2>2, <2>3, <2>4
<1>2. DOMAIN Default = Keys
  BY DEF Default
<1> QED
  BY <1>1, <1>2

LEMMA Wrap ==
  ASSUME NEW n \in Int, NEW H \in Nat, H > 0
  PROVE  /\ ((n + H) % (2 * H)) - H \in -H .. H - 1
         /\ n \in -H .. H - 1 => ((n + H) % (2 * H)) - H = n
         /\ n % (2 * H) \in 0 .. 2 * H - 1
         /\ n \in 0 .. 2 * H - 1 => n % (2 * H) = n
<1>1. \A m \in Int : m % (2 * H) \in 0 .. 2 * H - 1
  OBVIOUS
<1>2. \A m \in 0 .. 2 * H - 1 : m % (2 * H) = m
  OBVIOUS
<1> QED
  BY <1>1, <1>2

LEMMA ParsedOK ==
  ASSUME NEW l \in LineType, IsNumber(Read(l))
  PROVE  Parsed(Read(l)) \in Int
<1> DEFINE w == Read(l).word
<1>1. CASE w \in {"", "?"}
  <2>1. Parsed(Read(l)) = -1
    BY <1>1 DEF Parsed
  <2> QED
    BY <2>1
<1>2. CASE w \notin {"", "?"}
  <2>1. w \in DOMAIN Number
    BY <1>2 DEF IsNumber
  <2>2. Parsed(Read(l)) = Number[w]
    BY <1>2 DEF Parsed
  <2> QED
    BY <2>1, <2>2, Words
<1> QED
  BY <1>1, <1>2

LEMMA StoredOK ==
  ASSUME NEW k \in Keys, NEW l \in LineType, Good(k, Read(l))
  PROVE  Held(k, Stored(k, Read(l))) /\ Says(k, Read(l), Stored(k, Read(l)))
<1> DEFINE v == Read(l)
<1>2. Half \in Nat /\ Half > 0
  BY HalfOK
<1>4. k \notin TextKeys /\ k \notin BoolKeys => Parsed(v) \in Int
  BY ParsedOK, OneKind DEF Good
<1>6. CASE k \in TextKeys
  BY <1>6, OneKind DEF Held, Says, Stored
<1>7. CASE k \in IntKeys
  <2>1. Stored(k, v).number = ((Parsed(v) + Half) % (2 * Half)) - Half
    BY <1>7, OneKind, Fields DEF Stored
  <2>2. /\ Stored(k, v).number \in Ints
        /\ Parsed(v) \in Ints => Stored(k, v).number = Parsed(v)
    <3>1. Parsed(v) \in Int
      BY <1>4, <1>7, OneKind
    <3>2. /\ ((Parsed(v) + Half) % (2 * Half)) - Half \in -Half .. Half - 1
          /\ Parsed(v) \in -Half .. Half - 1 => ((Parsed(v) + Half) % (2 * Half)) - Half = Parsed(v)
      BY <1>2, <3>1, Wrap, Zenon
    <3> QED
      BY <2>1, <3>2, Zenon DEF Ints
  <2>3. Says(k, v, Stored(k, v))
    BY <1>7, <2>2, OneKind DEF Says
  <2> QED
    BY <1>7, <2>2, <2>3, OneKind DEF Held
<1>8. CASE k \in UIntKeys
  <2>1. Stored(k, v).number = Parsed(v) % (2 * Half)
    BY <1>8, OneKind, Fields DEF Stored
  <2>2. /\ Stored(k, v).number \in UInts
        /\ Parsed(v) \in UInts => Stored(k, v).number = Parsed(v)
    <3>1. Parsed(v) \in Int
      BY <1>4, <1>8, OneKind
    <3>2. /\ Parsed(v) % (2 * Half) \in 0 .. 2 * Half - 1
          /\ Parsed(v) \in 0 .. 2 * Half - 1 => Parsed(v) % (2 * Half) = Parsed(v)
      BY <1>2, <3>1, Wrap, Zenon
    <3> QED
      BY <2>1, <3>2, Zenon DEF UInts
  <2>3. Says(k, v, Stored(k, v))
    BY <1>8, <2>2, OneKind DEF Says
  <2> QED
    BY <1>8, <2>2, <2>3, OneKind DEF Held
<1>9. CASE k \in UInt64Keys \union PortKeys
  <2>1. Stored(k, v).number = Parsed(v)
    BY <1>9, OneKind, Fields DEF Stored
  <2>2. k \in UInt64Keys => Parsed(v) \in Nat
    <3>1. k \in UInt64Keys => Parsed(v) >= 0
      BY <1>9, OneKind, PortKind DEF Good
    <3> QED
      BY <1>4, <1>9, <3>1, OneKind
  <2>3. k \in PortKeys => Parsed(v) \in Ports
    BY <1>9, OneKind, PortKind DEF Good
  <2>4. Says(k, v, Stored(k, v))
    BY <1>9, <2>1, OneKind DEF Says
  <2> QED
    BY <1>9, <2>1, <2>2, <2>3, <2>4, OneKind DEF Held
<1>10. CASE k \in BoolKeys
  <2>1. Stored(k, v).word = IF v.word \in Yes THEN "true" ELSE "false"
    BY <1>10, OneKind, Fields DEF Stored
  <2>2. Stored(k, v).word \in {"true", "false"} /\ (Stored(k, v).word = "true" <=> v.word \in Yes)
    BY <2>1
  <2>3. Says(k, v, Stored(k, v))
    BY <1>10, <2>2, OneKind DEF Says
  <2> QED
    BY <1>10, <2>2, <2>3, OneKind DEF Held
<1> QED
  BY <1>6, <1>7, <1>8, <1>9, <1>10, OneKind

-----------------------------------------------------------------------------
(* The inductive invariant: of the lines read so far.                      *)

Types ==
  /\ file \in Files /\ at \in {"start", "load", "loaded", "failed"}
  /\ line \in Nat
  /\ DOMAIN conf = Keys
  /\ \A k \in Keys : Held(k, conf[k])

LineFacts ==
  /\ at # "start" => line <= Len(file)
  /\ at # "start" => \A i \in 1 .. line : ~Bad(file[i])
  /\ at = "failed" => line < Len(file) /\ Bad(file[line + 1])

Reflects(k) ==
  /\ \A i \in 1 .. line : Current(k, i) => Says(k, Read(file[i]), conf[k])
  /\ (\A i \in 1 .. line : ~Sets(file[i], k)) => conf[k] = Default[k]

Inv == Types /\ LineFacts /\ (at # "start" => \A k \in Keys : Reflects(k))

LEMMA LinesOK ==
  ASSUME Types
  PROVE  Len(file) \in Nat /\ \A i \in 1 .. Len(file) : file[i] \in LineType
<1>1. file \in Seq(LineType)
  BY ConfigAssumption DEF Types
<1> QED
  BY <1>1

LEMMA InitInv == Init => Inv
<1> SUFFICES ASSUME Init PROVE Inv
  OBVIOUS
<1>1. Types
  BY DefaultOK DEF Init, Types
<1> QED
  BY <1>1 DEF Init, Inv, LineFacts

LEMMA TypesStep == Inv /\ [Next]_loader => Types'
<1> SUFFICES ASSUME Inv, [Next]_loader PROVE Types'
  OBVIOUS
<1> USE DEF Inv, Types
<1>1. CASE Start
  BY <1>1, DefaultOK DEF Start, Held, Ints, UInts
<1>2. CASE SkipLine
  BY <1>2 DEF SkipLine, Held, Ints, UInts
<1>3. CASE SetValue
  <2>1. PICK k \in Keys :
          /\ Sets(file[line + 1], k)
          /\ conf' = [conf EXCEPT ![k] = Stored(k, Read(file[line + 1]))]
    BY <1>3 DEF SetValue
  <2>2. line + 1 \in 1 .. Len(file) /\ file[line + 1] \in LineType
    BY <1>3, LinesOK DEF SetValue
  <2>3. Good(k, Read(file[line + 1]))
    BY <1>3, <2>1 DEF SetValue, Bad
  <2>4. Held(k, Stored(k, Read(file[line + 1])))
    BY <2>2, <2>3, StoredOK
  <2>5. \A j \in Keys : Held(j, conf'[j])
    BY <2>1, <2>4
  <2> QED
    BY <1>3, <2>1, <2>5 DEF SetValue, Held, Ints, UInts
<1>4. CASE RejectLine \/ EndOfFile
  BY <1>4 DEF RejectLine, EndOfFile, Held, Ints, UInts
<1>5. CASE Restart
  BY <1>5 DEF Restart, Held, Ints, UInts
<1>6. CASE UNCHANGED loader
  BY <1>6 DEF loader, Held, Ints, UInts
<1> QED
  BY <1>1, <1>2, <1>3, <1>4, <1>5, <1>6 DEF Next, Load

\* Reading one more line changes what is current for its key only.
LEMMA OneMoreLine ==
  ASSUME line \in Nat, line' = line + 1, file' = file, NEW k
  PROVE  /\ \A i \in 1 .. line' :
              Current(k, i)' <=>
                \/ i = line + 1 /\ Sets(file[line + 1], k)
                \/ i \in 1 .. line /\ Current(k, i) /\ ~Sets(file[line + 1], k)
         /\ (\A i \in 1 .. line' : ~Sets(file[i], k)) <=>
              (\A i \in 1 .. line : ~Sets(file[i], k)) /\ ~Sets(file[line + 1], k)
<1>1. \A i \in 1 .. line' : i = line + 1 \/ i \in 1 .. line
  OBVIOUS
<1>2. ASSUME NEW i \in 1 .. line
      PROVE  /\ i + 1 .. line' = (i + 1 .. line) \union {line + 1}
             /\ i \in 1 .. line'
  OBVIOUS
<1>3. line + 1 \in 1 .. line' /\ (line + 1) + 1 .. line' = {} /\ line + 1 \notin 1 .. line
  OBVIOUS
<1> QED
  BY <1>1, <1>2, <1>3 DEF Current

LEMMA LinesStep == Inv /\ [Next]_loader => LineFacts' /\ (at' # "start" => \A k \in Keys : Reflects(k)')
<1> SUFFICES ASSUME Inv, [Next]_loader
             PROVE  LineFacts' /\ (at' # "start" => \A k \in Keys : Reflects(k)')
  OBVIOUS
<1>0. Types /\ line \in Nat /\ Len(file) \in Nat
  BY LinesOK DEF Inv, Types
<1>1. CASE Start
  BY <1>0, <1>1 DEF Start, LineFacts, Reflects
<1>2. CASE SkipLine
  <2>1. /\ at = "load" /\ at' = "load" /\ line < Len(file) /\ line' = line + 1
        /\ file' = file /\ conf' = conf
        /\ file[line + 1].form = "skip" \/ Sets(file[line + 1], "unknown")
    BY <1>2 DEF SkipLine
  <2>2. \A k \in Keys : ~Sets(file[line + 1], k)
    BY <2>1, UnknownIsNoKey DEF Sets
  <2>3. ~Bad(file[line + 1])
    BY <2>1, <2>2 DEF Bad, Sets
  <2>4. LineFacts'
    BY <1>0, <2>1, <2>3 DEF Inv, LineFacts
  <2>5. ASSUME NEW k \in Keys PROVE Reflects(k)'
    BY <1>0, <2>1, <2>2, OneMoreLine DEF Inv, Reflects
  <2> QED
    BY <2>4, <2>5
<1>3. CASE SetValue
  <2>1. /\ at = "load" /\ at' = "load" /\ line < Len(file) /\ line' = line + 1
        /\ file' = file /\ ~Bad(file[line + 1])
    BY <1>3 DEF SetValue
  <2>2. PICK k \in Keys :
          /\ Sets(file[line + 1], k)
          /\ conf' = [conf EXCEPT ![k] = Stored(k, Read(file[line + 1]))]
    BY <1>3 DEF SetValue
  <2>3. line + 1 \in 1 .. Len(file) /\ file[line + 1] \in LineType
    BY <1>0, <2>1, LinesOK
  <2>4. Says(k, Read(file[line + 1]), conf'[k])
    <3>1. Good(k, Read(file[line + 1]))
      BY <2>1, <2>2 DEF Bad
    <3> QED
      BY <1>0, <2>2, <2>3, <3>1, StoredOK DEF Types
  <2>5. LineFacts'
    BY <1>0, <2>1 DEF Inv, LineFacts
  <2>6. ASSUME NEW j \in Keys, j # k PROVE Reflects(j)'
    <3>1. ~Sets(file[line + 1], j) /\ conf'[j] = conf[j]
      BY <1>0, <2>2, <2>6 DEF Sets, Types
    <3> QED
      BY <1>0, <2>1, <3>1, OneMoreLine DEF Inv, Reflects
  <2>7. Reflects(k)'
    BY <1>0, <2>1, <2>2, <2>4, OneMoreLine DEF Reflects
  <2> QED
    BY <2>5, <2>6, <2>7
<1>4. CASE RejectLine \/ EndOfFile
  BY <1>0, <1>4 DEF RejectLine, EndOfFile, Inv, LineFacts, Reflects, Current
<1>5. CASE Restart
  BY <1>5 DEF Restart, LineFacts
<1>6. CASE UNCHANGED loader
  BY <1>6 DEF loader, Inv, LineFacts, Reflects, Current
<1> QED
  BY <1>1, <1>2, <1>3, <1>4, <1>5, <1>6 DEF Next, Load

LEMMA InvStep == Inv /\ [Next]_loader => Inv'
BY TypesStep, LinesStep DEF Inv

LEMMA AlwaysInv == Spec => []Inv
BY InitInv, InvStep, PTL DEF Spec

LEMMA InvImplies == Inv => TypeOK /\ RunsAsWritten
<1> SUFFICES ASSUME Inv PROVE TypeOK /\ RunsAsWritten
  OBVIOUS
<1>1. TypeOK
  BY DEF Inv, Types, TypeOK, Held
<1>2. RunsAsWritten
  BY DEF Inv, LineFacts, Reflects, RunsAsWritten
<1> QED
  BY <1>1, <1>2

\* The fields of the Config keep the types of config.h: a number that does not
\* fit becomes another one, and never one out of range.
THEOREM ConfigTypes == Spec => []TypeOK
BY AlwaysInv, InvImplies, PTL

\* A daemon that goes on runs by the last line for each key of the file as it
\* is now, and one that does not has stopped at the first unusable line.
THEOREM ConfigCorrect == Spec => []RunsAsWritten
BY AlwaysInv, InvImplies, PTL

-----------------------------------------------------------------------------
(* The arithmetic.                                                         *)

\* The small numbers compute what the code does: (f << 19) / 32000000.
THEOREM FrfExact == \A f \in Nat : Frf(f) = (f * 524288) \div 32000000
BY SMT DEF Frf

\* The three bytes of F, together, are F modulo 2^24.
LEMMA Bytes ==
  ASSUME NEW F \in Nat
  PROVE  /\ (F \div 65536) % 256 \in 0 .. 255
         /\ (F \div 256) % 256 \in 0 .. 255
         /\ F % 256 \in 0 .. 255
         /\ ((F \div 65536) % 256) * 65536 + ((F \div 256) % 256) * 256 + (F % 256) = F % 16777216
<1> DEFINE a == F \div 256
           b == F \div 65536
<1>1. a \in Nat /\ F = 256 * a + (F % 256) /\ F % 256 \in 0 .. 255
  BY SMT
<1>2. b \in Nat /\ a = 256 * b + (a % 256) /\ a % 256 \in 0 .. 255
  BY SMT
<1>3. b % 256 \in 0 .. 255 /\ b = 256 * (b \div 256) + (b % 256) /\ b \div 256 \in Nat
  BY SMT, <1>2
<1> HIDE DEF a, b
<1> DEFINE K == b \div 256
           m == (b % 256) * 65536 + (a % 256) * 256 + (F % 256)
<1>5. K \in Nat /\ F = 16777216 * K + m
  BY SMT, <1>1, <1>2, <1>3
<1>6. m \in Nat /\ m < 16777216
  BY SMT, <1>1, <1>2, <1>3
<1> HIDE DEF K, m
<1>7. F % 16777216 = m
  BY SMT, <1>5, <1>6
<1> QED
  BY SMT, <1>1, <1>2, <1>3, <1>7 DEF a, b, m

\* A frequency is rounded down to a step, modulo 1.024 GHz.
LEMMA Tuned ==
  ASSUME NEW f \in Nat, NEW c \in Int, c = Frf(f) % 16777216
  PROVE  WithinStep(Above(f, c), c % 256)
<1> DEFINE q == f \div 15625
           r == f % 15625
           t == (r * 256) \div 15625
<1>1. q \in Nat /\ r \in Nat /\ r < 15625 /\ f = 15625 * q + r
  BY SMT
<1>2. t \in Nat /\ t < 256 /\ 15625 * t <= 256 * r /\ 256 * r < 15625 * t + 15625
  BY SMT, <1>1
<1>3. Frf(f) = 256 * q + t
  BY SMT DEF Frf
<1> HIDE DEF q, r, t
<1> DEFINE u == q % 65536
<1>4. u \in Nat /\ c = 256 * u + t
  BY SMT, <1>1, <1>2, <1>3
<1>5. f % 1024000000 = 15625 * u + r
  BY SMT, <1>1
<1> HIDE DEF u
<1>6. c \div 256 = u /\ c % 256 = t
  BY SMT, <1>2, <1>4
<1>7. Above(f, c) = r
  <2>1. f % 1024000000 \in Int /\ c \div 256 \in Int
    BY SMT
  <2>2. ASSUME NEW e \in Int, NEW d \in Int, e = 15625 * u + r, d = u PROVE e - d * 15625 = r
    BY SMT, <1>1, <1>4, <2>2
  <2> QED
    BY SMT, <1>5, <1>6, <2>1, <2>2 DEF Above
<1>8. WithinStep(r, t)
  BY SMT, <1>1, <1>2 DEF WithinStep
<1>9. c % 256 = t
  BY <1>6
<1> QED
  BY <1>7, <1>8, <1>9

LEMMA NominalOK ==
  /\ Nominal(0) = 7812
  /\ Nominal(1) = 10417
  /\ Nominal(2) = 15625
  /\ Nominal(3) = 20833
  /\ Nominal(4) = 31250
  /\ Nominal(5) = 41667
  /\ Nominal(6) = 62500
  /\ Nominal(7) = 125000
  /\ Nominal(8) = 250000
  /\ Nominal(9) = 500000
BY SMT DEF Nominal

LEMMA BandwidthCases ==
  ASSUME NEW b \in Bandwidths
  PROVE  \/ b \in {7800, 7810} /\ BandwidthReg(b) = 0 /\ Nominal(BandwidthReg(b)) = 7812
         \/ b \in {10400, 10420} /\ BandwidthReg(b) = 1 /\ Nominal(BandwidthReg(b)) = 10417
         \/ b \in {15600, 15625} /\ BandwidthReg(b) = 2 /\ Nominal(BandwidthReg(b)) = 15625
         \/ b \in {20800, 20830} /\ BandwidthReg(b) = 3 /\ Nominal(BandwidthReg(b)) = 20833
         \/ b \in {31250} /\ BandwidthReg(b) = 4 /\ Nominal(BandwidthReg(b)) = 31250
         \/ b \in {41700, 41670} /\ BandwidthReg(b) = 5 /\ Nominal(BandwidthReg(b)) = 41667
         \/ b \in {62500} /\ BandwidthReg(b) = 6 /\ Nominal(BandwidthReg(b)) = 62500
         \/ b \in {125000} /\ BandwidthReg(b) = 7 /\ Nominal(BandwidthReg(b)) = 125000
         \/ b \in {250000} /\ BandwidthReg(b) = 8 /\ Nominal(BandwidthReg(b)) = 250000
         \/ b \in {500000} /\ BandwidthReg(b) = 9 /\ Nominal(BandwidthReg(b)) = 500000
<1>1. b \in {7800, 7810} => BandwidthReg(b) = 0
  BY SMT DEF BandwidthReg
<1>2. b \in {10400, 10420} => BandwidthReg(b) = 1
  BY SMT DEF BandwidthReg
<1>3. b \in {15600, 15625} => BandwidthReg(b) = 2
  BY SMT DEF BandwidthReg
<1>4. b \in {20800, 20830} => BandwidthReg(b) = 3
  BY SMT DEF BandwidthReg
<1>5. b \in {31250} => BandwidthReg(b) = 4
  BY SMT DEF BandwidthReg
<1>6. b \in {41700, 41670} => BandwidthReg(b) = 5
  BY SMT DEF BandwidthReg
<1>7. b \in {62500} => BandwidthReg(b) = 6
  BY SMT DEF BandwidthReg
<1>8. b \in {125000} => BandwidthReg(b) = 7
  BY SMT DEF BandwidthReg
<1>9. b \in {250000} => BandwidthReg(b) = 8
  BY SMT DEF BandwidthReg
<1>10. b \in {500000} => BandwidthReg(b) = 9
  BY SMT DEF BandwidthReg
<1>11. \/ b \in {7800, 7810}
       \/ b \in {10400, 10420}
       \/ b \in {15600, 15625}
       \/ b \in {20800, 20830}
       \/ b \in {31250}
       \/ b \in {41700, 41670}
       \/ b \in {62500}
       \/ b \in {125000}
       \/ b \in {250000}
       \/ b \in {500000}
  BY SMT DEF Bandwidths
<1> QED
  BY SMT, NominalOK, <1>1, <1>2, <1>3, <1>4, <1>5, <1>6, <1>7, <1>8, <1>9, <1>10, <1>11

LEMMA BandwidthOK ==
  ASSUME NEW b \in Bandwidths
  PROVE  /\ BandwidthReg(b) \in 0 .. 9
         /\ Nominal(BandwidthReg(b)) - b \in -50 .. 50
         /\ b \in Nat /\ Nominal(BandwidthReg(b)) \in Nat
BY SMT, BandwidthCases

-----------------------------------------------------------------------------
(* A Config and its bytes.                                                 *)

Configured(c) ==
  /\ c["frequency"].number \in Nat
  /\ c["tx_power"].number \in Int /\ c["sync_word"].number \in Int

LEMMA ConfConfigured == ASSUME Inv PROVE Configured(conf)
<1>1. \A k \in IntKeys : k \in Keys
  BY DEF Keys
<1>2. "frequency" \in UInt64Keys /\ "frequency" \in Keys
      /\ "tx_power" \in IntKeys /\ "sync_word" \in IntKeys
  BY DEF Keys, UInt64Keys, IntKeys
<1>3. \A k \in IntKeys : conf[k].number \in Int
  BY <1>1, HalfOK DEF Inv, Types, Held, Ints
<1> QED
  BY <1>2, <1>3 DEF Inv, Types, Held, Configured

LEMMA ClampOK ==
  ASSUME NEW p \in Int
  PROVE  /\ Clamp(p) \in 2 .. 17
         /\ 128 + Clamp(p) - 2 \in 0 .. 255
         /\ 2 + ((128 + Clamp(p) - 2) % 16) = Clamp(p)
BY SMT DEF Clamp

LEMMA FrfNat == ASSUME NEW f \in Nat PROVE Frf(f) \in Nat
BY SMT DEF Frf

LEMMA ModemBytes ==
  ASSUME NEW sf \in 6 .. 12, NEW cr \in 5 .. 8, NEW b \in 0 .. 9
  PROVE  /\ sf * 16 + 4 \in 0 .. 255 /\ (sf * 16 + 4) \div 16 = sf
         /\ b * 16 + (cr - 4) * 2 \in 0 .. 255
         /\ (b * 16 + (cr - 4) * 2) \div 16 = b
         /\ (((b * 16 + (cr - 4) * 2) % 16) \div 2) + 4 = cr
BY SMT

LEMMA ByteOK ==
  ASSUME NEW c, Configured(c), NEW r \in Registers,
         r \in {"FR_MSB", "FR_MID", "FR_LSB"} \/ Accepted(c)
  PROVE  Byte(r, c) \in 0 .. 255
<1>1. CASE r \in {"FR_MSB", "FR_MID", "FR_LSB"}
  <2>1. Frf(c["frequency"].number) \in Nat
    BY FrfNat DEF Configured
  <2>2. /\ Byte("FR_MSB", c) \in 0 .. 255
        /\ Byte("FR_MID", c) \in 0 .. 255
        /\ Byte("FR_LSB", c) \in 0 .. 255
    BY <2>1, Bytes DEF Byte
  <2> QED
    BY <1>1, <2>2
<1>2. CASE r \in {"MODEM_CONFIG_1", "MODEM_CONFIG_2"} /\ Accepted(c)
  <2>1. BandwidthReg(Bw(c)) \in 0 .. 9
    BY <1>2, BandwidthOK DEF Accepted
  <2>2. Byte("MODEM_CONFIG_1", c) \in 0 .. 255 /\ Byte("MODEM_CONFIG_2", c) \in 0 .. 255
    BY <1>2, <2>1, ModemBytes DEF Byte, Accepted
  <2> QED
    BY <1>2, <2>2
<1>3. CASE r = "PA_CONFIG"
  BY <1>3, ClampOK DEF Byte, Configured
<1>4. CASE r = "SYNC_WORD"
  BY SMT, <1>4 DEF Byte, Configured
<1>5. CASE r \in {"MODEM_CONFIG_3", "DETECT_OPTIMIZE", "DETECTION_THRESHOLD",
                 "PREAMBLE_MSB", "PREAMBLE_LSB"}
  <2>1. /\ Byte("MODEM_CONFIG_3", c) \in 0 .. 255 /\ Byte("DETECT_OPTIMIZE", c) \in 0 .. 255
        /\ Byte("DETECTION_THRESHOLD", c) \in 0 .. 255
        /\ Byte("PREAMBLE_MSB", c) \in 0 .. 255 /\ Byte("PREAMBLE_LSB", c) \in 0 .. 255
    BY DEF Byte
  <2> QED
    BY <1>5, <2>1
<1> QED
  BY <1>1, <1>2, <1>3, <1>4, <1>5 DEF Registers

LEMMA PowerOnOK == PowerOn \in [Registers -> 0 .. 255]
<1>1. ASSUME NEW r \in Registers PROVE PowerOn[r] \in 0 .. 255
  BY <1>1 DEF PowerOn, Registers
<1> QED
  BY <1>1 DEF PowerOn

LEMMA OrderOK ==
  /\ Len(Order) = 12
  /\ \A i \in 1 .. 12 : Order[i] \in Registers
  /\ \A i \in 1 .. 3 : Order[i] \in {"FR_MSB", "FR_MID", "FR_LSB"}
  /\ \A r \in Registers : \E i \in 1 .. 12 : Order[i] = r
BY DEF Order, Registers

-----------------------------------------------------------------------------
(* What the chip makes of the bytes.                                       *)

LEMMA ChipReads ==
  ASSUME NEW c, Configured(c), Accepted(c), Agrees(c)
  PROVE  /\ ChipFrf = Frf(c["frequency"].number) % 16777216
         /\ ChipSf = Sf(c) /\ ChipCr = Cr(c)
         /\ ChipBw = Nominal(BandwidthReg(Bw(c)))
         /\ ChipPower = Clamp(c["tx_power"].number)
         /\ regs["SYNC_WORD"] = c["sync_word"].number % 256
<1>1. /\ regs["FR_MSB"] = (Frf(c["frequency"].number) \div 65536) % 256
      /\ regs["FR_MID"] = (Frf(c["frequency"].number) \div 256) % 256
      /\ regs["FR_LSB"] = Frf(c["frequency"].number) % 256
  BY DEF Agrees, Registers, Byte
<1>2. ChipFrf = Frf(c["frequency"].number) % 16777216
  <2> DEFINE F == Frf(c["frequency"].number)
  <2>1. F \in Nat
    BY FrfNat DEF Configured
  <2> HIDE DEF F
  <2>2. ((F \div 65536) % 256) * 65536 + ((F \div 256) % 256) * 256 + (F % 256) = F % 16777216
    BY <2>1, Bytes
  <2>3. /\ regs["FR_MSB"] = (F \div 65536) % 256
        /\ regs["FR_MID"] = (F \div 256) % 256
        /\ regs["FR_LSB"] = F % 256
    BY <1>1 DEF F
  <2>4. ChipFrf = F % 16777216
    BY SMT, <2>2, <2>3 DEF ChipFrf
  <2> QED
    BY <2>4 DEF F
<1>3. BandwidthReg(Bw(c)) \in 0 .. 9 /\ Sf(c) \in 6 .. 12 /\ Cr(c) \in 5 .. 8
  BY BandwidthOK DEF Accepted
<1>4. /\ regs["MODEM_CONFIG_1"] = BandwidthReg(Bw(c)) * 16 + (Cr(c) - 4) * 2
      /\ regs["MODEM_CONFIG_2"] = Sf(c) * 16 + 4
  BY DEF Agrees, Registers, Byte
<1>5. ChipSf = Sf(c) /\ ChipCr = Cr(c) /\ ChipBw = Nominal(BandwidthReg(Bw(c)))
  BY <1>3, <1>4, ModemBytes DEF ChipSf, ChipCr, ChipBw
<1>6. /\ regs["PA_CONFIG"] = 128 + Clamp(c["tx_power"].number) - 2
      /\ regs["SYNC_WORD"] = c["sync_word"].number % 256
  BY DEF Agrees, Registers, Byte
<1>7. ChipPower = Clamp(c["tx_power"].number)
  BY <1>6, ClampOK DEF ChipPower, Configured
<1> QED
  BY <1>2, <1>5, <1>6, <1>7

-----------------------------------------------------------------------------
(* What is written in the file is in the Config.                           *)

LEMMA WrittenIs ==
  ASSUME Inv, at # "start", NEW k \in IntKeys \union UInt64Keys, NEW n \in Written(k),
         k \in IntKeys => n \in Ints
  PROVE  conf[k].number = n
<1>1. k \in Keys
  BY DEF Keys
<1>2. Reflects(k)
  BY <1>1 DEF Inv
<1>3. CASE \E i \in 1 .. line : Current(k, i) /\ n = Parsed(Read(file[i]))
  <2>1. PICK i \in 1 .. line : Current(k, i) /\ n = Parsed(Read(file[i]))
    BY <1>3
  <2>2. Says(k, Read(file[i]), conf[k])
    BY <1>2, <2>1 DEF Reflects
  <2> QED
    BY <1>1, <2>1, <2>2, OneKind DEF Says
<1>4. CASE (\A i \in 1 .. line : ~Sets(file[i], k)) /\ n = Default[k].number
  BY <1>2, <1>4 DEF Reflects
<1>5. \/ \E i \in 1 .. line : Current(k, i) /\ n = Parsed(Read(file[i]))
      \/ (\A i \in 1 .. line : ~Sets(file[i], k)) /\ n = Default[k].number
  BY DEF Written
<1> QED
  BY <1>3, <1>4, <1>5

-----------------------------------------------------------------------------
(* The inductive invariant: the first registers are those of the Config    *)
(* while they are written, all of them once the daemon goes on the air,    *)
(* and they are those of the last complete set-up while the chip is on it. *)

ChipTypes ==
  /\ phase \in {"idle", "sleep", "setup", "air", "ended"}
  /\ step \in 0 .. 12 /\ runs \in 1 .. MaxRuns
  /\ regs \in [Registers -> 0 .. 255]
  /\ mode \in {"SLEEP", "STDBY", "TX", "RX"}
  /\ \A c \in tuned : DOMAIN c = Keys /\ Accepted(c)

Progress ==
  /\ phase \in {"sleep", "setup", "air"} => at = "loaded"
  /\ phase = "setup" =>
       /\ mode = "SLEEP"
       /\ step > 3 => Accepted(conf)
       /\ \A i \in 1 .. step : regs[Order[i]] = Byte(Order[i], conf)
       /\ step = 12 => conf \in tuned
  /\ phase = "air" => Accepted(conf) /\ Agrees(conf) /\ conf \in tuned
  /\ OnAirIsOneConfig

SetupInv == Inv /\ ChipTypes /\ Progress

LEMMA SetupInitInv == SetupInit => SetupInv
<1> SUFFICES ASSUME SetupInit PROVE SetupInv
  OBVIOUS
<1>1. Inv
  BY InitInv DEF SetupInit
<1>2. ChipTypes
  BY PowerOnOK, RunsAssumption DEF SetupInit, ChipTypes
<1>3. Progress
  BY DEF SetupInit, Progress, OnAirIsOneConfig, OnAir
<1> QED
  BY <1>1, <1>2, <1>3 DEF SetupInv

\* A chip that is left alone stays as it was set up.
LEMMA OneConfigStays ==
  ASSUME OnAirIsOneConfig, UNCHANGED <<regs, tuned>>, OnAir' => OnAir
  PROVE  OnAirIsOneConfig'
BY DEF OnAirIsOneConfig, Agrees

LEMMA LoadStep == SetupInv /\ LoadConfig => SetupInv'
<1> SUFFICES ASSUME SetupInv, LoadConfig PROVE SetupInv'
  OBVIOUS
<1>1. Inv'
  BY InvStep DEF SetupInv, LoadConfig, Next
<1>2. ChipTypes'
  BY DEF SetupInv, LoadConfig, ChipTypes, chip
<1>3. Progress'
  BY OneConfigStays DEF SetupInv, LoadConfig, Progress, OnAir, chip
<1> QED
  BY <1>1, <1>2, <1>3 DEF SetupInv

\* Every other step but a restart leaves the Config alone.
LEMMA LoaderStays == Inv /\ UNCHANGED loader => Inv'
BY InvStep

LEMMA OpenStep == SetupInv /\ Open => SetupInv'
<1> SUFFICES ASSUME SetupInv, Open PROVE SetupInv'
  OBVIOUS
<1>1. Inv'
  BY LoaderStays DEF SetupInv, Open
<1>2. ChipTypes'
  BY PowerOnOK DEF SetupInv, Open, Ends, ChipReset, ChipTypes, chip
<1>3. Progress'
  <2>1. phase' \in {"sleep", "ended"} /\ at' = "loaded"
    BY DEF Open, Ends, loader
  <2>2. OnAirIsOneConfig'
    BY OneConfigStays DEF SetupInv, Open, ChipReset, Progress, OnAirIsOneConfig, OnAir, chip
  <2> QED
    BY <2>1, <2>2 DEF Progress
<1> QED
  BY <1>1, <1>2, <1>3 DEF SetupInv

LEMMA SleepStep == SetupInv /\ Sleep => SetupInv'
<1> SUFFICES ASSUME SetupInv, Sleep PROVE SetupInv'
  OBVIOUS
<1>1. Inv'
  BY LoaderStays DEF SetupInv, Sleep
<1>2. ChipTypes'
  BY DEF SetupInv, Sleep, Ends, ChipTypes
<1>3. Progress'
  BY OneConfigStays, OrderOK DEF SetupInv, Sleep, Ends, Progress, OnAir, ChipTypes, loader
<1> QED
  BY <1>1, <1>2, <1>3 DEF SetupInv

LEMMA EndStep == SetupInv /\ (Reject \/ End) => SetupInv'
<1> SUFFICES ASSUME SetupInv, Reject \/ End PROVE SetupInv'
  OBVIOUS
<1>1. Inv'
  BY LoaderStays DEF SetupInv, Reject, End
<1>2. ChipTypes'
  BY DEF SetupInv, Reject, End, Ends, ChipTypes, chip
<1>3. Progress'
  BY OneConfigStays DEF SetupInv, Reject, End, Ends, Progress, OnAir, chip
<1> QED
  BY <1>1, <1>2, <1>3 DEF SetupInv

LEMMA WriteStep == SetupInv /\ WriteReg => SetupInv'
<1> SUFFICES ASSUME SetupInv, WriteReg PROVE SetupInv'
  OBVIOUS
<1> DEFINE r == Order[step + 1]
           written == [regs EXCEPT ![r] = Byte(r, conf)]
<1>1. Inv'
  BY LoaderStays DEF SetupInv, WriteReg
<1>2. /\ phase = "setup" /\ mode = "SLEEP" /\ mode' = "SLEEP" /\ step \in 0 .. 11
      /\ at' = at /\ conf' = conf /\ runs' = runs /\ at = "loaded"
      /\ tuned' = IF step' = 12 THEN {conf} ELSE tuned
      /\ \/ regs' = written /\ step' = step + 1 /\ phase' = "setup"
         \/ phase' = "ended" /\ step' = step /\ regs' \in {regs, written}
  BY OrderOK DEF SetupInv, ChipTypes, Progress, WriteReg, Ends, loader
<1>3. step >= 3 => Accepted(conf)
  BY <1>2 DEF SetupInv, Progress, WriteReg
<1>4. r \in Registers /\ Byte(r, conf) \in 0 .. 255
  <2>1. r \in Registers
    BY <1>2, OrderOK
  <2>2. r \in {"FR_MSB", "FR_MID", "FR_LSB"} \/ Accepted(conf)
    <3>1. CASE step < 3
      <4>1. step + 1 \in 1 .. 3
        BY <1>2, <3>1
      <4> QED
        BY <4>1, OrderOK
    <3>2. CASE step >= 3
      BY <1>3, <3>2
    <3> QED
      BY <1>2, <3>1, <3>2
  <2>3. Configured(conf)
    BY ConfConfigured DEF SetupInv
  <2> QED
    BY <2>1, <2>2, <2>3, ByteOK
<1>5. written \in [Registers -> 0 .. 255]
  BY <1>4 DEF SetupInv, ChipTypes
<1>6. ChipTypes'
  <2>1. DOMAIN conf = Keys
    BY InvImplies DEF SetupInv, TypeOK
  <2>2. step' = 12 => Accepted(conf)
    BY <1>2, <1>3
  <2> QED
    BY <1>2, <1>5, <2>1, <2>2 DEF SetupInv, ChipTypes
<1>7. ASSUME regs' = written, NEW i \in 1 .. step + 1
      PROVE  regs'[Order[i]] = Byte(Order[i], conf)
  <2>1. Order[i] \in Registers
    BY <1>2, OrderOK
  <2>2. CASE Order[i] = r
    BY <1>4, <1>7, <2>2 DEF SetupInv, ChipTypes
  <2>3. CASE Order[i] # r
    <3>1. i \in 1 .. step
      BY <1>2, <2>3
    <3>2. regs[Order[i]] = Byte(Order[i], conf)
      BY <1>2, <3>1 DEF SetupInv, Progress
    <3> QED
      BY <1>7, <2>1, <2>3, <3>2 DEF SetupInv, ChipTypes
  <2> QED
    BY <2>2, <2>3
<1>8. Progress'
  <2>1. ~OnAir'
    BY <1>2 DEF OnAir
  <2>2. CASE phase' = "ended"
    BY <2>1, <2>2 DEF Progress, OnAirIsOneConfig
  <2>3. CASE regs' = written /\ step' = step + 1 /\ phase' = "setup"
    <3>1. step' > 3 => Accepted(conf)'
      <4>1. step' > 3 => Accepted(conf)
        BY <1>2, <1>3, <2>3
      <4> QED
        BY <1>2, <4>1
    <3>2. \A i \in 1 .. step' : regs'[Order[i]] = Byte(Order[i], conf')
      BY <1>2, <1>7, <2>3
    <3> QED
      BY <1>2, <2>1, <2>3, <3>1, <3>2 DEF Progress, OnAirIsOneConfig
  <2> QED
    BY <1>2, <2>2, <2>3
<1> QED
  BY <1>1, <1>6, <1>8 DEF SetupInv

LEMMA ModeStep == SetupInv /\ ChangeMode => SetupInv'
<1> SUFFICES ASSUME SetupInv, ChangeMode PROVE SetupInv'
  OBVIOUS
<1>1. Inv'
  BY LoaderStays DEF SetupInv, ChangeMode
<1>2. ChipTypes'
  BY DEF SetupInv, ChangeMode, Ends, ChipTypes
<1>3. Accepted(conf) /\ Agrees(conf) /\ conf \in tuned
  <2>1. CASE phase = "air"
    BY <2>1 DEF SetupInv, Progress
  <2>2. CASE phase = "setup" /\ step = Len(Order)
    <3>1. step = 12
      BY <2>2, OrderOK
    <3>2. Accepted(conf) /\ conf \in tuned /\ \A i \in 1 .. 12 : regs[Order[i]] = Byte(Order[i], conf)
      BY <2>2, <3>1 DEF SetupInv, Progress
    <3> QED
      BY <3>2, OrderOK DEF Agrees
  <2> QED
    BY <2>1, <2>2 DEF ChangeMode
<1>4. /\ phase' \in {"air", "ended"} /\ regs' = regs /\ conf' = conf /\ at' = at /\ at = "loaded"
      /\ tuned' = tuned
  BY DEF SetupInv, Progress, ChangeMode, Ends, loader
<1>5. Accepted(conf)' /\ Agrees(conf)' /\ (conf \in tuned)'
  BY <1>3, <1>4 DEF Agrees
<1>6. Progress'
  BY <1>4, <1>5 DEF Progress, OnAirIsOneConfig
<1> QED
  BY <1>1, <1>2, <1>6 DEF SetupInv

LEMMA StartStep == SetupInv /\ StartAgain => SetupInv'
<1> SUFFICES ASSUME SetupInv, StartAgain PROVE SetupInv'
  OBVIOUS
<1>1. Inv'
  BY InvStep DEF SetupInv, StartAgain, Next
<1>2. ChipTypes'
  BY PowerOnOK, RunsAssumption DEF SetupInv, StartAgain, ChipReset, ChipTypes, chip
<1>3. Progress'
  <2>1. phase' = "idle"
    BY DEF StartAgain
  <2>2. OnAirIsOneConfig'
    BY OneConfigStays DEF SetupInv, StartAgain, ChipReset, Progress, OnAirIsOneConfig, OnAir, chip
  <2> QED
    BY <2>1, <2>2 DEF Progress
<1> QED
  BY <1>1, <1>2, <1>3 DEF SetupInv

LEMMA SetupInvStep == SetupInv /\ [SetupNext]_vars => SetupInv'
<1> SUFFICES ASSUME SetupInv, [SetupNext]_vars PROVE SetupInv'
  OBVIOUS
<1>1. CASE UNCHANGED vars
  <2>1. Inv'
    BY <1>1, LoaderStays DEF SetupInv, vars
  <2>2. ChipTypes'
    BY <1>1 DEF SetupInv, ChipTypes, chip, vars
  <2>3. Progress'
    <3>1. Accepted(conf)' = Accepted(conf) /\ Agrees(conf)' = Agrees(conf)
      BY <1>1 DEF Agrees, vars, chip, loader
    <3> QED
      BY <1>1, <3>1, OneConfigStays DEF SetupInv, Progress, OnAir, vars, chip, loader
  <2> QED
    BY <2>1, <2>2, <2>3 DEF SetupInv
<1> QED
  BY <1>1, LoadStep, OpenStep, SleepStep, EndStep, WriteStep, ModeStep, StartStep
  DEF SetupNext

LEMMA SetupAlways == SetupSpec => []SetupInv
BY SetupInitInv, SetupInvStep, PTL DEF SetupSpec

-----------------------------------------------------------------------------
(* The properties.                                                         *)

LEMMA InvOnAir == SetupInv => OnAirAsWritten
<1> SUFFICES ASSUME SetupInv, phase = "air", OnAir
    PROVE  /\ \A f \in Written("frequency") : WithinStep(Above(f, ChipFrf), ChipFrf % 256)
           /\ \A n \in Written("spreading_factor") \intersect Ints : ChipSf = n
           /\ \A n \in Written("coding_rate") \intersect Ints : ChipCr = n
           /\ \A n \in Written("bandwidth") \intersect Ints : ChipBw - n \in -50 .. 50
           /\ \A n \in Written("tx_power") \intersect Ints :
                ChipPower = IF n < 2 THEN 2 ELSE IF n > 17 THEN 17 ELSE n
           /\ \A n \in Written("sync_word") \intersect Ints : regs["SYNC_WORD"] = n % 256
  BY DEF OnAirAsWritten
<1>1. Inv /\ at # "start" /\ Accepted(conf) /\ Agrees(conf) /\ Configured(conf)
  BY ConfConfigured DEF SetupInv, Progress
<1>2. /\ ChipFrf = Frf(conf["frequency"].number) % 16777216
      /\ ChipSf = Sf(conf) /\ ChipCr = Cr(conf)
      /\ ChipBw = Nominal(BandwidthReg(Bw(conf)))
      /\ ChipPower = Clamp(conf["tx_power"].number)
      /\ regs["SYNC_WORD"] = conf["sync_word"].number % 256
  BY <1>1, ChipReads
<1>3. /\ "frequency" \in UInt64Keys /\ "frequency" \notin IntKeys
      /\ {"spreading_factor", "coding_rate", "bandwidth", "tx_power", "sync_word"} \subseteq IntKeys
  BY DEF UInt64Keys, IntKeys
<1>4. ASSUME NEW f \in Written("frequency")
      PROVE  WithinStep(Above(f, ChipFrf), ChipFrf % 256)
  <2>1. conf["frequency"].number = f
    BY <1>1, <1>3, WrittenIs
  <2>2. f \in Nat
    BY <1>1, <2>1 DEF Configured
  <2>3. Frf(f) % 16777216 \in Int /\ ChipFrf = Frf(f) % 16777216
    BY SMT, <1>2, <2>1, <2>2, FrfNat
  <2> QED
    BY <2>2, <2>3, Tuned
<1>5. ASSUME NEW k \in {"spreading_factor", "coding_rate", "bandwidth", "tx_power", "sync_word"},
             NEW n \in Written(k) \intersect Ints
      PROVE  conf[k].number = n
  BY <1>1, <1>3, WrittenIs
<1>6. \A n \in Written("spreading_factor") \intersect Ints : ChipSf = n
  BY <1>2, <1>5 DEF Sf
<1>7. \A n \in Written("coding_rate") \intersect Ints : ChipCr = n
  BY <1>2, <1>5 DEF Cr
<1>8. \A n \in Written("bandwidth") \intersect Ints : ChipBw - n \in -50 .. 50
  <2>1. ChipBw - Bw(conf) \in -50 .. 50
    BY <1>1, <1>2, BandwidthOK DEF Accepted
  <2> QED
    BY <1>5, <2>1 DEF Bw
<1>9. \A n \in Written("tx_power") \intersect Ints :
        ChipPower = IF n < 2 THEN 2 ELSE IF n > 17 THEN 17 ELSE n
  BY <1>2, <1>5 DEF Clamp
<1>10. \A n \in Written("sync_word") \intersect Ints : regs["SYNC_WORD"] = n % 256
  BY <1>2, <1>5
<1> QED
  BY <1>4, <1>6, <1>7, <1>8, <1>9, <1>10

\* Whatever the file says, what is written to a register fits into its byte,
\* and the Config keeps its types.
THEOREM SetupTypes == SetupSpec => []SetupTypeOK
<1>1. SetupInv => SetupTypeOK
  BY InvImplies, OrderOK DEF SetupInv, ChipTypes, SetupTypeOK
<1> QED
  BY <1>1, SetupAlways, PTL

\* A daemon on the air uses the modulation of its own file: no register is
\* left from another file, and none is rounded or clamped otherwise than the
\* chip and its amplifier make necessary.
THEOREM OnAirCorrect == SetupSpec => []OnAirAsWritten
BY SetupAlways, InvOnAir, PTL

\* The chip is on the air only as the last complete set-up since its reset left
\* it: no process that ends half way through its own leaves a mixture on it.
THEOREM OneConfigCorrect == SetupSpec => []OnAirIsOneConfig
<1>1. SetupInv => OnAirIsOneConfig
  BY DEF SetupInv, Progress
<1> QED
  BY <1>1, SetupAlways, PTL

-----------------------------------------------------------------------------
(* The daemon with its radio loads the file as ConfigFile says.            *)

LEMMA SetupLoader == SetupNext => [Next]_loader
<1> USE DEF loader
<1>1. LoadConfig => Next
  BY DEF LoadConfig, Next
<1>2. StartAgain => Next
  BY DEF StartAgain, Next
<1>3. Open \/ Sleep \/ Reject \/ WriteReg \/ ChangeMode \/ End => UNCHANGED loader
  BY DEF Open, Sleep, Reject, WriteReg, ChangeMode, End
<1> QED
  BY <1>1, <1>2, <1>3 DEF SetupNext

\* RadioSetup implements ConfigFile: main() loads the file once per process, in
\* whatever the radio does, and the set-up only reads the Config.
THEOREM SetupLoads == SetupSpec => Spec
<1>1. [SetupNext]_vars => [Next]_loader
  BY SetupLoader DEF vars, loader
<1> QED
  BY <1>1, PTL DEF SetupSpec, Spec, SetupInit

\* So does its Config reflect the file, with the radio being set up from it.
THEOREM SetupConfigCorrect == SetupSpec => []RunsAsWritten
BY SetupLoads, ConfigCorrect, PTL

\* No register of the modem changes while the chip could receive or send: only
\* in sleep mode, or by a reset.  So the writes of begin_lora, one by one
\* here, may be the one step b_modem of module Sx1276.
THEOREM WritesAsleep ==
  SetupSpec => [][regs' # regs => regs' = PowerOn \/ (mode = "SLEEP" /\ mode' = "SLEEP")]_vars
<1>1. ASSUME SetupInv, [SetupNext]_vars, regs' # regs
      PROVE  regs' = PowerOn \/ (mode = "SLEEP" /\ mode' = "SLEEP")
  <2>1. CASE WriteReg
    BY <1>1, <2>1 DEF WriteReg, SetupInv, Progress
  <2>2. CASE Open \/ StartAgain
    BY <1>1, <2>2 DEF Open, StartAgain, ChipReset, chip
  <2>3. ~(LoadConfig \/ Sleep \/ Reject \/ ChangeMode \/ End \/ UNCHANGED vars)
    BY <1>1 DEF LoadConfig, Sleep, Reject, ChangeMode, End, chip, vars
  <2> QED
    BY <1>1, <2>1, <2>2, <2>3 DEF SetupNext
<1>2. SetupInv /\ [SetupNext]_vars =>
        [regs' # regs => regs' = PowerOn \/ (mode = "SLEEP" /\ mode' = "SLEEP")]_vars
  BY <1>1
<1> QED
  BY <1>2, SetupAlways, PTL DEF SetupSpec
=============================================================================
