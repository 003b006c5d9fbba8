-------------------------- MODULE AddressBusProofs --------------------------
(***************************************************************************)
(* For every set of cartridges, programs and button states: the serial     *)
(* port of MMC1 is the abstract one, the banks follow the registers, and   *)
(* the joypad is read in its order.                                        *)
(***************************************************************************)
EXTENDS AddressBus, SequenceTheorems, TLAPS

-----------------------------------------------------------------------------
(***************************************************************************)
(* What a step of the system is to the cartridge                           *)
(***************************************************************************)

\* A load of a register, bit by bit, by the running program.
Load == \E a \in Nat, v \in Byte : write(a, v) /\ Intended(a, v)

\* Nothing but a store of the processor changes the cartridge.
LEMMA CartridgeStep ==
  ASSUME program \in DOMAIN Programs, [Next]_vars
  PROVE  Load \/ UNCHANGED cartridge_vars
<1>1. CASE joypads_step
  BY <1>1 DEF joypads_step
<1>2. CASE processor_step
  <2>1. CASE Compute
    BY <2>1 DEF Compute
  <2>2. ASSUME NEW a \in Programs[program].reads, Read(a)
        PROVE  UNCHANGED cartridge_vars
    BY <2>2 DEF Read
  <2>3. ASSUME NEW w \in Programs[program].writes, Write(w[1], w[2])
        PROVE  Load \/ UNCHANGED cartridge_vars
    <3>1. w[1] \in Nat /\ w[2] \in Byte
      BY ProgramsAssumption DEF ProgramSet
    <3>2. CASE UNCHANGED cartridge_vars
      BY <3>2
    <3>3. CASE WriteCartridge(w[1], w[2])
      BY <3>1, <3>3 DEF WriteCartridge, Load
    <3>4. QED
      BY <2>3, <3>2, <3>3 DEF Write
  <2>4. QED
    BY <1>2, <2>1, <2>2, <2>3 DEF processor_step
<1>3. CASE Press /\ UNCHANGED <<cartridge_vars, bus_vars>>
  BY <1>3
<1>4. ASSUME NEW s \in Programs[program].stores, StoreVideo(s[1], s[2])
      PROVE  UNCHANGED cartridge_vars
  BY <1>4 DEF StoreVideo
<1>5. CASE UNCHANGED vars
  BY <1>5 DEF vars
<1>6. QED
  BY <1>1, <1>2, <1>3, <1>4, <1>5 DEF Next

\* The program is chosen once, with its cartridge.
ProgramRuns ==
  /\ program \in DOMAIN Programs
  /\ cartridge_ = Programs[program].rom

LEMMA ProgramUnchanged ==
  ASSUME [Next]_vars
  PROVE  UNCHANGED <<program, cartridge_>>
BY DEF Next, vars, bus_vars, cartridge_vars, joypads_step, processor_step, Compute, Read, Write,
       WriteCartridge, write, StoreVideo

\* A program goes on with the cartridge it was started with.
LEMMA ProgramKept == Spec => []ProgramRuns
<1>1. Init => ProgramRuns
  BY DEF Init, ProgramRuns
<1>2. ProgramRuns /\ [Next]_vars => ProgramRuns'
  BY ProgramUnchanged DEF ProgramRuns
<1>3. QED
  BY <1>1, <1>2, PTL DEF Spec

-----------------------------------------------------------------------------
(***************************************************************************)
(* The serial port                                                         *)
(***************************************************************************)

LoadTyped ==
  /\ load_write_count_ \in 0 .. 4
  /\ load_register_ \in Value
  /\ register_ \in [Register -> Value]

\* One more bit keeps the load register a value of five bits.
LEMMA ShiftedType ==
  ASSUME load_register_ \in Value, NEW v \in Byte
  PROVE  /\ Shifted(v) \in Value
         /\ v % 2 \in 0 .. 1
         /\ Shifted(v) = load_register_ \div 2 + 16 * (v % 2)
<1>1. v % 2 \in 0 .. 1
  BY DEF Byte
<1>2. load_register_ \div 2 \in 0 .. 15
  BY DEF Value
<1>3. QED
  BY <1>1, <1>2 DEF Shifted, Value

LEMMA RegisterAtType ==
  ASSUME NEW a \in Nat
  PROVE  RegisterAt(a) \in Register
BY DEF RegisterAt, Register

LEMMA LoadKeepsType ==
  ASSUME LoadTyped, Load
  PROVE  LoadTyped'
<1> PICK a \in Nat, v \in Byte : write(a, v)
  BY DEF Load
<1>1. Shifted(v) \in Value
  BY ShiftedType DEF LoadTyped
<1>2. CASE ClearWrite(v)
  BY <1>2 DEF ClearWrite, ClearLoad, LoadTyped, Value
<1>3. CASE ShiftWrite(v)
  BY <1>1, <1>3 DEF ShiftWrite, LoadTyped
<1>4. CASE CommitWrite(RegisterAt(a), v)
  <2>1. register_' \in [Register -> Value]
    BY <1>1, <1>4 DEF CommitWrite, LoadTyped
  <2>2. QED
    BY <1>4, <2>1 DEF CommitWrite, ClearLoad, LoadTyped, Value
<1>5. QED
  BY <1>2, <1>3, <1>4 DEF write

\* Count, load register and registers keep their widths.
THEOREM LoadTypeCorrect == Spec => []LoadTyped
<1>1. Init => LoadTyped
  BY DEF Init, CartridgeInit, LoadTyped, Value
<1>2. LoadTyped /\ ProgramRuns /\ [Next]_vars => LoadTyped'
  <2> SUFFICES ASSUME LoadTyped, ProgramRuns, [Next]_vars
               PROVE  LoadTyped'
    OBVIOUS
  <2>1. CASE Load
    BY <2>1, LoadKeepsType
  <2>2. CASE UNCHANGED cartridge_vars
    BY <2>2 DEF LoadTyped, cartridge_vars
  <2>3. QED
    BY <2>1, <2>2, CartridgeStep DEF ProgramRuns
<1>3. QED
  BY <1>1, <1>2, ProgramKept, PTL DEF Spec

LEMMA AppendPlaces ==
  ASSUME NEW bits \in Seq(Int), NEW b \in Int, NEW n \in Nat, Len(bits) = n
  PROVE  /\ \A i \in 1 .. n : Append(bits, b)[i] = bits[i]
         /\ Append(bits, b)[n + 1] = b
BY AppendProperties

\* A bit that is shifted in stands behind the bits that were there.
LEMMA ShiftAppends ==
  ASSUME LoadTyped, NEW v \in Byte, ShiftWrite(v)
  PROVE  LoadedBits' = Append(LoadedBits, v % 2)
<1>1. /\ load_write_count_ \in {0, 1, 2, 3}
      /\ load_write_count_' = load_write_count_ + 1
      /\ load_register_' = load_register_ \div 2 + 16 * (v % 2)
      /\ load_register_ \in 0 .. 31
      /\ v % 2 \in 0 .. 1
  BY ShiftedType DEF LoadTyped, ShiftWrite, Value
<1>2. \A r \in 0 .. 31, b \in 0 .. 1 : LET n == r \div 2 + 16 * b IN
        /\ (n \div 16) % 2 = b
        /\ (n \div 8) % 2 = (r \div 16) % 2
        /\ (n \div 4) % 2 = (r \div 8) % 2
        /\ (n \div 2) % 2 = (r \div 4) % 2
  OBVIOUS
<1>3. LoadedBits \in Seq(Int) /\ Len(LoadedBits) = load_write_count_
  BY <1>1 DEF LoadedBits, Weight
<1>4. LoadedBits' \in Seq(Int) /\ Len(LoadedBits') = load_write_count_ + 1
  BY <1>1 DEF LoadedBits, Weight
<1>5. /\ Append(LoadedBits, v % 2) \in Seq(Int)
      /\ Len(Append(LoadedBits, v % 2)) = load_write_count_ + 1
  BY <1>1, <1>3
<1>6. ASSUME NEW i \in 1 .. load_write_count_ + 1
      PROVE  LoadedBits'[i] = Append(LoadedBits, v % 2)[i]
  <2>1. CASE i = load_write_count_ + 1
    <3>1. Append(LoadedBits, v % 2)[i] = v % 2
      <4>1. load_write_count_ \in Nat /\ v % 2 \in Int
        BY <1>1
      <4>2. QED
        BY <1>3, <2>1, <4>1, AppendPlaces
    <3>2. LoadedBits'[i] = (load_register_' \div 16) % 2
      BY <1>1, <2>1 DEF LoadedBits, Weight
    <3>3. (load_register_' \div 16) % 2 = v % 2
      BY <1>1, <1>2
    <3>4. QED
      BY <3>1, <3>2, <3>3
  <2>2. CASE i # load_write_count_ + 1
    <3>1. i \in 1 .. load_write_count_
      BY <1>1, <2>2
    <3>2. QED
      BY <1>1, <1>2, <1>3, <3>1 DEF LoadedBits, Weight
  <2>3. QED
    BY <2>1, <2>2
<1>7. QED
  BY <1>4, <1>5, <1>6, SeqEqual

LEMMA AssembledAppend ==
  ASSUME NEW bits \in Seq(Int), Len(bits) = 4, NEW b \in Int
  PROVE  Serial!Assembled(Append(bits, b)) =
           bits[1] + 2 * bits[2] + 4 * bits[3] + 8 * bits[4] + 16 * b
<1> DEFINE all == Append(bits, b)
<1>1. \A n \in Nat : Len(bits) = n => /\ \A i \in 1 .. n : all[i] = bits[i]
                                      /\ all[n + 1] = b
  BY AppendPlaces
<1> HIDE DEF all
<1>2. (\A i \in 1 .. 4 : all[i] = bits[i]) /\ all[4 + 1] = b
  BY <1>1
<1>3. all[1] = bits[1] /\ all[2] = bits[2] /\ all[3] = bits[3] /\ all[4] = bits[4] /\ all[5] = b
  BY <1>2
<1>4. Serial!Assembled(all) = bits[1] + 2 * bits[2] + 4 * bits[3] + 8 * bits[4] + 16 * b
  BY <1>3 DEF Serial!Assembled
<1>5. QED
  BY <1>4 DEF all

\* Five bits are the value that the load register then holds.
LEMMA CommitAssembles ==
  ASSUME LoadTyped, load_write_count_ = 4, NEW v \in Byte
  PROVE  /\ Len(LoadedBits) = 4
         /\ Serial!Assembled(Append(LoadedBits, v % 2)) = Shifted(v)
<1>1. load_register_ \in 0 .. 31 /\ v % 2 \in 0 .. 1
  BY ShiftedType DEF LoadTyped, Value
<1>2. LoadedBits \in Seq(Int) /\ Len(LoadedBits) = 4
  BY <1>1 DEF LoadedBits, Weight
<1>3. /\ LoadedBits[1] = (load_register_ \div 2) % 2
      /\ LoadedBits[2] = (load_register_ \div 4) % 2
      /\ LoadedBits[3] = (load_register_ \div 8) % 2
      /\ LoadedBits[4] = (load_register_ \div 16) % 2
  <2>1. LoadedBits = [i \in 1 .. 4 |-> (load_register_ \div Weight[1 + i]) % 2]
    BY DEF LoadedBits
  <2>2. Weight[2] = 2 /\ Weight[3] = 4 /\ Weight[4] = 8 /\ Weight[5] = 16
    BY DEF Weight
  <2>3. \A i \in 1 .. 4 : LoadedBits[i] = (load_register_ \div Weight[1 + i]) % 2
    BY <2>1
  <2>4. LoadedBits[1] = (load_register_ \div 2) % 2
    BY <2>2, <2>3
  <2>5. LoadedBits[2] = (load_register_ \div 4) % 2
    BY <2>2, <2>3
  <2>6. LoadedBits[3] = (load_register_ \div 8) % 2
    BY <2>2, <2>3
  <2>7. LoadedBits[4] = (load_register_ \div 16) % 2
    BY <2>2, <2>3
  <2>8. QED
    BY <2>4, <2>5, <2>6, <2>7
<1>4. \A r \in 0 .. 31 :
        r \div 2 = ((r \div 2) % 2) + 2 * ((r \div 4) % 2) + 4 * ((r \div 8) % 2)
                     + 8 * ((r \div 16) % 2)
  OBVIOUS
<1>5. \A b \in Int : Serial!Assembled(Append(LoadedBits, b)) =
        LoadedBits[1] + 2 * LoadedBits[2] + 4 * LoadedBits[3] + 8 * LoadedBits[4] + 16 * b
  BY <1>2, AssembledAppend
<1>6. Shifted(v) = load_register_ \div 2 + 16 * (v % 2)
  BY DEF Shifted
<1>7. load_register_ \div 2 =
        LoadedBits[1] + 2 * LoadedBits[2] + 4 * LoadedBits[3] + 8 * LoadedBits[4]
  BY <1>1, <1>3, <1>4
<1>8. v % 2 \in Int
  BY <1>1
<1>9. QED
  BY <1>2, <1>5, <1>6, <1>7, <1>8

\* A load is a step of the serial port.
LEMMA LoadIsSerial ==
  ASSUME LoadTyped, Load
  PROVE  Serial!Next
<1> PICK a \in Nat, v \in Byte : write(a, v)
  BY DEF Load
<1>1. UNCHANGED Missing
  BY DEF write, Missing, has_chr_ram
<1>2. v % 2 \in Serial!Bit
  BY ShiftedType DEF LoadTyped, Serial!Bit
<1>3. CASE ClearWrite(v)
  <2>1. LoadedBits' = <<>>
    BY <1>3 DEF ClearWrite, ClearLoad, LoadedBits
  <2>2. Serial!Clear
    BY <1>1, <1>3, <2>1 DEF ClearWrite, Serial!Clear
  <2>3. QED
    BY <2>2 DEF Serial!Next
<1>4. CASE ShiftWrite(v)
  <2>1. LoadedBits' = Append(LoadedBits, v % 2)
    BY <1>4, ShiftAppends
  <2>2. Len(LoadedBits) < 4
    BY <1>4 DEF ShiftWrite, LoadTyped, LoadedBits
  <2>3. Serial!Shift(v % 2)
    BY <1>1, <1>4, <2>1, <2>2 DEF ShiftWrite, Serial!Shift
  <2>4. QED
    BY <1>2, <2>3 DEF Serial!Next
<1>5. CASE CommitWrite(RegisterAt(a), v)
  <2>1. Len(LoadedBits) = 4 /\ Serial!Assembled(Append(LoadedBits, v % 2)) = Shifted(v)
    BY <1>5, CommitAssembles DEF CommitWrite
  <2>2. LoadedBits' = <<>>
    BY <1>5 DEF CommitWrite, ClearLoad, LoadedBits
  <2>3. Serial!Commit(RegisterAt(a), v % 2)
    BY <1>1, <1>5, <2>1, <2>2 DEF CommitWrite, Serial!Commit
  <2>4. QED
    BY <1>2, <2>3, RegisterAtType DEF Serial!Next
<1>6. QED
  BY <1>3, <1>4, <1>5 DEF write

\* The registers are loaded as through the abstract serial port, whatever the
\* programs write and wherever they break off (ImplementsSerialPort).
THEOREM SerialPortImplemented == Spec => ImplementsSerialPort
<1>1. Init => Serial!Init
  BY DEF Init, CartridgeInit, Serial!Init, LoadedBits, Missing, Register
<1>2. LoadTyped /\ ProgramRuns /\ [Next]_vars => [Serial!Next]_(Serial!vars)
  <2> SUFFICES ASSUME LoadTyped, ProgramRuns, [Next]_vars
               PROVE  [Serial!Next]_(Serial!vars)
    OBVIOUS
  <2>1. CASE Load
    BY <2>1, LoadIsSerial
  <2>2. CASE UNCHANGED cartridge_vars
    BY <2>2 DEF cartridge_vars, Serial!vars, LoadedBits, Missing, has_chr_ram
  <2>3. QED
    BY <2>1, <2>2, CartridgeStep DEF ProgramRuns
<1>3. QED
  BY <1>1, <1>2, LoadTypeCorrect, ProgramKept, PTL
     DEF Spec, ImplementsSerialPort, Serial!Spec

-----------------------------------------------------------------------------
(***************************************************************************)
(* The banks                                                               *)
(***************************************************************************)

Spans == [first : Nat, size : Nat]

BanksTyped == bank_ \in [prg0 : Spans, prg1 : Spans, chr0 : Spans, chr1 : Spans]

\* The program window is the one of the mode it was selected in, the window behind
\* it is the last bank.
ProgramBanks ==
  /\ bank_.prg1 = Span((cartridge_.prg - 1) * 16 * K, 16 * K)
  /\ mapped_in \in {0, 1, 3} =>
       /\ bank_.prg0 = Span((register_["prg"] % 16) * 16 * K,
                            IF mapped_in = 3 THEN 16 * K ELSE 32 * K)
       /\ (register_["prg"] % 16) + (IF mapped_in = 3 THEN 1 ELSE 2) <= cartridge_.prg

\* A pattern window has one of two sizes, and the size of its selection.
PatternBanks ==
  /\ bank_.chr0.size \in {4 * K, 8 * K}
  /\ bank_.chr0.size = 4 * K => bank_.chr0.first = register_["chr0"] * (4 * K)
  /\ bank_.chr0.size = 8 * K => bank_.chr0.first = register_["chr0"] * (8 * K)
  /\ bank_.chr1.size \in {0, 4 * K}
  /\ bank_.chr1.size = 4 * K => bank_.chr1.first = register_["chr1"] * (4 * K)
  /\ ~has_chr_ram =>
       /\ bank_.chr0.size = 8 * K => register_["chr0"] + 1 <= cartridge_.chr
       /\ bank_.chr0.size = 4 * K => register_["chr0"] + 1 <= 2 * cartridge_.chr
       /\ bank_.chr1.size = 4 * K => register_["chr1"] + 1 <= 2 * cartridge_.chr

BanksInv ==
  cartridge_.mapper = 1 => BanksTyped /\ ProgramBanks /\ PatternBanks

LEMMA RomTyped ==
  ASSUME ProgramRuns
  PROVE  /\ cartridge_ \in [mapper : {0, 1}, prg : Nat \ {0}, chr : Nat, vertical : BOOLEAN]
         /\ Programs[program] \in ProgramSet
BY ProgramsAssumption, RomsAssumption DEF ProgramRuns, ProgramSet

LEMMA SpanTyped ==
  ASSUME NEW first \in Nat, NEW size \in Nat
  PROVE  /\ Span(first, size) \in Spans
         /\ Span(first, size).first = first /\ Span(first, size).size = size
BY DEF Span, Spans

LEMMA ChrSizes == ChrSize \in {4 * K, 8 * K}
BY DEF ChrSize

\* The banks of the cartridge, for a size of the pattern banks and a mode.
HasProgram(value) ==
  /\ PrgMode \in {0, 1} => (value % 16) + 2 <= cartridge_.prg
  /\ PrgMode = 3 => (value % 16) + 1 <= cartridge_.prg

HasPattern(r, value) ==
  ~has_chr_ram =>
    /\ r = "chr0" /\ ChrSize = 8 * K => value + 1 <= cartridge_.chr
    /\ r \in {"chr0", "chr1"} /\ ChrSize = 4 * K => value + 1 <= 2 * cartridge_.chr

\* What a program may load into a register of its cartridge.
LEMMA IntendedValues ==
  ASSUME ProgramRuns, cartridge_.mapper = 1, LoadTyped, load_write_count_ = 4,
         NEW a \in Nat, NEW v \in Byte, v < 128, Intended(a, v)
  PROVE  LET r == RegisterAt(a) IN
         /\ Shifted(v) \in Value
         /\ r = "prg" => HasProgram(Shifted(v))
         /\ HasPattern(r, Shifted(v))
<1> DEFINE r == RegisterAt(a)
           value == Shifted(v)
<1>1. value \in Value
  BY ShiftedType DEF LoadTyped
<1>2. Has(r, value)
  BY DEF Intended
<1>3. cartridge_.chr \in Nat
  BY RomTyped
<1> HIDE DEF r, value
<1>4. r = "prg" => HasProgram(value)
  BY <1>2 DEF Has, HasProgram
<1>5. HasPattern(r, value)
  <2> SUFFICES ASSUME ~has_chr_ram
               PROVE  HasPattern(r, value)
    BY DEF HasPattern
  <2>1. value \in Int
    BY <1>1 DEF Value
  <2>2. r \in {"chr0", "chr1"} /\ ChrSize = 4 * K => (value + 1) * 4096 <= cartridge_.chr * 8192
    BY <1>2, <1>3, <2>1 DEF Has, K
  <2>3. r = "chr0" /\ ChrSize = 8 * K => (value + 1) * 8192 <= cartridge_.chr * 8192
    BY <1>2, <1>3, <2>1 DEF Has, K
  <2>4. QED
    BY <1>3, <2>1, <2>2, <2>3 DEF HasPattern
<1>6. QED
  BY <1>1, <1>4, <1>5 DEF r, value

\* A load that ends with the selection of a program bank.
LEMMA SelectProgram ==
  ASSUME ProgramRuns, cartridge_.mapper = 1, LoadTyped, BanksInv,
         NEW v \in Byte, Shifted(v) \in Value, HasProgram(Shifted(v)),
         UNCHANGED cartridge_, CommitWrite("prg", v)
  PROVE  BanksInv'
<1> DEFINE value == Shifted(v)
<1>1. /\ register_' = [register_ EXCEPT !["prg"] = value]
      /\ bank_' = Mapped("prg", value)
      /\ mapped_in' = PrgMode
  BY DEF CommitWrite, Missing
<1>2. register_'["prg"] = value /\ register_'["chr0"] = register_["chr0"]
        /\ register_'["chr1"] = register_["chr1"]
  BY <1>1 DEF LoadTyped, Register
<1>3. value % 16 \in Nat
  BY DEF Value
<1> HIDE DEF value
<1>4. /\ PrgMode \in {0, 1} => bank_' = [bank_ EXCEPT !.prg0 = Span((value % 16) * 16 * K, 32 * K)]
      /\ PrgMode = 3 => bank_' = [bank_ EXCEPT !.prg0 = Span((value % 16) * 16 * K, 16 * K)]
      /\ PrgMode \notin {0, 1, 3} => bank_' = bank_
  BY <1>1 DEF Mapped, prg_rom
<1>5. /\ Span((value % 16) * 16 * K, 32 * K) \in Spans
      /\ Span((value % 16) * 16 * K, 16 * K) \in Spans
  BY <1>3, SpanTyped DEF K
<1>6. /\ bank_'.prg1 = bank_.prg1 /\ bank_'.chr0 = bank_.chr0 /\ bank_'.chr1 = bank_.chr1
      /\ BanksTyped'
  BY <1>4, <1>5 DEF BanksInv, BanksTyped
<1>7. /\ PrgMode \in {0, 1} => bank_'.prg0 = Span((value % 16) * 16 * K, 32 * K)
      /\ PrgMode = 3 => bank_'.prg0 = Span((value % 16) * 16 * K, 16 * K)
  BY <1>4 DEF BanksInv, BanksTyped
<1>8. ProgramBanks'
  BY <1>1, <1>2, <1>6, <1>7 DEF ProgramBanks, BanksInv, HasProgram, value
<1>9. PatternBanks'
  BY <1>2, <1>6 DEF PatternBanks, BanksInv, has_chr_ram
<1>10. QED
  BY <1>6, <1>8, <1>9 DEF BanksInv

\* A load that ends with the selection of a pattern bank.
LEMMA SelectPattern ==
  ASSUME ProgramRuns, cartridge_.mapper = 1, LoadTyped, BanksInv,
         NEW v \in Byte, Shifted(v) \in Value, NEW r \in {"chr0", "chr1"},
         HasPattern(r, Shifted(v)), UNCHANGED cartridge_, CommitWrite(r, v)
  PROVE  BanksInv'
<1> DEFINE value == Shifted(v)
<1>1. /\ register_' = IF r \in Missing THEN register_ ELSE [register_ EXCEPT ![r] = value]
      /\ bank_' = Mapped(r, value)
      /\ UNCHANGED mapped_in
  BY DEF CommitWrite
<1> HIDE DEF value
<1>2. value \in 0 .. 31
  BY DEF value, Value
<1>3. UNCHANGED has_chr_ram
  BY DEF has_chr_ram
<1>4. value * ChrSize \in Nat /\ ChrSize \in {4 * K, 8 * K}
  BY <1>2, ChrSizes DEF K
<1>5. Span(value * ChrSize, ChrSize) \in Spans /\ Empty \in Spans
  BY <1>4, SpanTyped DEF Empty, K
<1>6. CASE r = "chr0" /\ has_chr_ram
  <2>1. UNCHANGED <<register_, bank_>>
    BY <1>1, <1>6 DEF Missing, Mapped
  <2>2. QED
    BY <1>1, <1>3, <2>1 DEF BanksInv, BanksTyped, ProgramBanks, PatternBanks
<1>7. CASE r = "chr0" /\ ~has_chr_ram
  <2>1. bank_' = [bank_ EXCEPT !.chr0 = Span(value * ChrSize, ChrSize)]
    BY <1>1, <1>7 DEF Mapped, chr_rom
  <2>2. /\ bank_'.prg0 = bank_.prg0 /\ bank_'.prg1 = bank_.prg1 /\ bank_'.chr1 = bank_.chr1
        /\ bank_'.chr0 = Span(value * ChrSize, ChrSize)
        /\ BanksTyped'
    BY <1>5, <2>1 DEF BanksInv, BanksTyped
  <2>3. bank_'.chr0.first = value * ChrSize /\ bank_'.chr0.size = ChrSize
    BY <2>2 DEF Span
  <2>4. /\ register_'["prg"] = register_["prg"] /\ register_'["chr1"] = register_["chr1"]
        /\ register_'["chr0"] = value
    BY <1>1, <1>7 DEF Missing, LoadTyped, Register
  <2>5. ProgramBanks'
    BY <1>1, <2>2, <2>4 DEF ProgramBanks, BanksInv
  <2>6. PatternBanks'
    BY <1>3, <1>4, <1>7, <2>2, <2>3, <2>4 DEF PatternBanks, BanksInv, HasPattern, value, K
  <2>7. QED
    BY <2>2, <2>5, <2>6 DEF BanksInv
<1>8. CASE r = "chr1"
  <2>1. bank_' = [bank_ EXCEPT !.chr1 = IF ChrSize = 4 * K THEN Span(value * ChrSize, ChrSize)
                                        ELSE Empty]
    BY <1>1, <1>8 DEF Mapped, chr_rom
  <2>2. /\ bank_'.prg0 = bank_.prg0 /\ bank_'.prg1 = bank_.prg1 /\ bank_'.chr0 = bank_.chr0
        /\ bank_'.chr1 = IF ChrSize = 4 * K THEN Span(value * ChrSize, ChrSize) ELSE Empty
        /\ BanksTyped'
    BY <1>5, <2>1 DEF BanksInv, BanksTyped
  <2>3. /\ ChrSize = 4 * K => bank_'.chr1.first = value * (4 * K) /\ bank_'.chr1.size = 4 * K
        /\ ChrSize # 4 * K => bank_'.chr1.size = 0
    BY <2>2 DEF Span, Empty
  <2>4. /\ register_'["prg"] = register_["prg"] /\ register_'["chr0"] = register_["chr0"]
        /\ register_'["chr1"] = value
    BY <1>1, <1>8 DEF Missing, LoadTyped, Register
  <2>5. ProgramBanks'
    BY <1>1, <2>2, <2>4 DEF ProgramBanks, BanksInv
  <2>6. 4 * K # 0
    BY DEF K
  <2>7. PatternBanks'
    BY <1>3, <1>8, <2>2, <2>3, <2>4, <2>6 DEF PatternBanks, BanksInv, HasPattern, value
  <2>8. QED
    BY <2>2, <2>5, <2>7 DEF BanksInv
<1>9. QED
  BY <1>6, <1>7, <1>8

\* A load of the control register moves no window.
LEMMA SelectMode ==
  ASSUME ProgramRuns, LoadTyped, BanksInv, NEW v \in Byte,
         UNCHANGED cartridge_, CommitWrite("control", v)
  PROVE  BanksInv'
<1>1. UNCHANGED <<bank_, mapped_in>>
  BY DEF CommitWrite, Mapped
<1>2. /\ register_'["prg"] = register_["prg"] /\ register_'["chr0"] = register_["chr0"]
      /\ register_'["chr1"] = register_["chr1"]
  BY DEF CommitWrite, LoadTyped, Register, Missing
<1>3. QED
  BY <1>1, <1>2 DEF BanksInv, BanksTyped, ProgramBanks, PatternBanks, has_chr_ram

LEMMA BanksKept ==
  ASSUME UNCHANGED <<cartridge_, register_, bank_, mapped_in>>, BanksInv
  PROVE  BanksInv'
BY DEF BanksInv, BanksTyped, ProgramBanks, PatternBanks, has_chr_ram

LEMMA LoadKeepsBanks ==
  ASSUME ProgramRuns, LoadTyped, BanksInv, Load
  PROVE  BanksInv'
<1> PICK a \in Nat, v \in Byte : write(a, v) /\ Intended(a, v)
  BY DEF Load
<1>1. UNCHANGED cartridge_
  BY DEF write
<1>2. CASE ClearWrite(v) \/ ShiftWrite(v)
  BY <1>1, <1>2, BanksKept DEF ClearWrite, ShiftWrite
<1>3. CASE CommitWrite(RegisterAt(a), v)
  <2> SUFFICES ASSUME cartridge_.mapper = 1
               PROVE  BanksInv'
    BY <1>1 DEF BanksInv
  <2>1. load_write_count_ = 4 /\ v < 128
    BY <1>3 DEF CommitWrite
  <2>2. /\ Shifted(v) \in Value
        /\ RegisterAt(a) = "prg" => HasProgram(Shifted(v))
        /\ HasPattern(RegisterAt(a), Shifted(v))
    BY <2>1, IntendedValues
  <2>3. CASE RegisterAt(a) = "prg"
    BY <1>1, <1>3, <2>2, <2>3, SelectProgram
  <2>4. CASE RegisterAt(a) \in {"chr0", "chr1"}
    BY <1>1, <1>3, <2>2, <2>4, SelectPattern
  <2>5. CASE RegisterAt(a) = "control"
    BY <1>1, <1>3, <2>5, SelectMode
  <2>6. QED
    BY <2>3, <2>4, <2>5 DEF RegisterAt
<1>4. QED
  BY <1>2, <1>3 DEF write

LEMMA BanksAtReset ==
  ASSUME Init
  PROVE  BanksInv
<1> SUFFICES ASSUME cartridge_.mapper = 1
             PROVE  BanksInv
  BY DEF BanksInv
<1>1. ProgramRuns
  BY DEF Init, ProgramRuns
<1>2. cartridge_.prg \in Nat \ {0} /\ cartridge_.chr \in Nat
  BY <1>1, RomTyped
<1>3. bank_ = [prg0 |-> Span(0, 16 * K), prg1 |-> Span((cartridge_.prg - 1) * 16 * K, 16 * K),
               chr0 |-> Span(0, 8 * K), chr1 |-> Empty]
  BY DEF Init, CartridgeInit, reset, reset_NROM, reset_MMC1
<1>4. /\ Span(0, 16 * K) \in Spans /\ Span(0, 8 * K) \in Spans /\ Empty \in Spans
      /\ Span((cartridge_.prg - 1) * 16 * K, 16 * K) \in Spans
  BY <1>2, SpanTyped DEF Empty, K
<1>5. BanksTyped
  BY <1>3, <1>4 DEF BanksTyped
<1>6. register_ = [r \in Register |-> 0] /\ mapped_in = None
  BY DEF Init, CartridgeInit
<1>7. ProgramBanks
  BY <1>3, <1>6 DEF ProgramBanks, None
<1>8. register_["chr0"] = 0 /\ register_["chr1"] = 0
  BY <1>6 DEF Register
<1>9. bank_.chr0.first = 0 /\ bank_.chr0.size = 8 * K /\ bank_.chr1.size = 0
  BY <1>3 DEF Span, Empty
<1>10. PatternBanks
  BY <1>2, <1>8, <1>9 DEF PatternBanks, has_chr_ram, K
<1>11. QED
  BY <1>5, <1>7, <1>10 DEF BanksInv

LEMMA BanksInvariant == Spec => []BanksInv
<1>1. Init => BanksInv
  BY BanksAtReset
<1>2. BanksInv /\ LoadTyped /\ ProgramRuns /\ [Next]_vars => BanksInv'
  <2> SUFFICES ASSUME BanksInv, LoadTyped, ProgramRuns, [Next]_vars
               PROVE  BanksInv'
    OBVIOUS
  <2>1. CASE Load
    BY <2>1, LoadKeepsBanks
  <2>2. CASE UNCHANGED cartridge_vars
    BY <2>2, BanksKept DEF cartridge_vars
  <2>3. QED
    BY <2>1, <2>2, CartridgeStep DEF ProgramRuns
<1>3. QED
  BY <1>1, <1>2, LoadTypeCorrect, ProgramKept, PTL DEF Spec

LEMMA SettledProgram ==
  ASSUME ProgramRuns, cartridge_.mapper = 1, LoadTyped, BanksInv, ProgramSettled,
         NEW a \in {32 * K, 48 * K - 1, 48 * K, 64 * K - 1}
  PROVE  /\ read(a) = ProgramPlace(a)
         /\ read(a) \in 0 .. cartridge_.prg * 16 * K - 1
<1> DEFINE bank == register_["prg"] % 16
<1>1. bank \in Nat
  BY DEF LoadTyped, Register, Value
<1>2. PrgMode \in {0, 1, 2, 3}
  BY DEF PrgMode, LoadTyped, Register, Value
<1>3. cartridge_.prg \in Nat
  BY RomTyped
<1>4. /\ bank_.prg1.first = (cartridge_.prg - 1) * 16 * K
      /\ bank_.prg0.first = bank * 16 * K
      /\ bank_.prg0.size = IF PrgMode = 3 THEN 16 * K ELSE 32 * K
      /\ bank + (IF PrgMode = 3 THEN 1 ELSE 2) <= cartridge_.prg
  BY <1>2 DEF BanksInv, ProgramBanks, ProgramSettled, Span
<1> HIDE DEF bank
<1>5. /\ read(a) = IF a < 32 * K + bank_.prg0.size THEN bank_.prg0.first + a - 32 * K
                   ELSE IF a >= 48 * K THEN bank_.prg1.first + a - 48 * K ELSE None
      /\ ProgramPlace(a) = IF PrgMode = 3 /\ a >= 48 * K
                           THEN (cartridge_.prg - 1) * 16 * K + a - 48 * K
                           ELSE bank * 16 * K + a - 32 * K
  BY DEF read, read_MMC1, ProgramPlace, bank
<1>6. CASE PrgMode = 3
  BY <1>1, <1>3, <1>4, <1>5, <1>6 DEF K
<1>7. CASE PrgMode # 3
  BY <1>1, <1>3, <1>4, <1>5, <1>7 DEF K
<1>8. QED
  BY <1>6, <1>7

LEMMA SettledPatterns ==
  ASSUME ProgramRuns, cartridge_.mapper = 1, LoadTyped, BanksInv, PatternsSettled,
         NEW a \in {0, 4 * K - 1, 4 * K, 8 * K - 1}
  PROVE  /\ ppu_read(a) = PatternPlace(a)
         /\ ~has_chr_ram => ppu_read(a) \in 0 .. cartridge_.chr * 8 * K - 1
<1>1. register_["chr0"] \in Nat /\ register_["chr1"] \in Nat
  BY DEF LoadTyped, Register, Value
<1>2. cartridge_.chr \in Nat
  BY RomTyped
<1>3. ~has_chr_ram =>
        /\ bank_.chr0.size = 8 * K => register_["chr0"] + 1 <= cartridge_.chr
        /\ bank_.chr0.size = 4 * K => register_["chr0"] + 1 <= 2 * cartridge_.chr
  BY DEF BanksInv, PatternBanks
<1>4. bank_.chr0.size = ChrSize
  BY DEF PatternsSettled
<1>5. CASE ChrSize = 8 * K
  <2>1. bank_.chr0.first = register_["chr0"] * (8 * K)
    BY <1>4, <1>5 DEF BanksInv, PatternBanks
  <2>2. ppu_read(a) = register_["chr0"] * (8 * K) + a
    BY <1>4, <1>5, <2>1 DEF ppu_read, K
  <2>3. PatternPlace(a) = register_["chr0"] * (8 * K) + a
    BY <1>1, <1>5 DEF PatternPlace, K
  <2>4. QED
    BY <1>1, <1>2, <1>3, <1>4, <1>5, <2>2, <2>3 DEF K
<1>6. CASE ChrSize = 4 * K
  <2>1. /\ bank_.chr0.first = register_["chr0"] * (4 * K)
        /\ bank_.chr1.first = register_["chr1"] * (4 * K)
        /\ bank_.chr1.size = 4 * K
        /\ ~has_chr_ram => register_["chr1"] + 1 <= 2 * cartridge_.chr
    BY <1>4, <1>6 DEF BanksInv, PatternBanks, PatternsSettled
  <2>2. CASE a < 4 * K
    <3>1. ppu_read(a) = register_["chr0"] * (4 * K) + a
      BY <1>4, <1>6, <2>1, <2>2 DEF ppu_read
    <3>2. a % (4 * K) = a
      BY <2>2 DEF K
    <3>3. PatternPlace(a) = register_["chr0"] * (4 * K) + a
      BY <1>1, <1>6, <2>2, <3>2 DEF PatternPlace, K
    <3>4. QED
      BY <1>1, <1>2, <1>3, <1>4, <1>6, <2>2, <3>1, <3>3 DEF K
  <2>3. CASE a >= 4 * K
    <3>1. ppu_read(a) = register_["chr1"] * (4 * K) + a - 4 * K
      BY <1>4, <1>6, <2>1, <2>3 DEF ppu_read, K
    <3>2. a % (4 * K) = a - 4 * K
      BY <2>3 DEF K
    <3>3. PatternPlace(a) = register_["chr1"] * (4 * K) + a - 4 * K
      BY <1>1, <1>6, <2>3, <3>2 DEF PatternPlace, K
    <3>4. QED
      BY <1>1, <1>2, <2>1, <2>3, <3>1, <3>3 DEF K
  <2>4. QED
    BY <2>2, <2>3 DEF K
<1>7. QED
  BY <1>5, <1>6, ChrSizes

\* For every cartridge and every program that selects only banks of its cartridge,
\* the windows are those of the registers whenever a switch is complete
\* (BanksFollowRegisters).
THEOREM BanksCorrect == Spec => []BanksFollowRegisters
<1>1. ProgramRuns /\ LoadTyped /\ BanksInv => BanksFollowRegisters
  BY SettledProgram, SettledPatterns DEF BanksFollowRegisters
<1>2. QED
  BY <1>1, ProgramKept, LoadTypeCorrect, BanksInvariant, PTL

-----------------------------------------------------------------------------
(***************************************************************************)
(* The joypad                                                              *)
(***************************************************************************)

\* The n-th read may return this.
Answers(n, bit) ==
  IF n > Len(Button) \/ held = {} THEN bit = TRUE
  ELSE \E down \in held : bit = is_button_pressed(Button[n], down)

JoypadTyped ==
  /\ joypad_1_snapshot_ \in Seq(BOOLEAN)
  /\ returned \in Seq(BOOLEAN)
  /\ joypad_1_data_ \in Nat
  /\ strobe_bit_ \in BOOLEAN
  /\ turn \in {"joypads", "processor"}

\* The strobe bit follows the program's store before the program can read, and
\* while the store holds the strobe up the state of the buttons is recorded.
StrobeInv ==
  /\ turn = "processor" => strobe_bit_ = (joypad_1_data_ # 0)
  /\ joypad_1_data_ # 0 => pressed \in held /\ returned = <<>>
  /\ strobe_bit_ => held # {} /\ returned = <<>>

\* What is left to be read continues what was read: together they are a sample of
\* each button.
SamplesInv ==
  /\ held = {} => joypad_1_snapshot_ = <<>>
  /\ (strobe_bit_ \/ joypad_1_data_ = 0) /\ held # {} =>
       /\ Len(returned) <= 8 => Len(returned) + Len(joypad_1_snapshot_) = 8
       /\ Len(returned) > 8 => joypad_1_snapshot_ = <<>>
       /\ \A k \in 1 .. Len(joypad_1_snapshot_) :
            Answers(Len(returned) + k, joypad_1_snapshot_[k])

ReturnedInv == \A k \in 1 .. Len(returned) : Answers(k, returned[k])

JoypadInv == JoypadTyped /\ StrobeInv /\ SamplesInv /\ ReturnedInv

LEMMA FunctionIsSeq ==
  ASSUME NEW S, NEW n \in Nat, NEW f \in [1 .. n -> S]
  PROVE  f \in Seq(S) /\ Len(f) = n
OBVIOUS

LEMMA EightButtons == Len(Button) = 8 /\ DOMAIN Button = 1 .. 8
BY DEF Button

LEMMA JoypadAtStart ==
  ASSUME Init
  PROVE  JoypadInv
<1>1. /\ joypad_1_data_ = 0 /\ strobe_bit_ = FALSE /\ joypad_1_snapshot_ = <<>>
      /\ held = {} /\ returned = <<>> /\ turn = "joypads"
  BY DEF Init, JoypadsInit
<1>2. JoypadTyped
  BY <1>1, EmptySeq DEF JoypadTyped
<1>3. StrobeInv
  BY <1>1 DEF StrobeInv
<1>4. SamplesInv /\ ReturnedInv
  BY <1>1 DEF SamplesInv, ReturnedInv
<1>5. QED
  BY <1>2, <1>3, <1>4 DEF JoypadInv

LEMMA JoypadUntouched ==
  ASSUME JoypadInv, UNCHANGED joypad_vars, turn' \in {turn, "joypads"}
  PROVE  JoypadInv'
BY DEF JoypadInv, JoypadTyped, StrobeInv, SamplesInv, ReturnedInv, Answers, joypad_vars

\* A sample answers with what the buttons were before or after the change.
LEMMA SampleAnswers ==
  ASSUME Sample, pressed \in held, returned = <<>>
  PROVE  /\ joypad_1_snapshot_' \in Seq(BOOLEAN)
         /\ Len(joypad_1_snapshot_') = 8
         /\ held' # {} /\ pressed' \in held'
         /\ \A k \in 1 .. 8 : Answers(k, joypad_1_snapshot_[k])'
<1> PICK asked \in 0 .. Len(Button), now \in ButtonStates :
      /\ joypad_1_snapshot_' = Sampled(asked, pressed, now)
      /\ pressed' = now
      /\ held' = held \cup {now}
  BY DEF Sample
<1>1. joypad_1_snapshot_' = [k \in 1 .. 8 |->
        is_button_pressed(Button[k], IF k <= asked THEN pressed ELSE now)]
  BY EightButtons DEF Sampled
<1>2. joypad_1_snapshot_' \in [1 .. 8 -> BOOLEAN]
  BY <1>1 DEF is_button_pressed
<1>3. joypad_1_snapshot_' \in Seq(BOOLEAN) /\ Len(joypad_1_snapshot_') = 8
  BY <1>2, FunctionIsSeq, 8 \in Nat, Zenon
<1>4. pressed \in held' /\ now \in held'
  OBVIOUS
<1>5. ASSUME NEW k \in 1 .. 8
      PROVE  Answers(k, joypad_1_snapshot_[k])'
  BY <1>1, <1>4, EightButtons DEF Answers
<1>6. QED
  BY <1>3, <1>4, <1>5

LEMMA StepKeepsJoypad ==
  ASSUME JoypadInv, joypads_step
  PROVE  JoypadInv'
<1>1. /\ turn' = "processor" /\ strobe_bit_' = (joypad_1_data_ # 0)
      /\ UNCHANGED <<joypad_1_data_, returned>>
  BY DEF joypads_step, step
<1>2. CASE joypad_1_data_ # 0
  <2>1. pressed \in held /\ returned = <<>> /\ Sample
    BY <1>2 DEF joypads_step, step, JoypadInv, StrobeInv
  <2>2. /\ joypad_1_snapshot_' \in Seq(BOOLEAN) /\ Len(joypad_1_snapshot_') = 8
        /\ held' # {} /\ pressed' \in held'
        /\ \A k \in 1 .. 8 : Answers(k, joypad_1_snapshot_[k])'
    BY <2>1, SampleAnswers
  <2>3. returned' = <<>> /\ Len(returned') = 0
    BY <1>1, <2>1
  <2>4. JoypadTyped' /\ StrobeInv' /\ ReturnedInv'
    BY <1>1, <1>2, <2>2, <2>3 DEF JoypadInv, JoypadTyped, StrobeInv, ReturnedInv
  <2>5. SamplesInv'
    <3>1. \A k \in 1 .. Len(joypad_1_snapshot_') :
            Answers(Len(returned) + k, joypad_1_snapshot_[k])'
      BY <2>2, <2>3
    <3>2. QED
      BY <2>2, <2>3, <3>1 DEF SamplesInv
  <2>6. QED
    BY <2>4, <2>5 DEF JoypadInv
<1>3. CASE joypad_1_data_ = 0
  <2>1. UNCHANGED <<joypad_1_snapshot_, pressed, held>> /\ strobe_bit_' = FALSE
    BY <1>1, <1>3 DEF joypads_step, step
  <2>2. QED
    BY <1>1, <1>3, <2>1
       DEF JoypadInv, JoypadTyped, StrobeInv, SamplesInv, ReturnedInv, Answers
<1>4. QED
  BY <1>2, <1>3

\* The set of states that answer a read only grows.
LEMMA AnswersGrow ==
  ASSUME held # {}, held \subseteq held', NEW n \in Nat, NEW bit, Answers(n, bit)
  PROVE  (IF n > Len(Button) \/ held' = {} THEN bit = TRUE
          ELSE \E down \in held' : bit = is_button_pressed(Button[n], down))
BY EightButtons DEF Answers

LEMMA PressKeepsJoypad ==
  ASSUME JoypadInv, Press, UNCHANGED turn
  PROVE  JoypadInv'
<1>1. UNCHANGED <<joypad_1_data_, strobe_bit_, joypad_1_snapshot_, returned, turn>>
  BY DEF Press
<1>2. CASE joypad_1_data_ = 0
  <2>1. UNCHANGED held
    BY <1>2 DEF Press
  <2>2. QED
    BY <1>1, <1>2, <2>1
       DEF JoypadInv, JoypadTyped, StrobeInv, SamplesInv, ReturnedInv, Answers
<1>3. CASE joypad_1_data_ # 0
  <2>1. held # {} /\ returned = <<>> /\ held' = held \cup {pressed'}
    BY <1>3 DEF Press, JoypadInv, StrobeInv
  <2>2. JoypadTyped' /\ StrobeInv' /\ ReturnedInv'
    BY <1>1, <2>1 DEF JoypadInv, JoypadTyped, StrobeInv, ReturnedInv
  <2>3. \A n \in Nat, bit \in BOOLEAN : Answers(n, bit) => Answers(n, bit)'
    BY <2>1, AnswersGrow DEF Answers
  <2>4. SamplesInv'
    BY <1>1, <2>1, <2>3 DEF JoypadInv, JoypadTyped, SamplesInv
  <2>5. QED
    BY <2>2, <2>4 DEF JoypadInv
<1>4. QED
  BY <1>2, <1>3

LEMMA WriteKeepsJoypad ==
  ASSUME JoypadInv, turn = "processor", turn' = "joypads", NEW v \in Nat, write_joypad(v)
  PROVE  JoypadInv'
<1>1. UNCHANGED <<strobe_bit_, joypad_1_snapshot_, pressed>> /\ joypad_1_data_' = v
  BY DEF write_joypad
<1>2. CASE joypad_1_data_ = 0 /\ v # 0
  <2>1. held' = {pressed} /\ returned' = <<>> /\ strobe_bit_ = FALSE
    BY <1>2 DEF write_joypad, JoypadInv, StrobeInv
  <2>2. QED
    BY <1>1, <1>2, <2>1 DEF JoypadInv, JoypadTyped, StrobeInv, SamplesInv, ReturnedInv
<1>3. CASE ~(joypad_1_data_ = 0 /\ v # 0)
  <2>1. UNCHANGED <<held, returned>>
    BY <1>3 DEF write_joypad
  <2>2. strobe_bit_ \/ joypad_1_data_ = 0
    BY DEF JoypadInv, StrobeInv
  <2>3. SamplesInv'
    BY <1>1, <2>1, <2>2 DEF JoypadInv, SamplesInv, Answers
  <2>4. JoypadTyped' /\ StrobeInv' /\ ReturnedInv'
    BY <1>1, <1>3, <2>1
       DEF JoypadInv, JoypadTyped, StrobeInv, ReturnedInv, Answers
  <2>5. QED
    BY <2>3, <2>4 DEF JoypadInv
<1>4. QED
  BY <1>2, <1>3

LEMMA ReadKeepsJoypad ==
  ASSUME JoypadInv, turn = "processor", UNCHANGED turn, read_joypad_1_callback
  PROVE  JoypadInv'
<1> DEFINE n == Len(returned)
           m == Len(joypad_1_snapshot_)
<1>1. n \in Nat /\ m \in Nat
  BY DEF JoypadInv, JoypadTyped
<1>2. CASE ReadLive
  BY <1>2, JoypadUntouched DEF ReadLive
<1>3. CASE ReadSample
  <2>1. /\ joypad_1_snapshot_ # <<>>
        /\ joypad_1_snapshot_' = Tail(joypad_1_snapshot_)
        /\ returned' = Append(returned, Head(joypad_1_snapshot_))
        /\ UNCHANGED <<joypad_1_data_, strobe_bit_, pressed, held>>
        /\ strobe_bit_ = FALSE /\ joypad_1_data_ = 0
    BY <1>3 DEF ReadSample, JoypadInv, StrobeInv, JoypadTyped
  <2>2. /\ Head(joypad_1_snapshot_) \in BOOLEAN /\ Head(joypad_1_snapshot_) = joypad_1_snapshot_[1]
        /\ joypad_1_snapshot_' \in Seq(BOOLEAN) /\ Len(joypad_1_snapshot_') = m - 1
        /\ \A k \in 1 .. m - 1 : joypad_1_snapshot_'[k] = joypad_1_snapshot_[k + 1]
    BY <2>1, HeadTailProperties DEF JoypadInv, JoypadTyped
  <2>3. /\ returned' \in Seq(BOOLEAN) /\ Len(returned') = n + 1
        /\ \A k \in 1 .. n : returned'[k] = returned[k]
        /\ returned'[n + 1] = Head(joypad_1_snapshot_)
    BY <2>1, <2>2, AppendProperties DEF JoypadInv, JoypadTyped
  <2>4. m > 0
    BY <2>1, EmptySeq DEF JoypadInv, JoypadTyped
  <2>5. /\ held # {}
        /\ n + m = 8
        /\ \A k \in 1 .. m : Answers(n + k, joypad_1_snapshot_[k])
    BY <1>1, <2>1, <2>4 DEF JoypadInv, SamplesInv
  <2>6. JoypadTyped' /\ StrobeInv'
    BY <2>1, <2>2, <2>3 DEF JoypadInv, JoypadTyped, StrobeInv
  <2>7. Answers(n + 1, joypad_1_snapshot_[1])
    BY <1>1, <2>4, <2>5
  <2>8. ReturnedInv'
    <3>1. ASSUME NEW k \in 1 .. n + 1
          PROVE  Answers(k, returned'[k])
      <4>1. CASE k = n + 1
        BY <2>2, <2>3, <2>7, <4>1
      <4>2. CASE k \in 1 .. n
        BY <2>3, <4>2 DEF JoypadInv, ReturnedInv
      <4>3. QED
        BY <1>1, <4>1, <4>2
    <3>2. QED
      BY <2>1, <2>3, <3>1 DEF ReturnedInv, Answers
  <2>9. SamplesInv'
    <3>1. ASSUME NEW k \in 1 .. m - 1
          PROVE  Answers(n + 1 + k, joypad_1_snapshot_'[k])
      <4>1. k + 1 \in 1 .. m /\ n + (k + 1) = n + 1 + k
        BY <1>1
      <4>2. Answers(n + (k + 1), joypad_1_snapshot_[k + 1])
        BY <2>5, <4>1
      <4>3. QED
        BY <2>2, <4>1, <4>2
    <3>2. n + 1 <= 8 /\ (n + 1) + (m - 1) = 8
      BY <1>1, <2>4, <2>5
    <3>3. QED
      BY <2>1, <2>2, <2>3, <2>5, <3>1, <3>2 DEF SamplesInv, Answers
  <2>10. QED
    BY <2>6, <2>8, <2>9 DEF JoypadInv
<1>4. CASE ReadEmpty
  <2>1. /\ joypad_1_snapshot_ = <<>> /\ returned' = Append(returned, TRUE)
        /\ UNCHANGED <<joypad_1_data_, strobe_bit_, joypad_1_snapshot_, pressed, held>>
        /\ strobe_bit_ = FALSE /\ joypad_1_data_ = 0
    BY <1>4 DEF ReadEmpty, JoypadInv, StrobeInv, JoypadTyped
  <2>2. /\ returned' \in Seq(BOOLEAN) /\ Len(returned') = n + 1
        /\ \A k \in 1 .. n : returned'[k] = returned[k]
        /\ returned'[n + 1] = TRUE
    BY <2>1, AppendProperties DEF JoypadInv, JoypadTyped
  <2>3. m = 0
    BY <2>1
  <2>4. held # {} => n + 1 > 8
    <3>1. held # {} /\ n <= 8 => n + m = 8
      BY <2>1 DEF JoypadInv, SamplesInv
    <3>2. \A i, j \in Nat : (i <= 8 => i + j = 8) /\ j = 0 => i + 1 > 8
      OBVIOUS
    <3> HIDE DEF n, m
    <3>3. QED
      BY <1>1, <2>3, <3>1, <3>2
  <2>5. JoypadTyped' /\ StrobeInv'
    BY <2>1, <2>2 DEF JoypadInv, JoypadTyped, StrobeInv
  <2>6. Answers(n + 1, TRUE)
    BY <2>4, EightButtons DEF Answers
  <2>7. ReturnedInv'
    <3>1. ASSUME NEW k \in 1 .. n + 1
          PROVE  Answers(k, returned'[k])
      <4>1. CASE k = n + 1
        BY <2>2, <2>6, <4>1
      <4>2. CASE k \in 1 .. n
        BY <2>2, <4>2 DEF JoypadInv, ReturnedInv
      <4>3. QED
        BY <1>1, <4>1, <4>2
    <3>2. QED
      BY <2>1, <2>2, <3>1 DEF ReturnedInv, Answers
  <2>8. SamplesInv'
    BY <1>1, <2>1, <2>2, <2>3, <2>4 DEF JoypadInv, SamplesInv, Answers
  <2>9. QED
    BY <2>5, <2>7, <2>8 DEF JoypadInv
<1>5. QED
  BY <1>2, <1>3, <1>4 DEF read_joypad_1_callback

LEMMA NextKeepsJoypad ==
  ASSUME JoypadInv, ProgramRuns, [Next]_vars
  PROVE  JoypadInv'
<1>1. CASE joypads_step
  BY <1>1, StepKeepsJoypad
<1>2. CASE processor_step
  <2>1. turn = "processor"
    BY <1>2 DEF processor_step
  <2>2. CASE Compute
    BY <2>2, JoypadUntouched DEF Compute
  <2>3. ASSUME NEW a \in Programs[program].reads, Read(a)
        PROVE  JoypadInv'
    BY <2>1, <2>3, ReadKeepsJoypad, JoypadUntouched DEF Read
  <2>4. ASSUME NEW w \in Programs[program].writes, Write(w[1], w[2])
        PROVE  JoypadInv'
    <3>1. w[2] \in Nat
      BY ProgramsAssumption DEF ProgramSet, ProgramRuns, Byte
    <3>2. CASE write_joypad(w[2])
      BY <2>1, <2>4, <3>1, <3>2, WriteKeepsJoypad DEF Write
    <3>3. CASE UNCHANGED joypad_vars
      BY <2>4, <3>3, JoypadUntouched DEF Write
    <3>4. QED
      BY <2>4, <3>2, <3>3 DEF Write
  <2>5. QED
    BY <1>2, <2>2, <2>3, <2>4 DEF processor_step
<1>3. CASE Press /\ UNCHANGED <<cartridge_vars, bus_vars>>
  BY <1>3, PressKeepsJoypad DEF bus_vars
<1>4. ASSUME NEW s \in Programs[program].stores, StoreVideo(s[1], s[2])
      PROVE  JoypadInv'
  BY <1>4, JoypadUntouched DEF StoreVideo
<1>5. CASE UNCHANGED vars
  BY <1>5, JoypadUntouched DEF vars, bus_vars
<1>6. QED
  BY <1>1, <1>2, <1>3, <1>4, <1>5 DEF Next

\* Whatever sets of buttons there are and whenever they change, the k-th read tells
\* the k-th button (ReadsInButtonOrder).
THEOREM ReadsCorrect == Spec => []ReadsInButtonOrder
<1>1. Init => JoypadInv
  BY JoypadAtStart
<1>2. JoypadInv /\ ProgramRuns /\ [Next]_vars => JoypadInv'
  BY NextKeepsJoypad
<1>3. JoypadInv => ReadsInButtonOrder
  BY DEF JoypadInv, JoypadTyped, ReturnedInv, Answers, ReadsInButtonOrder
<1>4. QED
  BY <1>1, <1>2, <1>3, ProgramKept, PTL DEF Spec

-----------------------------------------------------------------------------
(***************************************************************************)
(* The memories of the PPU                                                 *)
(***************************************************************************)

VideoAddress == 0 .. 16 * K - 1

\* The address line that selects the page of the nametables.
Page(a) == IF cartridge_.vertical THEN (a \div (2 * K)) % 2 ELSE (a \div K) % 2

\* What the table of offsets works out is that line and the place in the page.
LEMMA MirroringByLine ==
  ASSUME NEW a \in Nat, 8 * K <= a, a < Palette, cartridge_.vertical \in BOOLEAN
  PROVE  handle_nametable_mirroring(a, cartridge_.vertical) = K * Page(a) + (a % K)
<1> DEFINE unmirrored == IF a >= 12 * K THEN a - 4 * K ELSE a
           nametable == (unmirrored - 8 * K) \div K
           table == IF cartridge_.vertical THEN <<0, 0, K, K>> ELSE <<0, K, 0, K>>
<1>1. /\ nametable \in 0 .. 3
      /\ nametable = 0 => (a \div 2048) % 2 = 0 /\ (a \div 1024) % 2 = 0
      /\ nametable = 1 => (a \div 2048) % 2 = 0 /\ (a \div 1024) % 2 = 1
      /\ nametable = 2 => (a \div 2048) % 2 = 1 /\ (a \div 1024) % 2 = 0
      /\ nametable = 3 => (a \div 2048) % 2 = 1 /\ (a \div 1024) % 2 = 1
      /\ unmirrored % 1024 = a % 1024
  BY DEF K, Palette
<1>2. handle_nametable_mirroring(a, cartridge_.vertical)
        = table[nametable + 1] + (unmirrored % K)
  BY DEF handle_nametable_mirroring
<1>3. Page(a) = IF cartridge_.vertical THEN (a \div 2048) % 2 ELSE (a \div 1024) % 2
  BY DEF Page, K
<1> HIDE DEF nametable, unmirrored
<1>4. table[nametable + 1] = K * Page(a)
  <2>1. CASE cartridge_.vertical
    BY <1>1, <1>3, <2>1 DEF K
  <2>2. CASE ~cartridge_.vertical
    BY <1>1, <1>3, <2>2 DEF K
  <2>3. QED
    BY <2>1, <2>2
<1>5. QED
  BY <1>1, <1>2, <1>4 DEF K

LEMMA VideoAddressRange == \A n \in VideoAddress : n \in Nat /\ n < 16384
<1>1. K \in Int /\ 16 * K - 1 \in Int /\ 16 * K = 16384
  BY DEF K
<1>2. \A n \in VideoAddress : n \in Int /\ 0 <= n /\ n <= 16 * K - 1
  BY <1>1 DEF VideoAddress
<1>3. QED
  BY <1>1, <1>2

\* Two addresses of the PPU name the same cell exactly when the wiring of the
\* cartridge makes them mirrors of each other.
LEMMA PlacesMirror ==
  ASSUME NEW a \in VideoAddress, NEW b \in VideoAddress, cartridge_.vertical \in BOOLEAN
  PROVE  Place(a) = Place(b) <=> Mirrors(a, b)
<1>1. a \in Nat /\ b \in Nat /\ a < 16384 /\ b < 16384
  BY VideoAddressRange
<1>2. CASE a < 8 * K \/ b < 8 * K
  BY <1>1, <1>2 DEF Place, Mirrors, K, Palette
<1>3. CASE a >= Palette \/ b >= Palette
  BY <1>1, <1>3 DEF Place, Mirrors, K, Palette
<1>4. CASE 8 * K <= a /\ a < Palette /\ 8 * K <= b /\ b < Palette
  <2>1. /\ handle_nametable_mirroring(a, cartridge_.vertical) = K * Page(a) + (a % K)
        /\ handle_nametable_mirroring(b, cartridge_.vertical) = K * Page(b) + (b % K)
    BY <1>1, <1>4, MirroringByLine
  <2>2. Place(a) = Place(b) <=> K * Page(a) + (a % K) = K * Page(b) + (b % K)
    <3>1. /\ Place(a) = <<"vram", K * Page(a) + (a % K)>>
          /\ Place(b) = <<"vram", K * Page(b) + (b % K)>>
      <4>1. ~(a < 8 * K) /\ a < Palette /\ ~(b < 8 * K) /\ b < Palette
        BY <1>1, <1>4 DEF K, Palette
      <4>2. QED
        BY <2>1, <4>1 DEF Place
    <3>2. QED
      BY <3>1
  <2>3. Page(a) \in {0, 1} /\ Page(b) \in {0, 1}
    BY <1>1 DEF Page, K
  <2>4. K * Page(a) + (a % K) = K * Page(b) + (b % K) <=> Page(a) = Page(b) /\ a % K = b % K
    BY <1>1, <2>3 DEF K
  <2>5. SamePage(a, b) <=> Page(a) = Page(b)
    BY DEF SamePage, Page
  <2>6. Mirrors(a, b) <=> a % K = b % K /\ SamePage(a, b)
    <3> DEFINE low == 8 * K
               high == Palette - 1
    <3>0. /\ low \in Int /\ high \in Int /\ low <= a /\ a <= high /\ low <= b /\ b <= high
          /\ ~(a >= Palette)
      BY <1>1, <1>4 DEF K, Palette
    <3> HIDE DEF low, high
    <3>1. a \in low .. high /\ b \in low .. high /\ ~(a >= Palette)
      BY <1>1, <3>0
    <3>2. a = b => a % K = b % K /\ SamePage(a, b)
      BY <2>5
    <3>3. QED
      BY <3>1, <3>2 DEF Mirrors, low, high
  <2>7. QED
    BY <2>2, <2>4, <2>5, <2>6
<1>5. QED
  BY <1>1, <1>2, <1>3, <1>4 DEF K, Palette

\* The memories have a cell behind every address that is looked at.
VideoInv ==
  /\ video_ = [place \in DOMAIN video_ |-> video_[place]]
  /\ \A a \in Cells : Place(a) \in DOMAIN video_

LEMMA VideoKept == VideoInv /\ [Next]_vars => VideoInv'
<1> SUFFICES ASSUME VideoInv, [Next]_vars PROVE VideoInv'
  OBVIOUS
<1>1. cartridge_' = cartridge_
  BY ProgramUnchanged
<1>2. \A a : Place(a)' = Place(a)
  BY <1>1 DEF Place
<1>3. CASE UNCHANGED video_
  BY <1>2, <1>3 DEF VideoInv
<1>4. ASSUME NEW place, NEW v, video_' = [video_ EXCEPT ![place] = v]
      PROVE  VideoInv'
  <2>1. DOMAIN video_' = DOMAIN video_
    BY <1>4
  <2>2. video_' = [p \in DOMAIN video_' |-> video_'[p]]
    BY <1>4
  <2>3. QED
    BY <1>2, <2>1, <2>2 DEF VideoInv
<1>5. UNCHANGED video_ \/ \E place, v : video_' = [video_ EXCEPT ![place] = v]
  BY DEF Next, vars, bus_vars, joypads_step, processor_step, Compute, Read, Write, StoreVideo
<1>6. QED
  BY <1>3, <1>4, <1>5

\* Whatever a program of any cartridge stores, it is seen at the addresses that
\* the wiring of the cartridge makes equal and nowhere else (StoresReachMirrors).
THEOREM StoresCorrect == Spec => StoresReachMirrors
<1> DEFINE Reach(s) ==
      \A b \in Cells : ReadVideo(b)' = IF Mirrors(s[1], b) THEN s[2] ELSE ReadVideo(b)
<1>1. Init => VideoInv
  BY DEF Init, VideoInv
<1>2. ASSUME ProgramRuns, VideoInv, NEW s \in Programs[program].stores,
             StoreVideo(s[1], s[2]), fault' = "none"
      PROVE  Reach(s)
  <2>1. s[1] \in VideoAddress /\ cartridge_.vertical \in BOOLEAN
    <3>1. s \in VideoAddress \X Byte
      BY <1>2, ProgramsAssumption DEF ProgramRuns, ProgramSet, VideoAddress
    <3>2. cartridge_ \in Roms
      BY <1>2, ProgramsAssumption DEF ProgramRuns, ProgramSet
    <3>3. QED
      BY <3>1, <3>2, RomsAssumption
  <2>2. cartridge_' = cartridge_ /\ video_' = [video_ EXCEPT ![Place(s[1])] = s[2]]
    BY <1>2 DEF StoreVideo, cartridge_vars
  <2>3. ASSUME NEW b \in Cells
        PROVE  ReadVideo(b)' = IF Mirrors(s[1], b) THEN s[2] ELSE ReadVideo(b)
    <3>1. Place(b)' = Place(b) /\ Place(b) \in DOMAIN video_
      BY <1>2, <2>2 DEF Place, VideoInv
    <3>2. Place(s[1]) = Place(b) <=> Mirrors(s[1], b)
      BY <2>1, CellsAssumption, PlacesMirror DEF VideoAddress
    <3>3. video_'[Place(b)] = IF Place(s[1]) = Place(b) THEN s[2] ELSE video_[Place(b)]
      BY <2>2, <3>1
    <3>4. QED
      BY <3>1, <3>2, <3>3 DEF ReadVideo
  <2>4. QED
    BY <2>3
<1>3. ProgramRuns /\ VideoInv /\ [Next]_vars
        => [\A s \in Programs[program].stores :
              StoreVideo(s[1], s[2]) /\ fault' = "none" => Reach(s)]_vars
  BY <1>2
<1>4. QED
  BY <1>1, <1>3, VideoKept, ProgramKept, PTL DEF Spec, StoresReachMirrors
=============================================================================
