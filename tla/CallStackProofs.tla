-------------------------- MODULE CallStackProofs --------------------------
(***************************************************************************)
(* For every cartridge, with interrupts at any instruction and nested to   *)
(* any depth.  As long as the program is Disciplined, the frames JSR, BRK  *)
(* and NMI leave on the stack are intact, and RTS and RTI return to where  *)
(* they were left, with the SP and the status of before.  And, Disciplined *)
(* or not, no program sees the interrupts that the handler of the runs     *)
(* serves, as long as the stack holds them.  Last, the two programs of the *)
(* runs are disciplined and leave what they should where they end: an      *)
(* assertion at each of their instructions says what it finds, the other   *)
(* steps keep it (OthersKeep), the instruction itself leads to the next.   *)
(***************************************************************************)
EXTENDS MCCallStack, CpuProofs, SequenceTheorems

FrameType ==
  [kind : {"call", "break", "nmi"}, return : Word, SP : Byte, P : SUBSET Flag,
   saved : Byte \X Byte \X Byte]

FrameTypes ==
  /\ frames \in Seq(FrameType)
  /\ \A n \in 1 .. Len(frames) : "U" \in frames[n].P

(* The bytes of a frame in the memory r, one by one; the status as BRK and *)
(* cpu_interrupt do push it.                                               *)
Kept(f, r) ==
  /\ r[StackAt(f.SP)] = Hi(Pushed(f))
  /\ r[StackAt(f.SP - 1)] = Lo(Pushed(f))
  /\ f.kind # "call" => r[StackAt(f.SP - 2)] = PByte(f.P \cup {"B"})

AllKept == \A n \in 1 .. Len(frames) : Kept(frames[n], ram)

(* FramesIntact leaves the B of an interrupt open; the stack does not.     *)
SInv == IInv /\ FrameTypes /\ AllKept

-----------------------------------------------------------------------------
(* What is kept is intact.                                                 *)
LEMMA IntactMeans ==
  ASSUME NEW f \in FrameType, NEW r
  PROVE  /\ Kept(f, r) => \A k \in 1 .. Len(Saved(f)) :
                             r[StackAt(f.SP - (k - 1))] \in Saved(f)[k]
         /\ Area(f) = {StackAt(f.SP), StackAt(f.SP - 1)} \cup
                      (IF f.kind = "call" THEN {} ELSE {StackAt(f.SP - 2)})
         /\ Len(Saved(f)) = IF f.kind = "call" THEN 2 ELSE 3
<1> DEFINE h == Hi(Pushed(f))
           l == Lo(Pushed(f))
           p == StatusBytes(f)
<1>1. f.SP \in Int
  BY Bounds DEF FrameType
<1>2. f.SP - 0 = f.SP /\ f.SP - (1 - 1) = f.SP /\ f.SP - (2 - 1) = f.SP - 1
      /\ f.SP - (3 - 1) = f.SP - 2
  BY <1>1
<1>3. CASE f.kind = "call"
  <2>1. Saved(f) = <<{h}, {l}>>
    BY <1>3, Zenon DEF Saved
  <2> HIDE DEF h, l
  <2>2. Len(Saved(f)) = 2 /\ Saved(f)[1] = {h} /\ Saved(f)[2] = {l}
    BY <2>1
  <2>3. 1 .. 2 = {1, 2} /\ 0 .. 2 - 1 = {0, 1}
    OBVIOUS
  <2>4. Area(f) = {StackAt(f.SP - 0), StackAt(f.SP - 1)}
    BY <2>2, <2>3, Zenon DEF Area
  <2>5. r[StackAt(f.SP - (1 - 1))] = h /\ r[StackAt(f.SP - (2 - 1))] = l
          => \A k \in 1 .. Len(Saved(f)) : r[StackAt(f.SP - (k - 1))] \in Saved(f)[k]
    BY <2>2, <2>3, Zenon
  <2> QED
    BY <1>2, <1>3, <2>2, <2>4, <2>5, Zenon DEF Kept, h, l
<1>4. CASE f.kind # "call"
  <2>1. Saved(f) = <<{h}, {l}, p>>
    BY <1>4, Zenon DEF Saved
  <2> HIDE DEF h, l, p
  <2>2. /\ Len(Saved(f)) = 3 /\ Saved(f)[1] = {h} /\ Saved(f)[2] = {l}
        /\ Saved(f)[3] = p
    BY <2>1
  <2>3. 1 .. 3 = {1, 2, 3} /\ 0 .. 3 - 1 = {0, 1, 2}
    OBVIOUS
  <2>4. Area(f) = {StackAt(f.SP - 0), StackAt(f.SP - 1), StackAt(f.SP - 2)}
    BY <2>2, <2>3, Zenon DEF Area
  <2>5. /\ r[StackAt(f.SP - (1 - 1))] = h /\ r[StackAt(f.SP - (2 - 1))] = l
        /\ r[StackAt(f.SP - (3 - 1))] \in p
        => \A k \in 1 .. Len(Saved(f)) : r[StackAt(f.SP - (k - 1))] \in Saved(f)[k]
    BY <2>2, <2>3, Zenon
  <2>6. Area(f) = {StackAt(f.SP), StackAt(f.SP - 1)} \cup {StackAt(f.SP - 2)}
    BY <1>2, <2>4
  <2>7. Kept(f, r) => \A k \in 1 .. Len(Saved(f)) :
                        r[StackAt(f.SP - (k - 1))] \in Saved(f)[k]
    <3>1. PByte(f.P \cup {"B"}) \in p
      BY Zenon DEF p, StatusBytes
    <3> QED
      BY <1>2, <1>4, <2>5, <3>1, Zenon DEF Kept, h, l
  <2> QED
    BY <1>2, <1>4, <2>2, <2>6, <2>7, Zenon
<1> QED
  BY <1>3, <1>4

LEMMA IntactFrames == FrameTypes /\ AllKept => FramesIntact
<1>1. FrameTypes => \A n \in 1 .. Len(frames) : frames[n] \in FrameType
  BY DEF FrameTypes
<1> QED
  BY <1>1, IntactMeans, Zenon DEF FramesIntact, AllKept

-----------------------------------------------------------------------------
(* The addresses on the stack page, which wrap, and what is pushed there.  *)
LEMMA StackAddresses ==
  ASSUME NEW s \in Byte
  PROVE  /\ StackAt(s) # StackAt(s - 1) /\ StackAt(s) # StackAt(s - 2)
         /\ StackAt(s - 1) # StackAt(s - 2)
         /\ StackAt(U8(s - 2) + 1) = StackAt(s - 1) /\ StackAt(U8(s - 2) + 2) = StackAt(s)
         /\ StackAt(U8(s - 3) + 1) = StackAt(s - 2)
         /\ StackAt(U8(s - 3) + 2) = StackAt(s - 1) /\ StackAt(U8(s - 3) + 3) = StackAt(s)
         /\ U8(U8(s - 2) + 2) = s /\ U8(U8(s - 3) + 3) = s
<1>1. s \in Int /\ 0 <= s /\ s <= 255
  BY Bounds
<1>2. /\ StackAt(s) # StackAt(s - 1) /\ StackAt(s) # StackAt(s - 2)
      /\ StackAt(s - 1) # StackAt(s - 2)
  BY <1>1, SMT DEF StackAt, U8
<1>3. StackAt(U8(s - 2) + 1) = StackAt(s - 1) /\ StackAt(U8(s - 2) + 2) = StackAt(s)
  BY <1>1, SMT DEF StackAt, U8
<1>4. /\ StackAt(U8(s - 3) + 1) = StackAt(s - 2)
      /\ StackAt(U8(s - 3) + 2) = StackAt(s - 1) /\ StackAt(U8(s - 3) + 3) = StackAt(s)
  BY <1>1, SMT DEF StackAt, U8
<1>5. U8(U8(s - 2) + 2) = s /\ U8(U8(s - 3) + 3) = s
  BY <1>1, SMT DEF U8
<1> QED
  BY <1>2, <1>3, <1>4, <1>5

LEMMA PushedBytes ==
  ASSUME TypeOK, NEW b1, NEW b2, NEW b3
  PROVE  /\ Push2(b1, b2)[StackAt(SP)] = b1 /\ Push2(b1, b2)[StackAt(SP - 1)] = b2
         /\ Push3(b1, b2, b3)[StackAt(SP)] = b1
         /\ Push3(b1, b2, b3)[StackAt(SP - 1)] = b2
         /\ Push3(b1, b2, b3)[StackAt(SP - 2)] = b3
<1> DEFINE x == StackAt(SP)
           y == StackAt(SP - 1)
           z == StackAt(SP - 2)
<1>1. SP \in Byte /\ SP \in Int
  BY Bounds DEF TypeOK
<1>2. x # y /\ x # z /\ y # z
  BY <1>1, StackAddresses
<1>3. x \in RamIndex /\ y \in RamIndex /\ z \in RamIndex
  <2>1. SP - 1 \in Int /\ SP - 2 \in Int
    BY <1>1
  <2> QED
    BY <1>1, <2>1, StackTypes
<1>4. DOMAIN ram = RamIndex
  BY DEF TypeOK, Ram
<1> HIDE DEF x, y, z
<1>5. /\ [ram EXCEPT ![x] = b1, ![y] = b2][x] = b1
      /\ [ram EXCEPT ![x] = b1, ![y] = b2][y] = b2
      /\ [[ram EXCEPT ![x] = b1, ![y] = b2] EXCEPT ![z] = b3][x] = b1
      /\ [[ram EXCEPT ![x] = b1, ![y] = b2] EXCEPT ![z] = b3][y] = b2
      /\ [[ram EXCEPT ![x] = b1, ![y] = b2] EXCEPT ![z] = b3][z] = b3
  BY <1>2, <1>3, <1>4
<1> QED
  BY <1>5 DEF Push2, Push3, x, y, z

(* The pops of an address.                                                 *)
LEMMA PoppedWord ==
  ASSUME NEW w \in Word, NEW n \in {1, 2}, Pop8(n) = Lo(w), Pop8(n + 1) = Hi(w)
  PROVE  Pop16(n) = w
<1>1. Pop16(n) = u8_to_u16(Lo(w), Hi(w))
  BY DEF Pop16
<1> QED
  BY <1>1, WordOfBytes

(* The address a JSR stacks is the one before that of the next instruction.*)
LEMMA ReturnAddress ==
  /\ \A w \in Word : U16(U16(w + 3) - 1) = U16(w + 2)
  /\ \A w \in Word : U16(U16(w - 1) + 1) = w
  BY Bounds, SMT DEF U16

-----------------------------------------------------------------------------
(* The frames after a step.                                                *)
LEMMA OldFramesKept ==
  ASSUME SInv,
         \A n \in 1 .. Len(frames) : \A a \in Area(frames[n]) : ram'[a] = ram[a],
         NEW n \in 1 .. Len(frames)
  PROVE  Kept(frames[n], ram')
<1> DEFINE f == frames[n]
<1>1. f \in FrameType
  BY DEF SInv, FrameTypes
<1>2. Kept(f, ram)
  BY DEF SInv, AllKept
<1>3. /\ StackAt(f.SP) \in Area(f) /\ StackAt(f.SP - 1) \in Area(f)
      /\ f.kind # "call" => StackAt(f.SP - 2) \in Area(f)
  <2>1. Area(f) = {StackAt(f.SP), StackAt(f.SP - 1)} \cup
                    (IF f.kind = "call" THEN {} ELSE {StackAt(f.SP - 2)})
    BY <1>1, IntactMeans
  <2> QED
    BY <2>1
<1>4. \A a \in Area(f) : ram'[a] = ram[a]
  OBVIOUS
<1> QED
  BY <1>2, <1>3, <1>4, Zenon DEF Kept

(* The invariant from what each frame is and keeps.                        *)
LEMMA KeptMeans ==
  ASSUME frames' \in Seq(FrameType),
         \A n \in 1 .. Len(frames') : "U" \in frames'[n].P /\ Kept(frames'[n], ram')
  PROVE  FrameTypes' /\ AllKept'
<1>1. FrameTypes'
  BY DEF FrameTypes
<1>2. AllKept'
  BY DEF AllKept
<1> QED
  BY <1>1, <1>2

LEMMA FrameEntered ==
  ASSUME SInv, NEW f \in FrameType, "U" \in f.P, frames' = Append(frames, f),
         Kept(f, ram'),
         \A n \in 1 .. Len(frames) : \A a \in Area(frames[n]) : ram'[a] = ram[a]
  PROVE  FrameTypes' /\ AllKept'
<1>1. frames \in Seq(FrameType) /\ \A n \in 1 .. Len(frames) : "U" \in frames[n].P
  BY DEF SInv, FrameTypes
<1>2. /\ frames' \in Seq(FrameType) /\ Len(frames') = Len(frames) + 1
      /\ frames'[Len(frames) + 1] = f
      /\ \A n \in 1 .. Len(frames) : frames'[n] = frames[n]
  BY <1>1
<1>3. ASSUME NEW n \in 1 .. Len(frames')
      PROVE  "U" \in frames'[n].P /\ Kept(frames'[n], ram')
  <2>1. CASE n = Len(frames) + 1
    BY <1>2, <2>1, Zenon
  <2>2. CASE n \in 1 .. Len(frames)
    BY <1>1, <1>2, <2>2, OldFramesKept, Zenon
  <2> QED
    BY <1>1, <1>2, <2>1, <2>2
<1> QED
  BY <1>2, <1>3, KeptMeans, Zenon

LEMMA FrontOf ==
  ASSUME NEW S, NEW s \in Seq(S), s # <<>>
  PROVE  /\ Front(s) \in Seq(S) /\ Len(Front(s)) = Len(s) - 1
         /\ \A n \in 1 .. Len(s) - 1 : Front(s)[n] = s[n]
<1>1. Len(s) \in Nat /\ Len(s) >= 1
  BY EmptySeq
<1> DEFINE m == Len(s) - 1
<1>2. m \in Nat /\ 1 \in Int /\ Len(s) = m + 1
  BY <1>1
<1>3. \A n \in 1 .. m : s[n] \in S
  BY <1>2
<1>4. Front(s) = SubSeq(s, 1, m)
  BY Zenon DEF Front
<1> HIDE DEF m
<1>5. /\ SubSeq(s, 1, m) \in Seq(S)
      /\ Len(SubSeq(s, 1, m)) = IF 1 <= m THEN m - 1 + 1 ELSE 0
      /\ \A n \in 1 .. m - 1 + 1 : SubSeq(s, 1, m)[n] = s[1 + n - 1]
  BY <1>2, <1>3, SubSeqProperties
<1>6. (IF 1 <= m THEN m - 1 + 1 ELSE 0) = m /\ m - 1 + 1 = m
  BY <1>2
<1>7. \A n \in 1 .. m : 1 + n - 1 = n
  BY <1>2
<1>8. \A n \in 1 .. m : SubSeq(s, 1, m)[n] = s[n]
  BY <1>5, <1>6, <1>7, Zenon
<1> QED
  BY <1>4, <1>5, <1>6, <1>8, Zenon DEF m

LEMMA FrameLeft ==
  ASSUME SInv, frames # <<>>, frames' = Front(frames),
         \A n \in 1 .. Len(frames) : \A a \in Area(frames[n]) : ram'[a] = ram[a]
  PROVE  FrameTypes' /\ AllKept'
<1>1. frames \in Seq(FrameType) /\ \A n \in 1 .. Len(frames) : "U" \in frames[n].P
  BY DEF SInv, FrameTypes
<1>2. /\ frames' \in Seq(FrameType) /\ Len(frames') = Len(frames) - 1
      /\ \A n \in 1 .. Len(frames') : n \in 1 .. Len(frames) /\ frames'[n] = frames[n]
  <2>1. /\ frames' \in Seq(FrameType) /\ Len(frames') = Len(frames) - 1
        /\ \A n \in 1 .. Len(frames) - 1 : frames'[n] = frames[n]
    BY <1>1, FrontOf, Zenon
  <2>2. Len(frames) \in Nat
    BY <1>1
  <2>3. \A n \in 1 .. Len(frames) - 1 : n \in 1 .. Len(frames)
    BY <2>2
  <2> QED
    BY <2>1, <2>3, Zenon
<1>3. \A n \in 1 .. Len(frames') : "U" \in frames'[n].P /\ Kept(frames'[n], ram')
  BY <1>1, <1>2, OldFramesKept, Zenon
<1> QED
  BY <1>2, <1>3, KeptMeans, Zenon

LEMMA FramesStay ==
  ASSUME SInv, UNCHANGED frames,
         \A n \in 1 .. Len(frames) : \A a \in Area(frames[n]) : ram'[a] = ram[a]
  PROVE  FrameTypes' /\ AllKept'
<1>1. frames' \in Seq(FrameType) /\ \A n \in 1 .. Len(frames') : "U" \in frames'[n].P
  BY DEF SInv, FrameTypes
<1>2. \A n \in 1 .. Len(frames') : Kept(frames'[n], ram')
  BY OldFramesKept, Zenon
<1> QED
  BY <1>1, <1>2, KeptMeans, Zenon

-----------------------------------------------------------------------------
(* The four instructions that open and close frames.                       *)
LEMMA HandlerOf ==
  ASSUME NEW d, Handler(d)
  PROVE  /\ d.op = "JSR" => JSR(d)
         /\ d.op = "BRK" => BRK(d)
         /\ d.op = "RTS" => RTS(d)
         /\ d.op = "RTI" => RTI(d)
         /\ d.op = "PHA" => PHA(d)
         /\ d.op = "PLA" => PLA(d)
         /\ d.op = "TXA" => TXA(d)
         /\ d.op = "TAX" => TAX(d)
         /\ d.op = "LDX" => LDX(d)
         /\ d.op = "SEC" => SEC(d)
         /\ d.op = "ROL" => ROL(d)
         /\ d.op = "LDA" => LDA(d)
         /\ d.op = "STA" => STA(d)
         /\ d.op = "ADC" => ADC(d)
         /\ d.op = "ASL" => ASL(d)
         /\ d.op = "INC" => INC(d)
         /\ d.op = "CLC" => CLC(d)
         /\ d.op = "PHP" => PHP(d)
         /\ d.op = "PLP" => PLP(d)
         /\ d.op = "TXS" => TXS(d)
         /\ d.op = "JMP" => JMP(d)
  BY SMT DEF Handler, ADC, SBC, Logic, AND, ORA, EOR, CMP, CPX, CPY, BIT, Branch,
     BEQ, BNE, BMI, BPL, BCS, BCC, BVS, BVC, CLC, CLD, CLI, CLV, SEC, SED, SEI, JMP,
     JSR, RTS, RTI, BRK, LDA, LDX, LDY, LAX, StoreRegister, STA, STX, STY, SAX,
     TAX, TAY, TSX, TXA, TYA, TXS, PushRegister, PHA, PHP, PLA, PLP, INC, DEC, INX,
     INY, DEX, DEY, Shift, ASL, LSR, ROL, ROR, NOP, DCP, ISB, ShiftThen, RLA, SLO,
     SRE, RRA, Charged, Uncharged, NoAddress

LEMMA InstructionOf ==
  ASSUME Instruction
  PROVE  /\ entry.op = "JSR" => JSR(Decoded)
         /\ entry.op = "BRK" => BRK(Decoded)
         /\ entry.op = "RTS" => RTS(Decoded)
         /\ entry.op = "RTI" => RTI(Decoded)
<1>1. Handler(Decoded)
  BY DEF Instruction
<1>2. Decoded.op = entry.op
  BY DEF Decoded
<1> QED
  BY <1>1, <1>2, HandlerOf, Zenon

LEMMA Registers ==
  ASSUME IInv
  PROVE  /\ PC \in Word /\ SP \in Byte /\ P \subseteq Flag /\ "U" \in P
         /\ registers \in Byte \X Byte \X Byte
         /\ \A kind \in {"call", "break", "nmi"}, return \in Word :
              /\ Frame(kind, return) \in FrameType
              /\ Frame(kind, return).kind = kind
              /\ Frame(kind, return).return = return
              /\ Frame(kind, return).SP = SP /\ Frame(kind, return).P = P
              /\ Frame(kind, return).saved = registers
<1>1. PC \in Word /\ SP \in Byte /\ P \subseteq Flag /\ "U" \in P
  BY DEF IInv, TypeOK, UnusedStaysSet
<1>2. registers \in Byte \X Byte \X Byte
  BY DEF IInv, TypeOK, registers
<1> HIDE DEF registers
<1>3. \A kind \in {"call", "break", "nmi"}, return \in Word :
        /\ Frame(kind, return) \in FrameType
        /\ Frame(kind, return).kind = kind
        /\ Frame(kind, return).return = return
        /\ Frame(kind, return).SP = SP /\ Frame(kind, return).P = P
        /\ Frame(kind, return).saved = registers
  BY <1>1, <1>2 DEF Frame, FrameType
<1> QED
  BY <1>1, <1>2, <1>3

LEMMA JsrFrame ==
  ASSUME SInv, Untouched, JSR(Decoded), frames' = Append(frames, Frame("call", U16(PC + 3)))
  PROVE  FrameTypes' /\ AllKept'
<1> DEFINE f == Frame("call", U16(PC + 3))
           w == U16(PC + 2)
<1>1. U16(PC + 3) \in Word /\ U16(U16(PC + 3) - 1) = w
  <2>1. PC \in Word /\ PC + 3 \in Int
    BY Registers, Bounds DEF SInv
  <2> QED
    BY <2>1, ConversionTypes, ReturnAddress
<1>2. f \in FrameType /\ "U" \in f.P /\ f.kind = "call" /\ Pushed(f) = w /\ f.SP = SP
  <2>1. /\ f \in FrameType /\ f.kind = "call" /\ f.return = U16(PC + 3)
        /\ f.SP = SP /\ f.P = P /\ "U" \in P
    BY <1>1, Registers DEF SInv
  <2>2. Pushed(f) = U16(f.return - 1)
    BY <2>1, Zenon DEF Pushed
  <2> QED
    BY <1>1, <2>1, <2>2, Zenon
<1>3. ram' = Push2(Hi(w), Lo(w))
  BY Zenon DEF JSR
<1>4. ram'[StackAt(SP)] = Hi(w) /\ ram'[StackAt(SP - 1)] = Lo(w)
  <2>1. TypeOK
    BY DEF SInv, IInv
  <2> QED
    BY <1>3, <2>1, PushedBytes
<1>5. Kept(f, ram')
  BY <1>2, <1>4, Zenon DEF Kept
<1> QED
  BY <1>2, <1>5, FrameEntered, Zenon DEF Untouched

LEMMA StatusFrame ==
  ASSUME SInv, Untouched, NEW kind \in {"break", "nmi"}, NEW w \in Word,
         ram' = Push3(Hi(w), Lo(w), PByte(P \cup {"B"})),
         frames' = Append(frames, Frame(kind, w))
  PROVE  FrameTypes' /\ AllKept'
<1> DEFINE f == Frame(kind, w)
<1>1. kind # "call" /\ kind \in {"call", "break", "nmi"}
  OBVIOUS
<1>2. /\ f \in FrameType /\ "U" \in f.P /\ f.kind = kind /\ f.return = w
      /\ f.SP = SP /\ f.P = P
  BY <1>1, Registers DEF SInv
<1>3. Pushed(f) = w
  BY <1>1, <1>2, Zenon DEF Pushed
<1>4. /\ ram'[StackAt(SP)] = Hi(w) /\ ram'[StackAt(SP - 1)] = Lo(w)
      /\ ram'[StackAt(SP - 2)] = PByte(P \cup {"B"})
  <2>1. TypeOK
    BY DEF SInv, IInv
  <2> QED
    BY <2>1, PushedBytes
<1>5. Kept(f, ram')
  BY <1>1, <1>2, <1>3, <1>4, Zenon DEF Kept
<1> QED
  BY <1>2, <1>5, FrameEntered, Zenon DEF Untouched

-----------------------------------------------------------------------------
(* The invariant.                                                          *)
LEMMA StackStep ==
  ASSUME SInv, Untouched, StackNext
  PROVE  FrameTypes' /\ AllKept'
<1>1. CASE Instruction /\ Effect(entry.op)
  <2>1. CASE entry.op = "JSR"
    <3>1. JSR(Decoded) /\ frames' = Append(frames, Frame("call", U16(PC + 3)))
      BY <1>1, <2>1, InstructionOf DEF Effect, Enter
    <3> QED
      BY <3>1, JsrFrame
  <2>2. CASE entry.op = "BRK"
    <3> DEFINE w == U16(PC + 2)
    <3>1. BRK(Decoded) /\ frames' = Append(frames, Frame("break", w))
      BY <1>1, <2>2, InstructionOf DEF Effect, Enter
    <3>2. w \in Word
      <4>1. PC + 2 \in Int
        BY Registers, Bounds DEF SInv
      <4> QED
        BY <4>1, ConversionTypes
    <3>3. ram' = Push3(Hi(w), Lo(w), PByte(P \cup {"B"}))
      BY <3>1, Zenon DEF BRK
    <3> HIDE DEF w
    <3> QED
      BY <3>1, <3>2, <3>3, StatusFrame
  <2>3. CASE entry.op \in {"RTS", "RTI"}
    <3>1. frames # <<>> /\ frames' = Front(frames)
      BY <1>1, <2>3 DEF Effect, Leave
    <3> QED
      BY <3>1, FrameLeft DEF Untouched
  <2>4. CASE entry.op \notin {"JSR", "BRK", "RTS", "RTI"}
    <3>1. UNCHANGED frames
      BY <1>1, <2>4 DEF Effect
    <3> QED
      BY <3>1, FramesStay DEF Untouched
  <2> QED
    BY <2>1, <2>2, <2>3, <2>4
<1>2. CASE ServiceNmi /\ Enter("nmi", PC)
  <2>1. frames' = Append(frames, Frame("nmi", PC)) /\ PC \in Word
    BY <1>2, Registers DEF Enter, SInv
  <2>2. ram' = Push3(Hi(PC), Lo(PC), PByte(P \cup {"B"}))
    BY <1>2, Zenon DEF ServiceNmi, TakeNmi
  <2> QED
    BY <2>1, <2>2, StatusFrame
<1>3. CASE UNCHANGED frames
  BY <1>3, FramesStay DEF Untouched
<1> QED
  BY <1>1, <1>2, <1>3 DEF StackNext

LEMMA StackIsCpu == StackSpec => Spec
<1>1. StackInit => Init
  BY DEF StackInit
<1>2. [StackNext]_stackVars => [Next]_vars
  BY DEF StackNext, Next, stackVars
<1> QED
  BY <1>1, <1>2, PTL DEF StackSpec, Spec

LEMMA StackInvariant == StackSpec /\ Disciplined => []SInv
<1>1. StackInit => FrameTypes /\ AllKept
  BY DEF StackInit, FrameTypes, AllKept
<1>2. SInv /\ [StackNext /\ DisciplinedStep]_stackVars => (FrameTypes /\ AllKept)'
  <2> SUFFICES ASSUME SInv, [StackNext /\ DisciplinedStep]_stackVars
               PROVE  FrameTypes' /\ AllKept'
    OBVIOUS
  <2>1. CASE StackNext /\ DisciplinedStep
    BY <2>1, StackStep DEF DisciplinedStep
  <2>2. CASE UNCHANGED stackVars
    BY <2>2, FramesStay DEF stackVars, vars
  <2> QED
    BY <2>1, <2>2
<1> QED
  BY <1>1, <1>2, StackIsCpu, Invariant, PTL DEF StackSpec, SInv, Disciplined

(* Until it returns, what a JSR, a BRK or an NMI has saved is on the stack *)
(* as it was saved.                                                        *)
THEOREM FramesSafe == StackSpec /\ Disciplined => []FramesIntact
<1>1. SInv => FramesIntact
  BY IntactFrames DEF SInv
<1> QED
  BY <1>1, StackInvariant, PTL

-----------------------------------------------------------------------------
(* Returning.                                                              *)
LEMMA CallReturns ==
  ASSUME SInv, RTS(Decoded), NEW f \in FrameType, f.kind = "call", Kept(f, ram),
         SP = U8(f.SP - 2)
  PROVE  PC' = f.return /\ SP' = f.SP
<1> DEFINE w == U16(f.return - 1)
<1>1. f.SP \in Byte /\ f.return \in Word /\ w \in Word /\ U16(w + 1) = f.return
  <2>1. f.SP \in Byte /\ f.return \in Word
    BY DEF FrameType
  <2>2. f.return - 1 \in Int
    BY <2>1, Bounds
  <2> QED
    BY <2>1, <2>2, ConversionTypes, ReturnAddress
<1>2. Pop8(1) = Lo(w) /\ Pop8(2) = Hi(w)
  BY <1>1, StackAddresses, Zenon DEF Pop8, Kept, Pushed
<1>3. Pop16(1) = w
  BY <1>1, <1>2, PoppedWord
<1>4. PC' = U16(w + 1)
  BY <1>3, Zenon DEF RTS
<1>5. SP' = f.SP
  BY <1>1, StackAddresses, Zenon DEF RTS
<1> QED
  BY <1>1, <1>4, <1>5, Zenon

LEMMA InterruptReturns ==
  ASSUME SInv, RTI(Decoded), NEW f \in FrameType, f.kind # "call", "U" \in f.P,
         Kept(f, ram), SP = U8(f.SP - 3)
  PROVE  PC' = f.return /\ SP' = f.SP /\ P' \ {"B"} = f.P \ {"B"}
<1> DEFINE w == f.return
           s == f.P \cup {"B"}
<1>1. f.SP \in Byte /\ w \in Word /\ s \in SUBSET Flag /\ Pushed(f) = w
  BY DEF FrameType, Pushed, Flag
<1>2. Pop8(1) = PByte(s) /\ Pop8(2) = Lo(w) /\ Pop8(3) = Hi(w)
  BY <1>1, StackAddresses, Zenon DEF Pop8, Kept
<1>3. Pop16(2) = w
  BY <1>1, <1>2, PoppedWord
<1>4. P' = s \cup (P \cap {"U"})
  BY <1>1, <1>2, StatusRoundTrip, Zenon DEF RTI
<1>5. PC' = w /\ SP' = f.SP
  BY <1>1, <1>3, StackAddresses, Zenon DEF RTI
<1> QED
  BY <1>4, <1>5

(* opcodes.c: every RTS and RTI returns to where its frame was entered,    *)
(* with the SP and the status of before, however deep and wherever the     *)
(* interrupts fell.                                                        *)
THEOREM FramesReturn == StackSpec /\ Disciplined => ReturnsMatch
<1>1. ASSUME SInv, StackNext, DisciplinedStep, Len(frames') < Len(frames)
      PROVE  LET f == Last(frames)
             IN  /\ f.kind = "call" <=> entry.op = "RTS"
                 /\ PC' = f.return
                 /\ SP' = f.SP
                 /\ f.kind # "call" => P' \ {"B"} = f.P \ {"B"}
  <2> DEFINE f == Last(frames)
  <2>1. frames \in Seq(FrameType) /\ Len(frames) \in Nat
    BY <1>1 DEF SInv, FrameTypes
  <2>2. Instruction /\ Leave /\ entry.op \in {"RTS", "RTI"}
    <3>1. frames' # frames /\ ~ \E g : frames' = Append(frames, g)
      <4>1. ASSUME NEW kind, NEW return, frames' = Append(frames, Frame(kind, return))
            PROVE  FALSE
        BY <1>1, <2>1, <4>1
      <4> QED
        BY <1>1, <2>1
    <3> QED
      BY <1>1, <3>1 DEF StackNext, Effect, Enter, Leave
  <2>3. Len(frames) > 0 /\ f = frames[Len(frames)] /\ Len(frames) \in 1 .. Len(frames)
    BY <2>1, <2>2, EmptySeq DEF Leave, Last
  <2>4. f \in FrameType /\ "U" \in f.P /\ Kept(f, ram)
    <3>1. \A n \in 1 .. Len(frames) :
            frames[n] \in FrameType /\ "U" \in frames[n].P /\ Kept(frames[n], ram)
      BY <1>1 DEF SInv, FrameTypes, AllKept
    <3> QED
      BY <2>3, <3>1, Zenon
  <2>5. /\ f.kind = "call" <=> entry.op = "RTS"
        /\ SP = U8(f.SP - Len(Saved(f)))
    BY <1>1, Zenon DEF DisciplinedStep
  <2>6. Len(Saved(f)) = IF f.kind = "call" THEN 2 ELSE 3
    BY <2>4, IntactMeans
  <2> HIDE DEF f
  <2>7. CASE f.kind = "call"
    <3>1. RTS(Decoded) /\ SP = U8(f.SP - 2)
      BY <2>2, <2>5, <2>6, <2>7, InstructionOf
    <3> QED
      BY <1>1, <2>4, <2>5, <2>7, <3>1, CallReturns, Zenon DEF f
  <2>8. CASE f.kind # "call"
    <3>1. RTI(Decoded) /\ SP = U8(f.SP - 3)
      BY <2>2, <2>5, <2>6, <2>8, InstructionOf
    <3> QED
      BY <1>1, <2>4, <2>5, <2>8, <3>1, InterruptReturns, Zenon DEF f
  <2> QED
    BY <2>7, <2>8
<1>2. SInv /\ [StackNext /\ DisciplinedStep]_stackVars =>
        [Len(frames') < Len(frames) =>
           LET f == Last(frames)
           IN  /\ f.kind = "call" <=> entry.op = "RTS"
               /\ PC' = f.return
               /\ SP' = f.SP
               /\ f.kind # "call" => P' \ {"B"} = f.P \ {"B"}]_stackVars
  BY <1>1, Zenon
<1> QED
  BY <1>2, StackInvariant, PTL DEF StackSpec, ReturnsMatch, Disciplined

-----------------------------------------------------------------------------
(* Interrupts that nobody notices.  The handler of the runs is in the ROM  *)
(* of every cartridge and the NMI vector points to it; the rest of a       *)
(* cartridge is any program, Disciplined or not.                           *)
HandlerInstalled == \A g \in Games : HasHandler(PrgRom[g])

(* The stack holds the interrupts that are open: each takes up to five of  *)
(* its 256 bytes.  The program has at most one open, since a frame lasts   *)
(* much longer than the handler.                                           *)
NmisFit ==
  \A n \in 1 .. Len(frames) : frames[n].kind = "nmi" => Len(frames) - n < 50

(* The instructions of the handler, and the bytes of the stack in use at   *)
(* each: three for the frame, one for A, one for X.                        *)
HandlerPoints ==
  {\h9000, \h9001, \h9002, \h9003, \h9005, \h9006, \h9007, \h9008, \h9009, \h900a}

Depth(pc) ==
  IF pc \in {\h9000, \h900a} THEN 3
  ELSE IF pc \in {\h9001, \h9002, \h9008, \h9009} THEN 4
  ELSE 5

(* The handler for the frame f is at pc, with the registers regs.          *)
Within(f, pc, regs, sp, r) ==
  /\ pc \in HandlerPoints
  /\ sp = U8(f.SP - Depth(pc))
  /\ pc \in {\h9000, \h900a} => regs[1] = f.saved[1]
  /\ pc \in {\h9002, \h9008} => regs[1] = f.saved[2]
  /\ pc \in {\h9000, \h9001, \h9002, \h9009, \h900a} => regs[2] = f.saved[2]
  /\ regs[3] = f.saved[3]
  /\ Kept(f, r) /\ "U" \in f.P
  /\ Depth(pc) >= 4 => r[StackAt(f.SP - 3)] = f.saved[1]
  /\ Depth(pc) = 5 => r[StackAt(f.SP - 4)] = f.saved[2]

(* Where the handler of the n-th frame is: at the interrupt that the next  *)
(* frame is of, or running.                                                *)
Resumes(n) == IF n = Len(frames) THEN PC ELSE frames[n + 1].return
RegsOf(n)  == IF n = Len(frames) THEN registers ELSE frames[n + 1].saved
SPOf(n)    == IF n = Len(frames) THEN SP ELSE frames[n + 1].SP

(* The frames from an open interrupt on are interrupts, each of the handler*)
(* of the one before, and their parts of the stack do not overlap.         *)
Interrupted(n) ==
  /\ \A m \in n .. Len(frames) : frames[m].kind = "nmi"
  /\ Within(frames[n], Resumes(n), RegsOf(n), SPOf(n), ram)
  /\ \A m \in n + 1 .. Len(frames) :
       /\ U8(frames[n].SP - frames[m].SP) >= Depth(Resumes(n))
       /\ U8(frames[n].SP - frames[m].SP) <= 5 * (m - n)

NInv ==
  /\ frames \in Seq(FrameType)
  /\ \A n \in 1 .. Len(frames) : frames[n].kind = "nmi" => Interrupted(n)

-----------------------------------------------------------------------------
(* The code of the handler, and what its instructions do.                  *)
LEMMA HandlerCode ==
  ASSUME TypeOK, HandlerInstalled
  PROVE  /\ Get16(NMI_VECTOR) = \h9000
         /\ Get8(\h9000) = \h48 /\ Get8(\h9001) = \h8a /\ Get8(\h9002) = \h48
         /\ Get8(\h9003) = \ha2 /\ Get8(\h9005) = \h38 /\ Get8(\h9006) = \h2a
         /\ Get8(\h9007) = \h68 /\ Get8(\h9008) = \haa /\ Get8(\h9009) = \h68
         /\ Get8(\h900a) = \h40
<1>1. game \in Games
  BY DEF TypeOK
<1>2. /\ \A i \in 1 .. 11 : rom[4095 + i] = NmiHandler.bytes[i]
      /\ rom[\h7ffa] = \h00 /\ rom[\h7ffb] = \h90
  <2>1. Len(NmiHandler.bytes) = 11 /\ NmiHandler.address = \h9000
    BY DEF NmiHandler, Segment
  <2>2. \A i \in 1 .. 11 : \h9000 - \h8000 + i - 1 = 4095 + i
    OBVIOUS
  <2> QED
    BY <1>1, <2>1, <2>2 DEF HandlerInstalled, HasHandler, rom
<1>3. \A i \in 0 .. 10 : rom[4096 + i] = NmiHandler.bytes[i + 1]
  <2>1. \A i \in 0 .. 10 : i + 1 \in 1 .. 11 /\ 4095 + (i + 1) = 4096 + i
    OBVIOUS
  <2> QED
    BY <1>2, <2>1
<1>4. \A i \in 0 .. 10 : Get8(\h9000 + i) = NmiHandler.bytes[i + 1]
  <2>1. \A i \in 0 .. 10 : Get8(\h9000 + i) = rom[4096 + i]
    BY DEF Get8, cpu_get_u8, PPU_STATUS
  <2> QED
    BY <1>3, <2>1
<1>5. Get16(NMI_VECTOR) = \h9000
  BY <1>2 DEF Get16, cpu_get_u16, NMI_VECTOR, u8_to_u16, U16
<1> QED
  BY <1>4, <1>5 DEF NmiHandler, Segment

(* The addressing modes the programs and the handler use.                  *)
LEMMA HandlerModes ==
  \A r \in AllRows :
    /\ r.code \in {\ha2, \ha9, \h69} => r.mode = "IMMEDIATE"
    /\ r.code = \h2a => r.mode = "ACCUMULATOR"
    /\ r.code \in {\h85, \h06, \h26, \he6} => r.mode = "ZERO_PAGE"
    /\ r.code = \h4c => r.mode = "ABSOLUTE"
<1> DEFINE ModeOK(r) ==
             /\ r.code \in {\ha2, \ha9, \h69} => r.mode = "IMMEDIATE"
             /\ r.code = \h2a => r.mode = "ACCUMULATOR"
             /\ r.code \in {\h85, \h06, \h26, \he6} => r.mode = "ZERO_PAGE"
             /\ r.code = \h4c => r.mode = "ABSOLUTE"
<1> USE DEF Row, Rows, Implied
<1>1. \A r \in ArithmeticRows : ModeOK(r)
  BY SMTT(30) DEF ArithmeticRows, ReadColumn, IndexCompareColumn
<1>2. \A r \in BranchRows : ModeOK(r)
  BY SMTT(30) DEF BranchRows
<1>3. \A r \in ClearFlagRows : ModeOK(r)
  BY SMTT(30) DEF ClearFlagRows
<1>4. \A r \in JumpRows : ModeOK(r)
  BY SMTT(30) DEF JumpRows
<1>5. \A r \in LoadRows : ModeOK(r)
  BY SMTT(30) DEF LoadRows, ReadColumn
<1>6. \A r \in StackRows : ModeOK(r)
  BY SMTT(30) DEF StackRows
<1>7. \A r \in SetFlagRows : ModeOK(r)
  BY SMTT(30) DEF SetFlagRows
<1>8. \A r \in StoreRows : ModeOK(r)
  BY SMTT(30) DEF StoreRows
<1>9. \A r \in TransferRows : ModeOK(r)
  BY SMTT(30) DEF TransferRows
<1>10. \A r \in IncDecRows : ModeOK(r)
  BY SMTT(30) DEF IncDecRows, ModifyColumn
<1>11. \A r \in ShiftRows : ModeOK(r)
  BY SMTT(30) DEF ShiftRows, ShiftColumn, ModifyColumn
<1>12. \A r \in BreakRows : ModeOK(r)
  BY SMTT(30) DEF BreakRows
<1>13. \A r \in LaxSaxRows : ModeOK(r)
  BY SMTT(30) DEF LaxSaxRows
<1>14. \A r \in CombinedRows : ModeOK(r)
  BY SMTT(30) DEF CombinedRows, CombinedColumn
<1>15. \A r \in NopRows : ModeOK(r)
  BY SMTT(30) DEF NopRows
<1> HIDE DEF ModeOK
<1>16. \A r \in AllRows : ModeOK(r)
  BY Sections, <1>1, <1>2, <1>3, <1>4, <1>5, <1>6, <1>7, <1>8, <1>9, <1>10,
     <1>11, <1>12, <1>13, <1>14, <1>15
<1> QED
  BY <1>16 DEF ModeOK

LEMMA HandlerInstructions ==
  ASSUME IInv, HandlerInstalled, Instruction, PC \in HandlerPoints
  PROVE  /\ PC \in {\h9000, \h9002} => entry.op = "PHA"
         /\ PC = \h9001 => entry.op = "TXA"
         /\ PC = \h9003 => entry.op = "LDX" /\ entry.mode = "IMMEDIATE"
         /\ PC = \h9005 => entry.op = "SEC"
         /\ PC = \h9006 => entry.op = "ROL" /\ entry.mode = "ACCUMULATOR"
         /\ PC \in {\h9007, \h9009} => entry.op = "PLA"
         /\ PC = \h9008 => entry.op = "TAX"
         /\ PC = \h900a => entry.op = "RTI"
<1>1. Opcode \in Handled
  BY DEF Instruction
<1>2. Opcode = Get8(PC)
  BY DEF Opcode, PPU_STATUS, HandlerPoints
<1>3. /\ entry \in AllRows /\ entry.code = Get8(PC)
      /\ entry.op = OPCODES[Get8(PC) + 1]
  BY <1>1, <1>2, EntryRow
<1>4. /\ OPCODES[\h48 + 1] = "PHA" /\ OPCODES[\h8a + 1] = "TXA"
      /\ OPCODES[\ha2 + 1] = "LDX" /\ OPCODES[\h38 + 1] = "SEC"
      /\ OPCODES[\h2a + 1] = "ROL" /\ OPCODES[\h68 + 1] = "PLA"
      /\ OPCODES[\haa + 1] = "TAX" /\ OPCODES[\h40 + 1] = "RTI"
  BY DEF OPCODES
<1> QED
  BY <1>3, <1>4, HandlerCode, HandlerModes DEF IInv

(* What each leaves in the registers, on the stack and in the PC.          *)
LEMMA HandlerEffects ==
  ASSUME IInv, HandlerInstalled, Instruction, PC \in HandlerPoints
  PROVE  /\ PC \in {\h9000, \h9002} =>
              /\ PC' = PC + 1 /\ SP' = U8(SP - 1) /\ UNCHANGED registers
              /\ ram' = [ram EXCEPT ![StackAt(SP)] = A]
         /\ PC = \h9001 => PC' = \h9002 /\ A' = X /\ UNCHANGED <<X, Y, SP, ram>>
         /\ PC = \h9003 => PC' = \h9005 /\ UNCHANGED <<A, Y, SP, ram>>
         /\ PC = \h9005 => PC' = \h9006 /\ UNCHANGED <<A, X, Y, SP, ram>>
         /\ PC = \h9006 => PC' = \h9007 /\ UNCHANGED <<X, Y, SP, ram>>
         /\ PC \in {\h9007, \h9009} =>
              /\ PC' = PC + 1 /\ A' = Pop8(1) /\ SP' = U8(SP + 1)
              /\ UNCHANGED <<X, Y, ram>>
         /\ PC = \h9008 => PC' = \h9009 /\ X' = A /\ UNCHANGED <<A, Y, SP, ram>>
         /\ PC = \h900a =>
              /\ PC' = Pop16(2) /\ SP' = U8(SP + 3) /\ UNCHANGED <<A, X, Y, ram>>
              /\ P' = PFlags(Pop8(1)) \cup (P \cap {"U"})
<1>1. Handler(Decoded) /\ Decoded.op = entry.op /\ Decoded.mode = entry.mode
  BY DEF Instruction, Decoded
<1>2. /\ entry.op = "PHA" => PHA(Decoded)
      /\ entry.op = "PLA" => PLA(Decoded)
      /\ entry.op = "TXA" => TXA(Decoded)
      /\ entry.op = "TAX" => TAX(Decoded)
      /\ entry.op = "LDX" => LDX(Decoded)
      /\ entry.op = "SEC" => SEC(Decoded)
      /\ entry.op = "ROL" => ROL(Decoded)
      /\ entry.op = "RTI" => RTI(Decoded)
  BY <1>1, HandlerOf
<1>3. \A p \in HandlerPoints : U16(p + 1) = p + 1 /\ U16(p + 1 + 1) = p + 2
  BY DEF HandlerPoints, U16
<1>4. Here = PC + 1
  BY <1>3 DEF Here
<1>5. ASSUME PC \in {\h9000, \h9002}
      PROVE  /\ PC' = PC + 1 /\ SP' = U8(SP - 1) /\ UNCHANGED registers
             /\ ram' = [ram EXCEPT ![StackAt(SP)] = A]
  <2>1. PHA(Decoded)
    BY <1>2, <1>5, HandlerInstructions
  <2> QED
    BY <1>4, <2>1, Zenon DEF PHA, PushRegister, NoAddress
<1>6. ASSUME PC = \h9001 PROVE PC' = \h9002 /\ A' = X /\ UNCHANGED <<X, Y, SP, ram>>
  <2>1. TXA(Decoded)
    BY <1>2, <1>6, HandlerInstructions
  <2> QED
    BY <1>4, <1>6, <2>1 DEF TXA, NoAddress, SetA
<1>7. ASSUME PC = \h9003 PROVE PC' = \h9005 /\ UNCHANGED <<A, Y, SP, ram>>
  <2>1. LDX(Decoded) /\ entry.mode = "IMMEDIATE"
    BY <1>2, <1>7, HandlerInstructions
  <2>2. OperandBytes["IMMEDIATE"] = 1
    BY DEF OperandBytes, AddrMode
  <2>3. PC' = U16(PC + 1 + OperandBytes["IMMEDIATE"])
    BY <1>1, <2>1 DEF LDX, Charged, GetAddr
  <2> QED
    BY <1>7, <2>1, <2>2, <2>3 DEF LDX, SetX, U16
<1>8. ASSUME PC = \h9005 PROVE PC' = \h9006 /\ UNCHANGED <<A, X, Y, SP, ram>>
  <2>1. SEC(Decoded)
    BY <1>2, <1>8, HandlerInstructions
  <2> QED
    BY <1>4, <1>8, <2>1 DEF SEC, NoAddress, SetP, registers
<1>9. ASSUME PC = \h9006 PROVE PC' = \h9007 /\ UNCHANGED <<X, Y, SP, ram>>
  <2>1. ROL(Decoded) /\ Decoded.mode = "ACCUMULATOR"
    BY <1>1, <1>2, <1>9, HandlerInstructions
  <2> QED
    BY <1>4, <1>9, <2>1 DEF ROL, Shift, NoAddress, SetA
<1>10. ASSUME PC \in {\h9007, \h9009}
       PROVE  /\ PC' = PC + 1 /\ A' = Pop8(1) /\ SP' = U8(SP + 1)
              /\ UNCHANGED <<X, Y, ram>>
  <2>1. PLA(Decoded)
    BY <1>2, <1>10, HandlerInstructions
  <2> QED
    BY <1>4, <2>1, Zenon DEF PLA, NoAddress
<1>11. ASSUME PC = \h9008 PROVE PC' = \h9009 /\ X' = A /\ UNCHANGED <<A, Y, SP, ram>>
  <2>1. TAX(Decoded)
    BY <1>2, <1>11, HandlerInstructions
  <2> QED
    BY <1>4, <1>11, <2>1 DEF TAX, NoAddress, SetX
<1>12. ASSUME PC = \h900a
       PROVE  /\ PC' = Pop16(2) /\ SP' = U8(SP + 3) /\ UNCHANGED <<A, X, Y, ram>>
              /\ P' = PFlags(Pop8(1)) \cup (P \cap {"U"})
  <2>1. RTI(Decoded)
    BY <1>2, <1>12, HandlerInstructions
  <2> QED
    BY <2>1 DEF RTI, registers
<1> QED
  BY <1>5, <1>6, <1>7, <1>8, <1>9, <1>10, <1>11, <1>12

-----------------------------------------------------------------------------
(* The stack under a handler.  U8 of a sum or a difference of bytes.       *)
LEMMA Wraps ==
  /\ \A n \in Int : -256 <= n /\ n < 0 => U8(n) = n + 256
  /\ \A n \in Int : 0 <= n /\ n < 256 => U8(n) = n
  /\ \A n \in Int : 256 <= n /\ n < 512 => U8(n) = n - 256
  BY SMT DEF U8

(* A push at SP or just below does not reach the bytes of a frame D bytes  *)
(* above, as long as all of them fit.                                      *)
LEMMA Apart ==
  ASSUME NEW s \in Byte, NEW sp \in Byte, NEW m \in 0 .. 2, NEW c \in 0 .. 4,
         c < U8(s - sp), U8(s - sp) + m <= 255
  PROVE  StackAt(sp - m) # StackAt(s - c)
<1>1. s \in Int /\ 0 <= s /\ s <= 255 /\ sp \in Int /\ 0 <= sp /\ sp <= 255
  BY Bounds
<1>2. /\ U8(s - sp) = IF s >= sp THEN s - sp ELSE s - sp + 256
      /\ U8(sp - m) = IF sp >= m THEN sp - m ELSE sp - m + 256
      /\ U8(s - c) = IF s >= c THEN s - c ELSE s - c + 256
  BY <1>1, Wraps
<1> QED
  BY <1>1, <1>2 DEF StackAt

LEMMA Distances ==
  ASSUME NEW s \in Byte, NEW t \in Byte, NEW d \in 0 .. 5, U8(s - t) + d <= 255
  PROVE  /\ U8(s - U8(t - d)) = U8(s - t) + d
         /\ U8(t - U8(t - d)) = d
<1>1. s \in Int /\ 0 <= s /\ s <= 255 /\ t \in Int /\ 0 <= t /\ t <= 255
  BY Bounds
<1>2. /\ U8(s - t) = IF s >= t THEN s - t ELSE s - t + 256
      /\ U8(t - d) = IF t >= d THEN t - d ELSE t - d + 256
  BY <1>1, Wraps
<1>3. U8(s - U8(t - d)) = U8(s - t) + d
  BY <1>1, <1>2, Wraps
<1>4. U8(t - U8(t - d)) = d
  BY <1>1, <1>2, Wraps
<1> QED
  BY <1>3, <1>4

(* Popping takes back what was pushed.                                     *)
LEMMA Popped ==
  ASSUME NEW s \in Byte, NEW d \in 3 .. 5
  PROVE  /\ U8(U8(s - d) - 1) = U8(s - (d + 1))
         /\ U8(U8(s - d) + 1) = U8(s - (d - 1))
         /\ StackAt(U8(s - d) + 1) = StackAt(s - (d - 1))
         /\ StackAt(U8(s - d)) = StackAt(s - d)
<1>1. s \in Int /\ 0 <= s /\ s <= 255
  BY Bounds
<1>2. /\ U8(s - d) = IF s >= d THEN s - d ELSE s - d + 256
      /\ U8(s - (d + 1)) = IF s >= d + 1 THEN s - (d + 1) ELSE s - (d + 1) + 256
      /\ U8(s - (d - 1)) = IF s >= d - 1 THEN s - (d - 1) ELSE s - (d - 1) + 256
  BY <1>1, Wraps
<1>3. U8(U8(s - d) - 1) = U8(s - (d + 1))
  BY <1>1, <1>2, Wraps
<1>4. U8(U8(s - d) + 1) = U8(s - (d - 1))
  BY <1>1, <1>2, Wraps
<1>5. U8(U8(s - d)) = U8(s - d)
  BY <1>1, <1>2, Wraps
<1> QED
  BY <1>3, <1>4, <1>5, Zenon DEF StackAt

LEMMA DepthBounds == \A pc : Depth(pc) \in 3 .. 5
  BY DEF Depth

(* A handler only reads its own part of the stack.                         *)
LEMMA WithinKept ==
  ASSUME NEW f \in FrameType, NEW pc, NEW regs, NEW sp, NEW r, NEW s,
         Within(f, pc, regs, sp, r), f.kind = "nmi",
         \A c \in 0 .. 4 : c < Depth(pc) => s[StackAt(f.SP - c)] = r[StackAt(f.SP - c)]
  PROVE  Within(f, pc, regs, sp, s)
<1>1. f.SP - 0 = f.SP
  BY Bounds DEF FrameType
<1>2. /\ s[StackAt(f.SP)] = r[StackAt(f.SP)]
      /\ s[StackAt(f.SP - 1)] = r[StackAt(f.SP - 1)]
      /\ s[StackAt(f.SP - 2)] = r[StackAt(f.SP - 2)]
      /\ Depth(pc) >= 4 => s[StackAt(f.SP - 3)] = r[StackAt(f.SP - 3)]
      /\ Depth(pc) = 5 => s[StackAt(f.SP - 4)] = r[StackAt(f.SP - 4)]
  BY <1>1, DepthBounds
<1>3. Kept(f, s)
  <2>1. Kept(f, r)
    BY DEF Within
  <2> QED
    BY <1>2, <2>1, Zenon DEF Kept
<1>4. /\ Depth(pc) >= 4 => s[StackAt(f.SP - 3)] = f.saved[1]
      /\ Depth(pc) = 5 => s[StackAt(f.SP - 4)] = f.saved[2]
  BY <1>2 DEF Within
<1> QED
  BY <1>3, <1>4 DEF Within

(* No push reaches the part of the stack of an open interrupt.             *)
LEMMA PartsApart ==
  ASSUME IInv, NInv, NmisFit, NEW n \in 1 .. Len(frames), frames[n].kind = "nmi",
         NEW c \in 0 .. 4, c < Depth(Resumes(n)), NEW m \in 0 .. 2
  PROVE  StackAt(SP - m) # StackAt(frames[n].SP - c)
<1> DEFINE N == Len(frames)
           s == frames[n].SP
           t == frames[N].SP
<1>1. N \in Nat /\ N \in 1 .. N /\ n \in Nat /\ 1 <= n /\ n <= N
      /\ s \in Byte /\ t \in Byte /\ SP \in Byte
  <2>1. SP \in Byte /\ Len(frames) \in Nat
    BY DEF NInv, IInv, TypeOK
  <2>2. N \in Nat /\ N \in 1 .. N /\ n \in Nat /\ 1 <= n /\ n <= N
    BY <2>1
  <2>3. frames[n] \in FrameType /\ frames[N] \in FrameType
    BY <2>2 DEF NInv
  <2> QED
    BY <2>1, <2>2, <2>3 DEF FrameType
<1>2. Interrupted(n) /\ frames[N].kind = "nmi" /\ Interrupted(N) /\ N - n < 50
  BY <1>1 DEF NInv, Interrupted, NmisFit
<1>3. SP = U8(t - Depth(PC))
  BY <1>2 DEF Interrupted, Within, SPOf, Resumes
<1>4. U8(s - SP) > c /\ U8(s - SP) + m <= 255
  <2>1. CASE n = N
    <3>1. U8(s - SP) = Depth(PC)
      <4>1. U8(s - s) + Depth(PC) <= 255
        BY <1>1, DepthBounds, Bounds DEF U8
      <4> QED
        BY <1>1, <1>3, <2>1, <4>1, DepthBounds, Distances
    <3> QED
      BY <2>1, <3>1, DepthBounds DEF Resumes
  <2>2. CASE n < N
    <3>1. U8(s - t) >= Depth(Resumes(n)) /\ U8(s - t) <= 5 * (N - n)
      BY <1>1, <1>2, <2>2 DEF Interrupted
    <3>2. U8(s - t) \in Int /\ Depth(PC) \in 3 .. 5 /\ Depth(Resumes(n)) \in 3 .. 5
      <4>1. s \in Int /\ t \in Int
        BY <1>1, Bounds
      <4>2. s - t \in Int
        BY <4>1
      <4>3. U8(s - t) \in Int
        BY <4>2 DEF U8
      <4> QED
        BY <4>3, DepthBounds, Zenon
    <3>3. U8(s - t) + Depth(PC) <= 250
      BY <1>1, <1>2, <3>1, <3>2
    <3>4. U8(s - SP) = U8(s - t) + Depth(PC)
      BY <1>1, <1>3, <3>2, <3>3, Distances
    <3> QED
      BY <3>1, <3>2, <3>3, <3>4
  <2> QED
    BY <1>1, <2>1, <2>2
<1> HIDE DEF s, N, t
<1>5. StackAt(SP - m) # StackAt(s - c)
  BY <1>1, <1>4, Apart
<1> QED
  BY <1>5 DEF s

(* The stack of an interrupt: its five bytes are different ones.           *)
LEMMA FiveBytes ==
  ASSUME NEW s \in Byte
  PROVE  /\ StackAt(s - 3) \notin {StackAt(s), StackAt(s - 1), StackAt(s - 2)}
         /\ StackAt(s - 4) \notin {StackAt(s), StackAt(s - 1), StackAt(s - 2), StackAt(s - 3)}
         /\ \A c \in 0 .. 4 : StackAt(s - c) \in RamIndex
<1>1. s \in Int /\ 0 <= s /\ s <= 255
  BY Bounds
<1>2. StackAt(s - 3) \notin {StackAt(s), StackAt(s - 1), StackAt(s - 2)}
  BY <1>1, SMT DEF StackAt, U8
<1>3. StackAt(s - 4) \notin {StackAt(s), StackAt(s - 1), StackAt(s - 2), StackAt(s - 3)}
  BY <1>1, SMT DEF StackAt, U8
<1>4. \A c \in 0 .. 4 : StackAt(s - c) \in RamIndex
  <2>1. \A c \in 0 .. 4 : U8(s - c) \in Byte
    BY <1>1, ConversionTypes
  <2> QED
    BY <2>1, Indices, Bounds, SMT DEF StackAt
<1> QED
  BY <1>2, <1>3, <1>4

(* One instruction of the handler, its RTI apart.                          *)
LEMMA HandlerAdvances ==
  ASSUME IInv, HandlerInstalled, Instruction, NEW f \in FrameType, f.kind = "nmi",
         Within(f, PC, registers, SP, ram), PC # \h900a
  PROVE  Within(f, PC', registers', SP', ram')
<1>1. /\ f.SP \in Byte /\ ram \in Ram /\ PC \in HandlerPoints
      /\ f.SP \in Int /\ f.SP - 0 = f.SP
  BY Bounds DEF FrameType, IInv, TypeOK, Within
<1>2. /\ registers[1] = A /\ registers[2] = X /\ registers[3] = Y
      /\ registers'[1] = A' /\ registers'[2] = X' /\ registers'[3] = Y'
  BY DEF registers
<1>3. Y = f.saved[3] /\ Kept(f, ram) /\ SP = U8(f.SP - Depth(PC))
  BY <1>2 DEF Within
<1>4. /\ Depth(\h9000) = 3 /\ Depth(\h9001) = 4 /\ Depth(\h9002) = 4
      /\ Depth(\h9003) = 5 /\ Depth(\h9005) = 5 /\ Depth(\h9006) = 5
      /\ Depth(\h9007) = 5 /\ Depth(\h9008) = 4 /\ Depth(\h9009) = 4
      /\ Depth(\h900a) = 3
  BY DEF Depth
<1>5. /\ \A d \in 3 .. 5 : U8(U8(f.SP - d) - 1) = U8(f.SP - (d + 1))
      /\ \A d \in 3 .. 5 : U8(U8(f.SP - d) + 1) = U8(f.SP - (d - 1))
      /\ \A d \in 3 .. 5 : StackAt(U8(f.SP - d) + 1) = StackAt(f.SP - (d - 1))
      /\ \A d \in 3 .. 5 : StackAt(U8(f.SP - d)) = StackAt(f.SP - d)
  BY <1>1, Popped
<1>6. CASE PC \in {\h9000, \h9002}
  <2> DEFINE c == IF PC = \h9000 THEN 3 ELSE 4
  <2>1. /\ PC' = PC + 1 /\ SP' = U8(SP - 1) /\ UNCHANGED registers
        /\ ram' = [ram EXCEPT ![StackAt(SP)] = A]
    BY <1>1, <1>6, HandlerEffects
  <2>2. /\ c \in {3, 4} /\ Depth(PC) = c /\ Depth(PC') = c + 1
        /\ PC' = IF c = 3 THEN \h9001 ELSE \h9003
    BY <1>4, <1>6, <2>1
  <2>3. SP' = U8(f.SP - (c + 1)) /\ StackAt(SP) = StackAt(f.SP - c)
    BY <1>3, <1>5, <2>1, <2>2
  <2>4. /\ A = f.saved[c - 2]
        /\ c = 3 => X = f.saved[2]
        /\ c = 4 => ram[StackAt(f.SP - 3)] = f.saved[1]
    BY <1>2, <1>4, <1>6 DEF Within
  <2> HIDE DEF c
  <2>5. /\ ram'[StackAt(f.SP - c)] = A
        /\ ram'[StackAt(f.SP)] = ram[StackAt(f.SP)]
        /\ ram'[StackAt(f.SP - 1)] = ram[StackAt(f.SP - 1)]
        /\ ram'[StackAt(f.SP - 2)] = ram[StackAt(f.SP - 2)]
        /\ c = 4 => ram'[StackAt(f.SP - 3)] = ram[StackAt(f.SP - 3)]
    <3>1. DOMAIN ram = RamIndex
      BY <1>1 DEF Ram
    <3>2. /\ StackAt(f.SP) \in RamIndex /\ StackAt(f.SP - 1) \in RamIndex
          /\ StackAt(f.SP - 2) \in RamIndex /\ StackAt(f.SP - 3) \in RamIndex
          /\ StackAt(f.SP - 4) \in RamIndex
      BY <1>1, FiveBytes
    <3>3. CASE c = 3
      BY <1>1, <2>1, <2>3, <3>1, <3>2, <3>3, FiveBytes
    <3>4. CASE c = 4
      BY <1>1, <2>1, <2>3, <3>1, <3>2, <3>4, FiveBytes
    <3> QED
      BY <2>2, <3>3, <3>4
  <2>6. Kept(f, ram')
    BY <1>3, <2>5 DEF Kept
  <2>7. registers' = registers /\ registers[2] = X /\ registers[3] = f.saved[3]
    BY <1>2, <1>3, <2>1
  <2>8. CASE c = 3
    BY <1>4, <2>2, <2>3, <2>4, <2>5, <2>6, <2>7, <2>8 DEF Within, HandlerPoints
  <2>9. CASE c = 4
    BY <1>4, <2>2, <2>3, <2>4, <2>5, <2>6, <2>7, <2>9 DEF Within, HandlerPoints
  <2> QED
    BY <2>2, <2>8, <2>9
<1>7. CASE PC \in {\h9001, \h9003, \h9005, \h9006, \h9008}
  <2>1. /\ PC = \h9001 => PC' = \h9002 /\ A' = X
        /\ PC = \h9003 => PC' = \h9005
        /\ PC = \h9005 => PC' = \h9006
        /\ PC = \h9006 => PC' = \h9007
        /\ PC = \h9008 => PC' = \h9009 /\ X' = A
        /\ PC = \h9001 => X' = X
        /\ Y' = Y /\ SP' = SP /\ ram' = ram
    BY <1>1, <1>7, HandlerEffects
  <2>2. Depth(PC') = Depth(PC) /\ PC' \in HandlerPoints
    BY <1>4, <1>7, <2>1 DEF HandlerPoints
  <2>3. /\ PC' \notin {\h9000, \h9001, \h9003, \h9008, \h900a}
        /\ PC' = \h9002 => A' = f.saved[2] /\ X' = f.saved[2]
        /\ PC' = \h9009 => X' = f.saved[2]
    BY <1>2, <1>7, <2>1 DEF Within
  <2> QED
    BY <1>2, <1>3, <2>1, <2>2, <2>3 DEF Within
<1>8. CASE PC \in {\h9007, \h9009}
  <2>1. /\ PC' = PC + 1 /\ A' = Pop8(1) /\ SP' = U8(SP + 1)
        /\ X' = X /\ Y' = Y /\ ram' = ram
    BY <1>1, <1>8, HandlerEffects
  <2>2. CASE PC = \h9007
    <3>1. Depth(PC) = 5 /\ Depth(PC') = 4 /\ PC' = \h9008
      BY <1>4, <2>1, <2>2
    <3>2. SP = U8(f.SP - 5) /\ SP' = U8(f.SP - 4) /\ StackAt(SP + 1) = StackAt(f.SP - 4)
      <4>1. 5 - 1 = 4 /\ 5 \in 3 .. 5
        OBVIOUS
      <4> QED
        BY <1>3, <1>5, <2>1, <3>1, <4>1
    <3>3. ram[StackAt(f.SP - 4)] = f.saved[2] /\ ram[StackAt(f.SP - 3)] = f.saved[1]
      BY <3>1 DEF Within
    <3>4. A' = f.saved[2]
      BY <2>1, <3>2, <3>3 DEF Pop8
    <3> QED
      BY <1>2, <1>3, <2>1, <3>1, <3>2, <3>3, <3>4 DEF Within, HandlerPoints
  <2>3. CASE PC = \h9009
    <3>1. Depth(PC) = 4 /\ Depth(PC') = 3 /\ PC' = \h900a
      BY <1>4, <2>1, <2>3
    <3>2. SP = U8(f.SP - 4) /\ SP' = U8(f.SP - 3) /\ StackAt(SP + 1) = StackAt(f.SP - 3)
      <4>1. 4 - 1 = 3 /\ 4 \in 3 .. 5
        OBVIOUS
      <4> QED
        BY <1>3, <1>5, <2>1, <3>1, <4>1
    <3>3. ram[StackAt(f.SP - 3)] = f.saved[1] /\ X = f.saved[2]
      BY <1>2, <2>3, <3>1 DEF Within
    <3>4. A' = f.saved[1]
      BY <2>1, <3>2, <3>3 DEF Pop8
    <3> QED
      BY <1>2, <1>3, <2>1, <3>1, <3>2, <3>3, <3>4 DEF Within, HandlerPoints
  <2> QED
    BY <1>8, <2>2, <2>3
<1> QED
  BY <1>1, <1>6, <1>7, <1>8 DEF HandlerPoints

(* An open interrupt resumes as it was, if no more than the stack just     *)
(* below SP is written.                                                    *)
LEMMA OuterKept ==
  ASSUME IInv, NInv, NmisFit, NEW n \in 1 .. Len(frames), frames[n].kind = "nmi",
         \A a \in RamIndex :
           a \notin {StackAt(SP), StackAt(SP - 1), StackAt(SP - 2)} => ram'[a] = ram[a]
  PROVE  Within(frames[n], Resumes(n), RegsOf(n), SPOf(n), ram')
<1> DEFINE f == frames[n]
<1>1. f \in FrameType /\ Interrupted(n)
  BY DEF NInv
<1>2. f.SP \in Byte /\ SP - 0 = SP
  <2>1. f.SP \in Byte
    BY <1>1 DEF FrameType
  <2>2. SP \in Int
    BY Bounds DEF IInv, TypeOK
  <2> QED
    BY <2>1, <2>2
<1>3. ASSUME NEW c \in 0 .. 4, c < Depth(Resumes(n))
      PROVE  ram'[StackAt(f.SP - c)] = ram[StackAt(f.SP - c)]
  <2>1. StackAt(f.SP - c) \in RamIndex
    BY <1>2, FiveBytes
  <2>2. \A m \in 0 .. 2 : StackAt(SP - m) # StackAt(f.SP - c)
    BY <1>3, PartsApart
  <2>3. StackAt(f.SP - c) \notin {StackAt(SP), StackAt(SP - 1), StackAt(SP - 2)}
    BY <1>2, <2>2
  <2> QED
    BY <2>1, <2>3
<1>4. Within(f, Resumes(n), RegsOf(n), SPOf(n), ram) /\ f.kind = "nmi"
  BY <1>1 DEF Interrupted
<1> HIDE DEF f
<1>5. Within(f, Resumes(n), RegsOf(n), SPOf(n), ram')
  BY <1>1, <1>3, <1>4, WithinKept
<1> QED
  BY <1>5 DEF f

(* The innermost frame, when it is an interrupt's: its handler runs.       *)
LEMMA Innermost ==
  ASSUME IInv, NInv, NEW n \in 1 .. Len(frames), frames[n].kind = "nmi"
  PROVE  LET N == Len(frames)
         IN  /\ N \in Nat /\ N \in 1 .. N /\ frames # <<>>
             /\ frames[N] \in FrameType /\ frames[N].kind = "nmi"
             /\ Last(frames) = frames[N]
             /\ Within(frames[N], PC, registers, SP, ram)
<1> DEFINE N == Len(frames)
<1>1. N \in Nat /\ N \in 1 .. N /\ N \in n .. N
  BY DEF NInv
<1>2. frames # <<>>
  BY <1>1
<1>3. frames[N] \in FrameType
  BY <1>1 DEF NInv
<1>4. frames[N].kind = "nmi"
  BY <1>1 DEF NInv, Interrupted
<1>5. Interrupted(N)
  BY <1>1, <1>4 DEF NInv
<1>6. Within(frames[N], PC, registers, SP, ram)
  BY <1>5, Zenon DEF Interrupted, Resumes, RegsOf, SPOf
<1> QED
  BY <1>1, <1>2, <1>3, <1>4, <1>6, Zenon DEF Last

(* An instruction of a handler that does not end it.                       *)
LEMMA HandlerGoesOn ==
  ASSUME IInv, NInv, NmisFit, HandlerInstalled, Instruction, UNCHANGED frames,
         PC # \h900a, NEW n \in 1 .. Len(frames), frames[n].kind = "nmi"
  PROVE  Interrupted(n)'
<1> DEFINE N == Len(frames)
<1>1. /\ N \in Nat /\ N \in 1 .. N /\ frames[N] \in FrameType
      /\ frames[N].kind = "nmi" /\ Within(frames[N], PC, registers, SP, ram)
  BY Innermost
<1>2. PC \in HandlerPoints
  BY <1>1 DEF Within
<1>3. \A a \in RamIndex : a # StackAt(SP) => ram'[a] = ram[a]
  <2>1. \/ ram' = ram
        \/ ram' = [ram EXCEPT ![StackAt(SP)] = A]
    BY <1>2, HandlerEffects DEF HandlerPoints
  <2>2. DOMAIN ram = RamIndex
    BY DEF IInv, TypeOK, Ram
  <2> QED
    BY <2>1, <2>2
<1>4. Interrupted(n)
  BY DEF NInv
<1>5. CASE n = N
  <2>1. Resumes(n)' = PC' /\ RegsOf(n)' = registers' /\ SPOf(n)' = SP'
    BY <1>5 DEF Resumes, RegsOf, SPOf
  <2>2. Within(frames[n], PC', registers', SP', ram')
    BY <1>1, <1>5, HandlerAdvances
  <2>3. \A m \in n + 1 .. Len(frames) : FALSE
    BY <1>1, <1>5
  <2>4. \A m \in n .. Len(frames) : frames[m].kind = "nmi"
    BY <1>4 DEF Interrupted
  <2>5. frames' = frames
    OBVIOUS
  <2>6. Within(frames'[n], Resumes(n)', RegsOf(n)', SPOf(n)', ram')
    BY <2>1, <2>2, <2>5
  <2>7. /\ \A m \in n .. Len(frames') : frames'[m].kind = "nmi"
        /\ \A m \in n + 1 .. Len(frames') : FALSE
    BY <2>3, <2>4, <2>5
  <2> QED
    BY <2>6, <2>7 DEF Interrupted
<1>6. CASE n # N
  <2>1. Resumes(n)' = Resumes(n) /\ RegsOf(n)' = RegsOf(n) /\ SPOf(n)' = SPOf(n)
    BY <1>6 DEF Resumes, RegsOf, SPOf
  <2>2. Within(frames[n], Resumes(n), RegsOf(n), SPOf(n), ram')
    BY <1>3, OuterKept
  <2>3. /\ \A m \in n .. Len(frames) : frames[m].kind = "nmi"
        /\ \A m \in n + 1 .. Len(frames) :
             /\ U8(frames[n].SP - frames[m].SP) >= Depth(Resumes(n))
             /\ U8(frames[n].SP - frames[m].SP) <= 5 * (m - n)
    BY <1>4 DEF Interrupted
  <2>4. frames' = frames
    OBVIOUS
  <2>5. Within(frames'[n], Resumes(n)', RegsOf(n)', SPOf(n)', ram')
    BY <2>1, <2>2, <2>4
  <2>6. /\ \A m \in n .. Len(frames') : frames'[m].kind = "nmi"
        /\ \A m \in n + 1 .. Len(frames') :
             /\ U8(frames'[n].SP - frames'[m].SP) >= Depth(Resumes(n)')
             /\ U8(frames'[n].SP - frames'[m].SP) <= 5 * (m - n)
    BY <2>1, <2>3, <2>4
  <2> QED
    BY <2>5, <2>6 DEF Interrupted
<1> QED
  BY <1>5, <1>6

(* Its RTI goes back to where the interrupt was taken, with the registers  *)
(* and the status of then.                                                 *)
LEMMA HandlerReturns ==
  ASSUME IInv, HandlerInstalled, Instruction, PC = \h900a, NEW f \in FrameType,
         f.kind = "nmi", Within(f, PC, registers, SP, ram)
  PROVE  /\ PC' = f.return /\ SP' = f.SP /\ registers' = f.saved /\ ram' = ram
         /\ P' \ {"B"} = f.P \ {"B"}
<1>1. /\ PC' = Pop16(2) /\ SP' = U8(SP + 3)
      /\ A' = A /\ X' = X /\ Y' = Y /\ ram' = ram
      /\ P' = PFlags(Pop8(1)) \cup (P \cap {"U"})
  BY HandlerEffects DEF HandlerPoints
<1>2. f.SP \in Byte /\ f.return \in Word /\ f.saved \in Byte \X Byte \X Byte
      /\ Pushed(f) = f.return
  BY DEF FrameType, Pushed
<1>3. SP = U8(f.SP - 3)
  <2>1. Depth(PC) = 3
    BY DEF Depth
  <2> QED
    BY <2>1 DEF Within
<1>4. Kept(f, ram)
  BY DEF Within
<1>5. /\ Pop8(2) = Lo(f.return) /\ Pop8(3) = Hi(f.return)
      /\ Pop8(1) = PByte(f.P \cup {"B"})
  <2>1. /\ StackAt(SP + 1) = StackAt(f.SP - 2)
        /\ StackAt(SP + 2) = StackAt(f.SP - 1) /\ StackAt(SP + 3) = StackAt(f.SP)
    BY <1>2, <1>3, StackAddresses
  <2> QED
    BY <1>2, <1>4, <2>1 DEF Pop8, Kept
<1>6. Pop16(2) = f.return
  BY <1>2, <1>5, PoppedWord
<1>7. registers[1] = f.saved[1] /\ registers[2] = f.saved[2] /\ registers[3] = f.saved[3]
  BY DEF Within
<1>8. registers = f.saved
  BY <1>2, <1>7 DEF registers
<1>9. P' \ {"B"} = f.P \ {"B"}
  <2> DEFINE s == f.P \cup {"B"}
  <2>1. s \in SUBSET Flag /\ "U" \in f.P
    BY DEF FrameType, Flag, Within
  <2>2. Pop8(1) = PByte(s)
    BY <1>5
  <2> HIDE DEF s
  <2>3. P' = s \cup (P \cap {"U"})
    BY <1>1, <2>1, <2>2, StatusRoundTrip
  <2> QED
    BY <2>1, <2>3 DEF s
<1> QED
  BY <1>1, <1>2, <1>3, <1>6, <1>8, <1>9, StackAddresses DEF registers

(* How far the frames of open interrupts are above SP.                     *)
LEMMA AboveSP ==
  ASSUME IInv, NInv, NmisFit, NEW n \in 1 .. Len(frames), frames[n].kind = "nmi"
  PROVE  /\ U8(frames[n].SP - SP) >= Depth(Resumes(n))
         /\ U8(frames[n].SP - SP) <= 5 * (Len(frames) + 1 - n)
<1> DEFINE N == Len(frames)
           s == frames[n].SP
           t == frames[N].SP
<1>1. N \in Nat /\ n \in Int /\ 1 <= n /\ n <= N
  BY DEF NInv
<1>2. /\ frames[N] \in FrameType /\ frames[n] \in FrameType
      /\ Within(frames[N], PC, registers, SP, ram)
  BY Innermost DEF NInv
<1>3. s \in Byte /\ t \in Byte /\ SP = U8(t - Depth(PC)) /\ Interrupted(n) /\ N - n < 50
  BY <1>2 DEF FrameType, Within, NInv, NmisFit
<1>4. CASE n = N
  <2>1. U8(s - s) + Depth(PC) <= 255 /\ U8(s - s) = 0
    BY <1>3, DepthBounds, Bounds DEF U8
  <2>2. U8(s - SP) = Depth(PC)
    BY <1>3, <1>4, <2>1, DepthBounds, Distances
  <2> QED
    BY <1>1, <1>4, <2>2, DepthBounds DEF Resumes
<1>5. CASE n < N
  <2>1. U8(s - t) >= Depth(Resumes(n)) /\ U8(s - t) <= 5 * (N - n)
    BY <1>1, <1>3, <1>5 DEF Interrupted
  <2>2. U8(s - t) \in Int /\ Depth(PC) \in 3 .. 5 /\ Depth(Resumes(n)) \in 3 .. 5
    <3>1. s - t \in Int
      BY <1>3, Bounds
    <3>2. U8(s - t) \in Int
      BY <3>1 DEF U8
    <3> QED
      BY <3>2, DepthBounds, Zenon
  <2> HIDE DEF s, t, N
  <2>3. U8(s - t) + Depth(PC) <= 255
    BY <1>1, <1>3, <2>1, <2>2
  <2>4. U8(s - SP) = U8(s - t) + Depth(PC)
    BY <1>3, <2>2, <2>3, Distances
  <2>5. U8(s - SP) >= Depth(Resumes(n)) /\ U8(s - SP) <= 5 * (N + 1 - n)
    BY <1>1, <2>1, <2>2, <2>4
  <2> QED
    BY <2>5 DEF s, N
<1> QED
  BY <1>1, <1>4, <1>5

(* An interrupt is taken, perhaps in the handler of another.               *)
LEMMA HandlerEntered ==
  ASSUME IInv, NInv, NmisFit, HandlerInstalled, ServiceNmi, Enter("nmi", PC)
  PROVE  NInv'
<1> DEFINE N == Len(frames)
           g == Frame("nmi", PC)
<1>1. /\ PC' = \h9000 /\ SP' = U8(SP - 3) /\ registers' = registers
      /\ ram' = Push3(Hi(PC), Lo(PC), PByte(P \cup {"B"}))
  <2>1. Get16(NMI_VECTOR) = \h9000
    BY HandlerCode DEF IInv
  <2> QED
    BY <2>1 DEF ServiceNmi, TakeNmi, registers
<1>2. /\ g \in FrameType /\ g.kind = "nmi" /\ g.return = PC /\ g.SP = SP /\ g.P = P
      /\ g.saved = registers /\ "U" \in g.P
  BY Registers
<1>3. N \in Nat /\ frames' = Append(frames, g)
  BY DEF NInv, Enter
<1> HIDE DEF g
<1>4. /\ frames' \in Seq(FrameType) /\ Len(frames') = N + 1 /\ frames'[N + 1] = g
      /\ \A m \in 1 .. N : frames'[m] = frames[m]
  BY <1>2, <1>3 DEF NInv
<1> HIDE DEF N
<1>5. Kept(g, ram')
  <2>1. /\ ram'[StackAt(SP)] = Hi(PC) /\ ram'[StackAt(SP - 1)] = Lo(PC)
        /\ ram'[StackAt(SP - 2)] = PByte(P \cup {"B"})
    BY <1>1, PushedBytes DEF IInv
  <2> QED
    BY <1>2, <2>1 DEF Kept, Pushed
<1>6. Within(g, PC', registers', SP', ram')
  <2>1. Depth(\h9000) = 3 /\ \h9000 \in HandlerPoints
    BY DEF Depth, HandlerPoints
  <2> HIDE DEF registers
  <2> QED
    BY <1>1, <1>2, <1>5, <2>1 DEF Within
<1>7. ASSUME NEW n \in Nat, n = N + 1
      PROVE  Interrupted(n)'
  <2>1. Resumes(n)' = PC' /\ RegsOf(n)' = registers' /\ SPOf(n)' = SP'
    BY <1>4, <1>7 DEF Resumes, RegsOf, SPOf
  <2>2. \A m \in n .. N + 1 : m = N + 1
    BY <1>3, <1>7
  <2>3. \A m \in n + 1 .. N + 1 : FALSE
    BY <1>3, <1>7
  <2>4. Within(frames'[n], Resumes(n)', RegsOf(n)', SPOf(n)', ram')
    BY <1>4, <1>6, <1>7, <2>1
  <2>5. \A m \in n .. Len(frames') : frames'[m].kind = "nmi"
    BY <1>2, <1>4, <2>2
  <2>6. \A m \in n + 1 .. Len(frames') : FALSE
    BY <1>4, <2>3
  <2> QED
    BY <2>4, <2>5, <2>6 DEF Interrupted
<1>8. ASSUME NEW n \in 1 .. N, frames[n].kind = "nmi"
      PROVE  Interrupted(n)'
  <2>1. n \in 1 .. Len(frames) /\ n \in Int /\ 1 <= n /\ n <= N /\ n # N + 1
    BY <1>3, <1>8 DEF N
  <2>2. Interrupted(n)
    BY <1>8, <2>1 DEF NInv
  <2>3. Resumes(n)' = Resumes(n) /\ RegsOf(n)' = RegsOf(n) /\ SPOf(n)' = SPOf(n)
    <3>1. CASE n = N
      <4>1. frames'[n + 1] = g /\ Len(frames') # n
        BY <1>3, <1>4, <3>1
      <4> HIDE DEF registers
      <4> QED
        BY <1>2, <3>1, <4>1 DEF Resumes, RegsOf, SPOf, N
    <3>2. CASE n # N
      <4>1. n + 1 \in 1 .. N /\ Len(frames') # n
        BY <1>3, <1>4, <2>1, <3>2
      <4>2. frames'[n + 1] = frames[n + 1]
        BY <1>4, <4>1
      <4> QED
        BY <3>2, <4>1, <4>2 DEF Resumes, RegsOf, SPOf, N
    <3> QED
      BY <3>1, <3>2
  <2>4. \A a \in RamIndex :
          a \notin {StackAt(SP), StackAt(SP - 1), StackAt(SP - 2)} => ram'[a] = ram[a]
    <3>1. DOMAIN ram = RamIndex
      BY DEF IInv, TypeOK, Ram
    <3> QED
      BY <1>1, <3>1 DEF Push3, Push2
  <2>5. Within(frames[n], Resumes(n), RegsOf(n), SPOf(n), ram')
    BY <1>8, <2>1, <2>4, OuterKept
  <2>6. frames'[n] = frames[n] /\ \A m \in n .. N : m \in 1 .. N /\ frames'[m] = frames[m]
    BY <1>3, <1>4, <2>1
  <2>7. \A m \in n .. N : frames[m].kind = "nmi"
    BY <2>2 DEF Interrupted, N
  <2>8. \A m \in n + 1 .. N :
          /\ U8(frames[n].SP - frames[m].SP) >= Depth(Resumes(n))
          /\ U8(frames[n].SP - frames[m].SP) <= 5 * (m - n)
    BY <2>2 DEF Interrupted, N
  <2>9. /\ U8(frames[n].SP - g.SP) >= Depth(Resumes(n))
        /\ U8(frames[n].SP - g.SP) <= 5 * (N + 1 - n)
    BY <1>2, <1>8, <2>1, AboveSP DEF N
  <2>10. Within(frames'[n], Resumes(n)', RegsOf(n)', SPOf(n)', ram')
    BY <2>3, <2>5, <2>6
  <2>11. \A m \in n .. Len(frames') : frames'[m].kind = "nmi"
    <3>1. \A m \in n .. Len(frames') : m \in n .. N \/ m = N + 1
      BY <1>3, <1>4, <2>1
    <3> QED
      BY <1>2, <1>4, <2>6, <2>7, <3>1
  <2>12. \A m \in n + 1 .. Len(frames') :
           /\ U8(frames'[n].SP - frames'[m].SP) >= Depth(Resumes(n)')
           /\ U8(frames'[n].SP - frames'[m].SP) <= 5 * (m - n)
    <3>1. ASSUME NEW m \in n + 1 .. Len(frames')
          PROVE  /\ U8(frames'[n].SP - frames'[m].SP) >= Depth(Resumes(n)')
                 /\ U8(frames'[n].SP - frames'[m].SP) <= 5 * (m - n)
      <4>1. CASE m = N + 1
        <5>1. frames'[m].SP = g.SP
          BY <1>4, <4>1
        <5>2. U8(frames'[n].SP - frames'[m].SP) = U8(frames[n].SP - g.SP)
          BY <2>6, <5>1
        <5>3. 5 * (m - n) = 5 * (N + 1 - n)
          BY <1>3, <2>1, <4>1
        <5>4. Depth(Resumes(n)') = Depth(Resumes(n))
          BY <2>3
        <5> QED
          BY <2>9, <5>2, <5>3, <5>4
      <4>2. CASE m \in n + 1 .. N
        <5>1. frames'[m] = frames[m]
          BY <2>1, <2>6, <4>2
        <5> QED
          BY <2>3, <2>6, <2>8, <4>2, <5>1
      <4> QED
        BY <1>3, <1>4, <2>1, <4>1, <4>2
    <3> QED
      BY <3>1
  <2> QED
    BY <2>10, <2>11, <2>12 DEF Interrupted
<1>9. ASSUME NEW n \in 1 .. Len(frames'), frames'[n].kind = "nmi"
      PROVE  Interrupted(n)'
  <2>1. n \in Nat /\ (n = N + 1 \/ n \in 1 .. N)
    BY <1>3, <1>4
  <2>2. CASE n = N + 1
    BY <1>7, <2>1, <2>2
  <2>3. CASE n \in 1 .. N
    <3>1. frames[n].kind = "nmi"
      BY <1>4, <1>9, <2>3
    <3> QED
      BY <1>8, <2>3, <3>1
  <2> QED
    BY <2>1, <2>2, <2>3
<1> QED
  BY <1>4, <1>9 DEF NInv

(* Where no interrupt is open, an instruction opens none.                  *)
LEMMA NoneOpened ==
  ASSUME IInv, NInv, Effect(entry.op),
         \A n \in 1 .. Len(frames) : frames[n].kind # "nmi"
  PROVE  NInv' /\ \A n \in 1 .. Len(frames') : frames'[n].kind # "nmi"
<1>1. frames \in Seq(FrameType) /\ Len(frames) \in Nat
  BY DEF NInv
<1>2. SUFFICES /\ frames' \in Seq(FrameType)
               /\ \A n \in 1 .. Len(frames') : frames'[n].kind # "nmi"
  BY DEF NInv
<1>3. CASE entry.op \in {"JSR", "BRK"}
  <2>1. PICK kind \in {"call", "break"}, return \in Word :
          frames' = Append(frames, Frame(kind, return))
    <3>1. U16(PC + 3) \in Word /\ U16(PC + 2) \in Word
      <4>1. PC + 3 \in Int /\ PC + 2 \in Int
        BY Registers, Bounds
      <4> QED
        BY <4>1, ConversionTypes
    <3>2. \/ frames' = Append(frames, Frame("call", U16(PC + 3)))
          \/ frames' = Append(frames, Frame("break", U16(PC + 2)))
      BY <1>3 DEF Effect, Enter
    <3> QED
      BY <3>1, <3>2
  <2> DEFINE g == Frame(kind, return)
  <2>2. g \in FrameType /\ g.kind = kind
    BY Registers
  <2> HIDE DEF g
  <2>3. /\ frames' \in Seq(FrameType) /\ Len(frames') = Len(frames) + 1
        /\ frames'[Len(frames) + 1] = g
        /\ \A n \in 1 .. Len(frames) : frames'[n] = frames[n]
    BY <1>1, <2>1, <2>2 DEF g
  <2> QED
    BY <1>1, <2>2, <2>3
<1>4. CASE entry.op \in {"RTS", "RTI"}
  <2>1. frames # <<>> /\ frames' = Front(frames)
    BY <1>4 DEF Effect, Leave
  <2>2. /\ frames' \in Seq(FrameType) /\ Len(frames') = Len(frames) - 1
        /\ \A n \in 1 .. Len(frames) - 1 : frames'[n] = frames[n]
    BY <1>1, <2>1, FrontOf, Zenon
  <2> QED
    BY <1>1, <2>2
<1>5. CASE entry.op \notin {"JSR", "BRK", "RTS", "RTI"}
  <2>1. frames' = frames
    BY <1>5 DEF Effect
  <2> QED
    BY <1>1, <2>1
<1> QED
  BY <1>3, <1>4, <1>5

(* The end of a handler.                                                   *)
LEMMA HandlerLeft ==
  ASSUME IInv, NInv, HandlerInstalled, Instruction, PC = \h900a, Leave,
         NEW k \in 1 .. Len(frames), frames[k].kind = "nmi"
  PROVE  NInv'
<1> DEFINE N == Len(frames)
           f == frames[N]
<1>1. /\ N \in Nat /\ N \in 1 .. N /\ frames # <<>> /\ f \in FrameType
      /\ f.kind = "nmi" /\ Within(f, PC, registers, SP, ram)
  BY Innermost
<1>2. PC' = f.return /\ SP' = f.SP /\ registers' = f.saved /\ ram' = ram
  BY <1>1, HandlerReturns
<1>3. /\ frames' \in Seq(FrameType) /\ Len(frames') = N - 1
      /\ \A n \in 1 .. N - 1 : frames'[n] = frames[n]
  <2>1. frames \in Seq(FrameType) /\ frames' = Front(frames)
    BY DEF NInv, Leave
  <2>2. /\ Front(frames) \in Seq(FrameType) /\ Len(Front(frames)) = Len(frames) - 1
        /\ \A n \in 1 .. Len(frames) - 1 : Front(frames)[n] = frames[n]
    BY <1>1, <2>1, FrontOf, SMT
  <2> QED
    BY <2>1, <2>2, SMT
<1> HIDE DEF N
<1>4. ASSUME NEW n \in 1 .. Len(frames'), frames'[n].kind = "nmi"
      PROVE  Interrupted(n)'
  <2>1. n \in 1 .. N /\ n \in 1 .. N - 1 /\ n # N /\ frames'[n] = frames[n]
    BY <1>1, <1>3
  <2>2. Interrupted(n)
    BY <1>4, <2>1 DEF NInv, N
  <2>3. Resumes(n)' = Resumes(n) /\ RegsOf(n)' = RegsOf(n) /\ SPOf(n)' = SPOf(n)
    <3>1. CASE n = N - 1
      <4>1. n = Len(frames') /\ frames[n + 1] = f
        BY <1>1, <1>3, <3>1
      <4> HIDE DEF registers, f
      <4> QED
        BY <1>2, <2>1, <4>1 DEF Resumes, RegsOf, SPOf, N
    <3>2. CASE n # N - 1
      <4>1. n + 1 \in 1 .. N - 1 /\ n # Len(frames')
        BY <1>1, <1>3, <2>1, <3>2
      <4>2. frames'[n + 1] = frames[n + 1]
        BY <1>3, <4>1
      <4> QED
        BY <2>1, <4>1, <4>2 DEF Resumes, RegsOf, SPOf, N
    <3> QED
      BY <3>1, <3>2
  <2>4. Within(frames'[n], Resumes(n)', RegsOf(n)', SPOf(n)', ram')
    <3>1. Within(frames[n], Resumes(n), RegsOf(n), SPOf(n), ram)
      BY <2>2 DEF Interrupted
    <3> QED
      BY <1>2, <2>1, <2>3, <3>1
  <2>5. \A m \in n .. Len(frames') : m \in n .. N /\ frames'[m] = frames[m]
    BY <1>1, <1>3, <2>1
  <2>6. \A m \in n + 1 .. Len(frames') : m \in n + 1 .. N /\ frames'[m] = frames[m]
    BY <1>1, <1>3, <2>1
  <2>7. /\ \A m \in n .. N : frames[m].kind = "nmi"
        /\ \A m \in n + 1 .. N :
             /\ U8(frames[n].SP - frames[m].SP) >= Depth(Resumes(n))
             /\ U8(frames[n].SP - frames[m].SP) <= 5 * (m - n)
    BY <2>2 DEF Interrupted, N
  <2>8. \A m \in n .. Len(frames') : frames'[m].kind = "nmi"
    BY <2>5, <2>7
  <2>9. \A m \in n + 1 .. Len(frames') :
          /\ U8(frames'[n].SP - frames'[m].SP) >= Depth(Resumes(n)')
          /\ U8(frames'[n].SP - frames'[m].SP) <= 5 * (m - n)
    <3>1. Depth(Resumes(n)') = Depth(Resumes(n))
      BY <2>3
    <3>2. ASSUME NEW m \in n + 1 .. Len(frames')
          PROVE  /\ U8(frames'[n].SP - frames'[m].SP) >= Depth(Resumes(n)')
                 /\ U8(frames'[n].SP - frames'[m].SP) <= 5 * (m - n)
      <4>1. m \in n + 1 .. N
            /\ U8(frames'[n].SP - frames'[m].SP) = U8(frames[n].SP - frames[m].SP)
        BY <2>1, <2>6
      <4> QED
        BY <2>7, <3>1, <4>1
    <3> QED
      BY <3>2
  <2> QED
    BY <2>4, <2>8, <2>9 DEF Interrupted
<1> QED
  BY <1>3, <1>4 DEF NInv

(* What no step changes of the code it does not belong to.  First the part *)
(* that is in the frames.                                                  *)
LEMMA SuspendedFrame ==
  ASSUME NEW n \in 0 .. Len(frames), Len(frames) \in Nat, Len(frames') \in Nat,
         n < Len(frames), n < Len(frames'), frames'[n + 1] = frames[n + 1]
  PROVE  Code(n)' = Code(n)
  BY DEF Code

LEMMA SuspendedAt ==
  ASSUME NInv, NEW n \in 0 .. Len(frames), Suspended(n)
  PROVE  n + 1 \in 1 .. Len(frames) /\ frames[n + 1].kind = "nmi"
         /\ Code(n).SP = frames[n + 1].SP /\ frames[n + 1].SP \in Byte
<1>1. frames \in Seq(FrameType) /\ Len(frames) \in Nat
  BY DEF NInv
<1>2. n + 1 \in 1 .. Len(frames) /\ frames[n + 1].kind = "nmi" /\ n # Len(frames)
  BY <1>1 DEF Suspended
<1>3. frames[n + 1] \in FrameType
  BY <1>1, <1>2
<1> QED
  BY <1>2, <1>3 DEF Code, FrameType

(* Then the ram: the d bytes below s down to SP, and the m below those.    *)
LEMMA Below ==
  ASSUME NEW s \in Byte, NEW sp \in Byte, NEW n \in Nat, NEW m \in 0 .. 2,
         U8(s - sp) + m <= NmiBytes * n
  PROVE  StackAt(sp - m) \in NmiStack(n, s)
<1>1. s \in Int /\ 0 <= s /\ s <= 255 /\ sp \in Int /\ 0 <= sp /\ sp <= 255
  BY Bounds
<1> DEFINE d == U8(s - sp) + m
<1>2. U8(s - sp) = IF s >= sp THEN s - sp ELSE s - sp + 256
  BY <1>1, Wraps
<1>3. d \in Int /\ 0 <= d /\ d \in 0 .. NmiBytes * n
  BY <1>1, <1>2 DEF NmiBytes
<1>4. U8(s - d) = U8(sp - m)
  <2>1. \A x \in Int : U8(x - 256) = U8(x)
    BY DEF U8
  <2>2. s - d = sp - m \/ s - d = (sp - m) - 256
    BY <1>1, <1>2
  <2>3. sp - m \in Int
    BY <1>1
  <2> QED
    BY <2>1, <2>2, <2>3
<1> HIDE DEF d
<1> QED
  BY <1>3, <1>4 DEF NmiStack, StackAt

(* Every step keeps the chain of open interrupts, and disturbs nothing     *)
(* that is suspended.                                                      *)
LEMMA NmiInstruction ==
  ASSUME IInv, NInv, NmisFit, HandlerInstalled, Instruction, Effect(entry.op)
  PROVE  NInv' /\ TransparentStep
<1> DEFINE N == Len(frames)
           f == frames[N]
<1>1. frames \in Seq(FrameType) /\ N \in Nat
  BY DEF NInv
<1>2. CASE \A n \in 1 .. N : frames[n].kind # "nmi"
  <2>1. NInv' /\ \A n \in 1 .. Len(frames') : frames'[n].kind # "nmi"
    BY <1>2, NoneOpened
  <2>2. Len(frames') \in Nat
    BY <2>1 DEF NInv
  <2>3. ASSUME NEW n \in 0 .. N PROVE ~Suspended(n) /\ ~Suspended(n)'
    <3>1. n < N => n + 1 \in 1 .. N
      BY <1>1
    <3>2. n < Len(frames') => n + 1 \in 1 .. Len(frames')
      BY <1>1, <2>2
    <3> QED
      BY <1>2, <2>1, <3>1, <3>2 DEF Suspended
  <2> QED
    BY <2>1, <2>3 DEF TransparentStep
<1>3. CASE \E n \in 1 .. N : frames[n].kind = "nmi"
  <2>1. PICK n \in 1 .. N : frames[n].kind = "nmi"
    BY <1>3
  <2>2. /\ N \in 1 .. N /\ f \in FrameType /\ f.kind = "nmi" /\ Last(frames) = f
        /\ Within(f, PC, registers, SP, ram)
    BY <2>1, Innermost
  <2>3. PC \in HandlerPoints
    BY <2>2 DEF Within
  <2>4. CASE PC = \h900a
    <3>1. entry.op = "RTI"
      BY <2>3, <2>4, HandlerInstructions
    <3>2. Leave
      BY <3>1 DEF Effect
    <3>3. NInv'
      BY <2>1, <2>4, <3>2, HandlerLeft
    <3>4. /\ PC' = f.return /\ SP' = f.SP /\ registers' = f.saved /\ ram' = ram
          /\ P' \ {"B"} = f.P \ {"B"}
      BY <2>2, <2>4, HandlerReturns
    <3>5. /\ Len(frames') = N - 1 /\ \A m \in 1 .. N - 1 : frames'[m] = frames[m]
      BY <1>1, <2>2, <3>2, FrontOf, EmptySeq DEF Leave
    <3> HIDE DEF registers, f
    <3>6. ASSUME NEW m \in 0 .. N, Suspended(m) \/ Suspended(m)'
          PROVE  Code(m)' = Code(m)
      <4>1. m < N
        BY <1>1, <3>5, <3>6 DEF Suspended
      <4>2. CASE m = N - 1
        <5>1. m = Len(frames') /\ frames[m + 1] = f /\ m # N
          BY <1>1, <3>5, <4>2 DEF f
        <5> QED
          BY <3>4, <5>1 DEF Code
      <4>3. CASE m # N - 1
        <5>1. m < Len(frames') /\ m + 1 \in 1 .. N - 1 /\ Len(frames') \in Nat
          BY <1>1, <2>2, <3>5, <4>1, <4>3
        <5>2. frames'[m + 1] = frames[m + 1]
          BY <3>5, <5>1
        <5> QED
          BY <1>1, <4>1, <5>1, <5>2, SuspendedFrame
      <4> QED
        BY <4>2, <4>3
    <3> QED
      BY <3>3, <3>4, <3>6 DEF TransparentStep
  <2>5. CASE PC # \h900a
    <3>1. entry.op \notin {"JSR", "BRK", "RTS", "RTI"}
      BY <2>3, <2>5, HandlerInstructions DEF HandlerPoints
    <3>2. frames' = frames
      BY <3>1 DEF Effect
    <3>3. \A m \in 1 .. N : frames[m].kind = "nmi" => Interrupted(m)'
      BY <2>5, <3>2, HandlerGoesOn
    <3>4. \A a \in RamIndex : ram'[a] # ram[a] => a = StackAt(SP)
      <4>1. \/ ram' = ram
            \/ ram' = [ram EXCEPT ![StackAt(SP)] = A]
        BY <2>3, HandlerEffects DEF HandlerPoints
      <4>2. DOMAIN ram = RamIndex
        BY DEF IInv, TypeOK, Ram
      <4> QED
        BY <4>1, <4>2
    <3> HIDE DEF registers, f
    <3>5. ASSUME NEW m \in 0 .. N, Suspended(m) \/ Suspended(m)'
          PROVE  /\ Code(m)' = Code(m)
                 /\ \A a \in RamIndex :
                      ram'[a] # ram[a] => a \in NmiStack(Len(frames') - m, Code(m).SP)
      <4>1. Suspended(m) /\ m < N /\ m \in Nat
        BY <1>1, <3>2, <3>5 DEF Suspended
      <4>2. /\ m + 1 \in 1 .. N /\ frames[m + 1].kind = "nmi"
            /\ Code(m).SP = frames[m + 1].SP /\ frames[m + 1].SP \in Byte
        BY <4>1, SuspendedAt
      <4>3. Code(m)' = Code(m)
        BY <1>1, <3>2, <4>1, SuspendedFrame
      <4>4. U8(frames[m + 1].SP - SP) <= 5 * (N + 1 - (m + 1))
        BY <4>2, AboveSP
      <4>5. SP \in Byte /\ SP - 0 = SP
        BY Bounds DEF IInv, TypeOK
      <4>6. N + 1 - (m + 1) = N - m /\ N - m \in Nat
        BY <1>1, <4>1
      <4>7. U8(frames[m + 1].SP - SP) \in Int
        <5>1. frames[m + 1].SP \in Int /\ SP \in Int
          BY <4>2, <4>5, Bounds
        <5> QED
          BY <5>1 DEF U8
      <4> DEFINE s == frames[m + 1].SP
      <4>8. U8(s - SP) + 0 <= NmiBytes * (N - m)
        BY <4>4, <4>6, <4>7 DEF NmiBytes
      <4> HIDE DEF s
      <4>9. StackAt(SP - 0) \in NmiStack(N - m, s)
        BY <4>2, <4>5, <4>6, <4>8, Below DEF s
      <4>10. StackAt(SP) \in NmiStack(Len(frames') - m, Code(m).SP)
        BY <3>2, <4>2, <4>5, <4>9 DEF s
      <4> QED
        BY <3>4, <4>3, <4>10
    <3> QED
      BY <1>1, <3>2, <3>3, <3>5 DEF NInv, TransparentStep
  <2> QED
    BY <2>4, <2>5
<1> QED
  BY <1>2, <1>3

LEMMA NmiTaken ==
  ASSUME IInv, NInv, NmisFit, HandlerInstalled, ServiceNmi, Enter("nmi", PC)
  PROVE  NInv' /\ TransparentStep
<1> DEFINE N == Len(frames)
           g == Frame("nmi", PC)
<1>1. NInv'
  BY HandlerEntered
<1>2. /\ g \in FrameType /\ g.kind = "nmi" /\ g.return = PC /\ g.SP = SP /\ g.P = P
      /\ g.saved = registers /\ SP \in Byte
  BY Registers
<1>3. N \in Nat /\ frames' = Append(frames, g) /\ frames \in Seq(FrameType)
  BY DEF NInv, Enter
<1> HIDE DEF g
<1>4. /\ Len(frames') = N + 1 /\ frames'[N + 1] = g
      /\ \A m \in 1 .. N : frames'[m] = frames[m]
  BY <1>2, <1>3
<1>5. ASSUME NEW a \in RamIndex, ram'[a] # ram[a]
      PROVE  \E m \in 0 .. 2 : a = StackAt(SP - m)
  <2>1. DOMAIN ram = RamIndex /\ SP - 0 = SP
    BY <1>2, Bounds DEF IInv, TypeOK, Ram
  <2>2. ram' = Push3(Hi(PC), Lo(PC), PByte(P \cup {"B"}))
    BY DEF ServiceNmi, TakeNmi
  <2>3. a \in {StackAt(SP), StackAt(SP - 1), StackAt(SP - 2)}
    BY <1>5, <2>1, <2>2 DEF Push3, Push2
  <2> QED
    BY <2>1, <2>3
<1>6. ASSUME NEW n \in 0 .. N, Suspended(n) \/ Suspended(n)'
      PROVE  /\ Code(n)' = Code(n)
             /\ \A a \in RamIndex :
                  ram'[a] # ram[a] => a \in NmiStack(Len(frames') - n, Code(n).SP)
  <2>1. n \in Nat /\ n <= N /\ N + 1 - n \in Nat
    BY <1>3
  <2>2. Code(n)' = Code(n) /\ Code(n).SP \in Byte
        /\ U8(Code(n).SP - SP) + 2 <= NmiBytes * (N + 1 - n)
    <3>1. CASE n = N
      <4>1. Code(n) = [PC |-> PC, SP |-> SP, P |-> P \ {"B"}, registers |-> registers]
        BY <3>1, Zenon DEF Code
      <4>2. Code(n)' = [PC |-> g.return, SP |-> g.SP, P |-> g.P \ {"B"},
                        registers |-> g.saved]
        <5>1. n # Len(frames') /\ frames'[n + 1] = g
          BY <1>3, <1>4, <3>1
        <5> QED
          BY <5>1, Zenon DEF Code
      <4> HIDE DEF registers
      <4>3. Code(n)' = Code(n) /\ Code(n).SP = SP
        BY <1>2, <4>1, <4>2
      <4>4. U8(SP - SP) = 0
        BY <1>2, Bounds DEF U8
      <4>5. NmiBytes * (N + 1 - n) = 5
        BY <1>3, <3>1 DEF NmiBytes
      <4> QED
        BY <1>2, <4>3, <4>4, <4>5
    <3>2. CASE n < N
      <4>1. n + 1 \in 1 .. N /\ Len(frames') \in Nat /\ n < Len(frames')
        BY <1>3, <1>4, <2>1, <3>2
      <4>2. frames'[n + 1] = frames[n + 1]
        BY <1>4, <4>1
      <4>3. Suspended(n)
        BY <1>6, <3>2, <4>2 DEF Suspended
      <4>4. /\ frames[n + 1].kind = "nmi"
            /\ Code(n).SP = frames[n + 1].SP /\ frames[n + 1].SP \in Byte
        BY <4>3, SuspendedAt
      <4>5. U8(frames[n + 1].SP - SP) <= 5 * (N + 1 - (n + 1))
        BY <4>1, <4>4, AboveSP
      <4>6. U8(frames[n + 1].SP - SP) \in Int
        <5>1. frames[n + 1].SP \in Int /\ SP \in Int
          BY <1>2, <4>4, Bounds
        <5> QED
          BY <5>1 DEF U8
      <4> DEFINE u == U8(frames[n + 1].SP - SP)
      <4> HIDE DEF u
      <4>7. u + 2 <= NmiBytes * (N + 1 - n)
        BY <1>3, <2>1, <4>5, <4>6 DEF NmiBytes, u
      <4>8. Code(n)' = Code(n)
        BY <1>3, <3>2, <4>1, <4>2, SuspendedFrame
      <4> QED
        BY <4>4, <4>7, <4>8 DEF u
    <3> QED
      BY <1>3, <2>1, <3>1, <3>2
  <2>3. ASSUME NEW a \in RamIndex, ram'[a] # ram[a]
        PROVE  a \in NmiStack(Len(frames') - n, Code(n).SP)
    <3>1. PICK m \in 0 .. 2 : a = StackAt(SP - m)
      BY <1>5, <2>3
    <3> DEFINE s == Code(n).SP
    <3>2. s \in Byte /\ U8(s - SP) \in Int /\ U8(s - SP) + 2 <= NmiBytes * (N + 1 - n)
      <4>1. s \in Int /\ SP \in Int
        BY <1>2, <2>2, Bounds
      <4>2. U8(s - SP) \in Int
        BY <4>1 DEF U8
      <4> QED
        BY <2>2, <4>2
    <3> HIDE DEF s
    <3>3. U8(s - SP) + m <= NmiBytes * (N + 1 - n)
      BY <2>1, <3>2 DEF NmiBytes
    <3>4. StackAt(SP - m) \in NmiStack(N + 1 - n, s)
      BY <1>2, <2>1, <3>2, <3>3, Below
    <3> QED
      BY <1>4, <3>1, <3>4 DEF s
  <2> QED
    BY <2>2, <2>3
<1> QED
  BY <1>1, <1>6 DEF TransparentStep

LEMMA NmiStep ==
  ASSUME IInv, NInv, NmisFit, HandlerInstalled, [StackNext]_stackVars
  PROVE  NInv' /\ TransparentStep
<1>1. frames \in Seq(FrameType) /\ Len(frames) \in Nat
  BY DEF NInv
<1>2. CASE Instruction /\ Effect(entry.op)
  BY <1>2, NmiInstruction
<1>3. CASE ServiceNmi /\ Enter("nmi", PC)
  BY <1>3, NmiTaken
<1>4. CASE UNCHANGED <<PC, SP, A, X, Y, P, ram, frames>>
  <2>1. frames' = frames /\ PC' = PC /\ SP' = SP /\ registers' = registers /\ ram' = ram
    BY <1>4 DEF registers
  <2>2. ASSUME NEW n \in 1 .. Len(frames), frames[n].kind = "nmi"
        PROVE  Interrupted(n)'
    <3>1. Interrupted(n)
      BY <2>2 DEF NInv
    <3>2. Resumes(n)' = Resumes(n) /\ RegsOf(n)' = RegsOf(n) /\ SPOf(n)' = SPOf(n)
      BY <2>1 DEF Resumes, RegsOf, SPOf
    <3>3. /\ \A m \in n .. Len(frames) : frames[m].kind = "nmi"
          /\ Within(frames[n], Resumes(n), RegsOf(n), SPOf(n), ram)
          /\ \A m \in n + 1 .. Len(frames) :
               /\ U8(frames[n].SP - frames[m].SP) >= Depth(Resumes(n))
               /\ U8(frames[n].SP - frames[m].SP) <= 5 * (m - n)
      BY <3>1 DEF Interrupted
    <3>4. Within(frames'[n], Resumes(n)', RegsOf(n)', SPOf(n)', ram')
      BY <2>1, <3>2, <3>3
    <3>5. /\ \A m \in n .. Len(frames') : frames'[m].kind = "nmi"
          /\ \A m \in n + 1 .. Len(frames') :
               /\ U8(frames'[n].SP - frames'[m].SP) >= Depth(Resumes(n)')
               /\ U8(frames'[n].SP - frames'[m].SP) <= 5 * (m - n)
      BY <2>1, <3>2, <3>3
    <3> QED
      BY <3>4, <3>5 DEF Interrupted
  <2>3. NInv'
    BY <1>1, <2>1, <2>2 DEF NInv
  <2>4. ASSUME NEW n \in 0 .. Len(frames) PROVE Code(n)' = Code(n)
    BY <1>4 DEF Code, registers
  <2> QED
    BY <2>1, <2>3, <2>4 DEF TransparentStep
<1>5. CASE UNCHANGED stackVars
  BY <1>4, <1>5 DEF stackVars, vars
<1>6. CASE PpuRaises /\ UNCHANGED frames
  BY <1>4, <1>6 DEF PpuRaises, registers
<1>7. CASE (NoInterrupt \/ Panic \/ PpuDone \/ Exited) /\ UNCHANGED frames
  BY <1>4, <1>7 DEF NoInterrupt, Panic, PpuDone, Exited, registers, vars
<1> QED
  BY <1>2, <1>3, <1>5, <1>6, <1>7 DEF StackNext

(* cpu_interrupt and the handler it enters: whatever the program is, and   *)
(* wherever the interrupts fall in it or in one another, the code that is  *)
(* interrupted goes on after the RTI with the PC, SP, status, A, X and Y   *)
(* of before, and finds in the ram what it left there, but for the bytes   *)
(* just below its SP.                                                      *)
THEOREM NmisUnnoticed ==
  ASSUME HandlerInstalled
  PROVE  StackSpec /\ []NmisFit => NmiTransparent
<1>1. StackInit => NInv
  BY DEF StackInit, NInv
<1>2. /\ IInv /\ NInv /\ NmisFit /\ [StackNext]_stackVars => NInv'
      /\ IInv /\ NInv /\ NmisFit /\ [StackNext]_stackVars => [TransparentStep]_stackVars
  BY NmiStep
<1> QED
  BY <1>1, <1>2, StackIsCpu, Invariant, PTL DEF StackSpec, NmiTransparent

(* The interrupts that are open, with one that is pending, are among those *)
(* raised and the one that the PPU, not yet initialised, may begin with.   *)
NmisCounted ==
  /\ nmis \in Nat /\ nmis <= MaxNmis
  /\ \A n \in 1 .. Len(frames) :
       frames[n].kind = "nmi" =>
         Len(frames) - n + 1 + (IF is_nmi THEN 1 ELSE 0) <= nmis + 1

LEMMA NmisCountedStep ==
  ASSUME NInv, NInv', NmisCounted, [StackNext]_stackVars
  PROVE  NmisCounted'
<1>1. frames \in Seq(FrameType) /\ Len(frames) \in Nat /\ nmis \in Nat /\ MaxNmis \in Nat
  BY MaxNmisAssumption DEF NInv, NmisCounted
<1>2. CASE UNCHANGED <<frames, nmis, is_nmi>>
  BY <1>2 DEF NmisCounted
<1>3. CASE Instruction /\ Effect(entry.op)
  <2>1. is_nmi' = is_nmi
    BY <1>3 DEF Instruction
  <2>2. \/ UNCHANGED <<frames, nmis>>
        \/ Leave
        \/ \E kind \in {"call", "break"} : \E return : Enter(kind, return)
    BY <1>3 DEF Effect
  <2>3. CASE UNCHANGED <<frames, nmis>>
    BY <1>2, <2>1, <2>3
  <2>4. CASE Leave
    <3>1. /\ nmis' = nmis /\ Len(frames') = Len(frames) - 1
          /\ \A n \in 1 .. Len(frames) - 1 : frames'[n] = frames[n]
      BY <1>1, <2>4, FrontOf DEF Leave
    <3>2. ASSUME NEW n \in 1 .. Len(frames'), frames'[n].kind = "nmi"
          PROVE  Len(frames') - n + 1 + (IF is_nmi THEN 1 ELSE 0) <= nmis + 1
      <4>1. n \in 1 .. Len(frames) /\ frames[n].kind = "nmi" /\ n \in Int
        BY <1>1, <3>1, <3>2
      <4>2. Len(frames) - n + 1 + (IF is_nmi THEN 1 ELSE 0) <= nmis + 1
        BY <4>1 DEF NmisCounted
      <4> QED
        BY <1>1, <3>1, <4>1, <4>2
    <3> QED
      BY <1>1, <2>1, <3>1, <3>2 DEF NmisCounted
  <2>5. ASSUME NEW kind \in {"call", "break"}, NEW return, Enter(kind, return)
        PROVE  NmisCounted'
    <3> DEFINE g == Frame(kind, return)
    <3>1. g.kind = kind
      BY DEF Frame
    <3>2. nmis' = nmis /\ frames' = Append(frames, g)
      BY <2>5 DEF Enter
    <3> HIDE DEF g
    <3>3. Len(frames') = Len(frames) + 1 /\ frames'[Len(frames) + 1] = g
      BY <1>1, <3>2
    <3>4. ASSUME NEW n \in 1 .. Len(frames') PROVE frames'[n].kind # "nmi"
      <4>1. frames'[n].kind = "nmi" => \A m \in n .. Len(frames') : frames'[m].kind = "nmi"
        BY DEF NInv, Interrupted
      <4> QED
        BY <1>1, <3>1, <3>3, <4>1
    <3> QED
      BY <2>1, <3>2, <3>4 DEF NmisCounted
  <2> QED
    BY <2>2, <2>3, <2>4, <2>5
<1>4. CASE ServiceNmi /\ Enter("nmi", PC)
  <2>1. is_nmi /\ ~is_nmi' /\ nmis' = nmis
    BY <1>4 DEF ServiceNmi, TakeNmi, Enter
  <2> DEFINE g == Frame("nmi", PC)
  <2>2. frames' = Append(frames, g)
    BY <1>4 DEF Enter
  <2> HIDE DEF g
  <2>3. /\ Len(frames') = Len(frames) + 1
        /\ \A n \in 1 .. Len(frames) : frames'[n] = frames[n]
    BY <1>1, <2>2
  <2>4. ASSUME NEW n \in 1 .. Len(frames'), frames'[n].kind = "nmi"
        PROVE  Len(frames') - n + 1 <= nmis + 1
    <3>1. CASE n = Len(frames) + 1
      BY <1>1, <2>1, <2>3, <3>1 DEF NmisCounted
    <3>2. CASE n # Len(frames) + 1
      BY <1>1, <2>1, <2>3, <2>4, <3>2 DEF NmisCounted
    <3> QED
      BY <3>1, <3>2
  <2> QED
    BY <1>1, <2>1, <2>4 DEF NmisCounted
<1>5. CASE PpuRaises /\ ~is_nmi /\ nmis < MaxNmis /\ nmis' = nmis + 1 /\ UNCHANGED frames
  <2>1. is_nmi'
    BY <1>5 DEF PpuRaises
  <2> QED
    BY <1>1, <1>5, <2>1 DEF NmisCounted
<1>6. CASE (NoInterrupt \/ Panic \/ PpuDone \/ Exited) /\ UNCHANGED <<frames, nmis>>
  <2>1. is_nmi' = is_nmi
    BY <1>6 DEF NoInterrupt, Panic, PpuDone, Exited, ppuFlags, vars
  <2> QED
    BY <1>2, <1>6, <2>1
<1>7. CASE UNCHANGED stackVars
  <2>1. UNCHANGED <<frames, nmis, is_nmi>>
    BY <1>7 DEF stackVars, vars
  <2> QED
    BY <1>2, <2>1
<1> QED
  BY <1>3, <1>4, <1>5, <1>6, <1>7 DEF StackNext

LEMMA CountedFit ==
  ASSUME NInv, NmisCounted, MaxNmis < 50
  PROVE  NmisFit
<1>1. Len(frames) \in Nat /\ nmis \in Nat /\ MaxNmis \in Nat
  BY MaxNmisAssumption DEF NInv, NmisCounted
<1> QED
  BY <1>1 DEF NmisCounted, NmisFit

(* In particular, where the PPU raises no more interrupts than the stack   *)
(* holds.                                                                  *)
THEOREM FewNmisUnnoticed ==
  ASSUME HandlerInstalled, MaxNmis < 50
  PROVE  StackSpec => NmiTransparent
<1>1. StackInit => NInv /\ NmisCounted
  BY MaxNmisAssumption DEF StackInit, NInv, NmisCounted, Init
<1>2. NInv /\ NmisCounted => NmisFit
  BY CountedFit
<1>3. IInv /\ NInv /\ NmisFit /\ [StackNext]_stackVars => NInv'
  BY NmiStep
<1>4. NInv /\ NInv' /\ NmisCounted /\ [StackNext]_stackVars => NmisCounted'
  BY NmisCountedStep
<1>5. StackSpec => []NmisFit
  BY <1>1, <1>2, <1>3, <1>4, StackIsCpu, Invariant, PTL DEF StackSpec
<1> QED
  BY <1>5, NmisUnnoticed, PTL

-----------------------------------------------------------------------------
(* The programs of MCCallStack, as they are read from PRG memory.           *)
ProgramsInstalled == Games \subseteq MCGames /\ HasPrograms(PrgRom)

(* What cpu_get_u8 and cpu_get_u16 read where a segment is.                *)
InPrg(b, bytes) ==
  b \in Int /\ b >= \h8000 /\ Len(bytes) \in Nat /\ b + Len(bytes) <= 65536

ReadAt(b, bytes) ==
  /\ \A a \in Int : b <= a /\ a < b + Len(bytes) => Get8(a) = bytes[a - b + 1]
  /\ \A a \in Int :
       b <= a /\ a + 1 < b + Len(bytes) =>
         Get16(a) = u8_to_u16(bytes[a - b + 1], bytes[a - b + 2])

LEMMA RomRead ==
  ASSUME NEW a \in Int, a >= \h8000
  PROVE  Get8(a) = rom[a - \h8000]
<1>1. /\ ~(a < \h2000) /\ a # PPU_STATUS /\ ~(a >= \h6000 /\ a < \h8000)
      /\ a >= \h8000
  BY SMT DEF PPU_STATUS
<1> QED
  BY <1>1, SMT DEF Get8, cpu_get_u8

LEMMA RomRead16 ==
  ASSUME NEW a \in Int, a >= \h8000, a # \hffff
  PROVE  Get16(a) = u8_to_u16(rom[a - \h8000], rom[a + 1 - \h8000])
<1>1. ~(a < \h2000) /\ ~(a >= \h6000 /\ a < \h8000) /\ a >= \h8000 /\ a # \hffff
      /\ a - \h7fff = a + 1 - \h8000
  BY SMT
<1> QED
  BY <1>1, SMT DEF Get16, cpu_get_u16

LEMMA SegmentCode ==
  ASSUME NEW segments, NEW b, NEW bytes, Segment(b, bytes) \in segments,
         Holds(rom, segments), InPrg(b, bytes)
  PROVE  ReadAt(b, bytes)
<1> DEFINE n == Len(bytes)
<1>1. \A i \in 1 .. n : rom[b - 32768 + i - 1] = bytes[i]
  <2>1. Found(Segment(b, bytes), rom)
    BY DEF Holds
  <2> QED
    BY <2>1, SMT DEF Found, Segment
<1>2. n \in Int /\ b + n <= 65536 /\ b \in Int /\ b >= 32768
  BY DEF InPrg
<1> HIDE DEF n
<1>3. ASSUME NEW a \in Int, b <= a, a < b + n
      PROVE  a >= 32768 /\ rom[a - 32768] = bytes[a - b + 1]
  <2>1. a - b + 1 \in 1 .. n /\ b - 32768 + (a - b + 1) - 1 = a - 32768 /\ a >= 32768
    BY <1>2, <1>3, SMT
  <2> QED
    BY <1>1, <2>1, SMT
<1>4. ASSUME NEW a \in Int, b <= a, a < b + n
      PROVE  Get8(a) = bytes[a - b + 1]
  BY <1>3, <1>4, RomRead
<1>5. ASSUME NEW a \in Int, b <= a, a + 1 < b + n
      PROVE  Get16(a) = u8_to_u16(bytes[a - b + 1], bytes[a - b + 2])
  <2>1. /\ a + 1 \in Int /\ a < b + n /\ b <= a + 1 /\ a # 65535
        /\ a + 1 - b + 1 = a - b + 2
    BY <1>2, <1>5, SMT
  <2>2. rom[a - 32768] = bytes[a - b + 1] /\ a >= 32768
    BY <1>3, <1>5, <2>1
  <2>3. rom[a + 1 - 32768] = bytes[a + 1 - b + 1]
    <3> DEFINE c == a + 1
    <3>1. c \in Int /\ b <= c /\ c < b + n
      BY <1>5, <2>1
    <3> HIDE DEF c
    <3>2. rom[c - 32768] = bytes[c - b + 1]
      BY <1>3, <3>1
    <3> QED
      BY <1>2, <1>5, <3>2, SMT DEF c
  <2>4. Get16(a) = u8_to_u16(rom[a - 32768], rom[a + 1 - 32768])
    BY <2>1, <2>2, RomRead16
  <2> QED
    BY <2>1, <2>2, <2>3, <2>4
<1> QED
  BY <1>4, <1>5 DEF n, ReadAt

LEMMA Vectored ==
  ASSUME NEW segments, Vectors(\h9000, \h8000, \ha000) \in segments, Holds(rom, segments)
  PROVE  Get16(RESET_VECTOR) = \h8000 /\ Get16(IRQ_VECTOR) = \ha000
         /\ rom[\h7ffa] = \h00 /\ rom[\h7ffb] = \h90
<1> DEFINE bytes == <<0, \h90, 0, \h80, 0, \ha0>>
           b == \hfffa
<1>1. Vectors(\h9000, \h8000, \ha000) = Segment(b, bytes)
  BY SMT DEF Vectors
<1>2. InPrg(b, bytes)
  BY SMT DEF InPrg
<1>3. ReadAt(b, bytes)
  <2> HIDE DEF b, bytes
  <2>1. Segment(b, bytes) \in segments
    BY <1>1, SMT
  <2> QED
    BY <1>2, <2>1, SegmentCode, SMT
<1>4. Get16(\hfffc) = u8_to_u16(0, \h80) /\ Get16(\hfffe) = u8_to_u16(0, \ha0)
      /\ Get8(\hfffa) = 0 /\ Get8(\hfffb) = \h90
  BY <1>3, SMT DEF ReadAt
<1>5. Get8(\hfffa) = rom[\h7ffa] /\ Get8(\hfffb) = rom[\h7ffb]
  <2>1. \hfffa - \h8000 = \h7ffa /\ \hfffb - \h8000 = \h7ffb
        /\ \hfffa \in Int /\ \hfffb \in Int /\ \hfffa >= \h8000 /\ \hfffb >= \h8000
    BY SMT
  <2> QED
    BY <2>1, RomRead, SMT
<1> QED
  BY <1>4, <1>5, SMT DEF RESET_VECTOR, IRQ_VECTOR, u8_to_u16, U16

(* The code of the first program.                                          *)
LEMMA SumCode ==
  ASSUME Holds(rom, SumProgram)
  PROVE  /\ Get8(\h8000) = \ha2 /\ Get8(\h8001) = \hff /\ Get8(\h8002) = \h9a
         /\ Get8(\h8003) = \ha9 /\ Get8(\h8004) = \hc8
         /\ Get8(\h8005) = \h20 /\ Get16(\h8006) = \h8042
         /\ Get8(\h8008) = \h00
         /\ Get8(\h800a) = \h4c /\ Get16(\h800b) = \h800a
         /\ Get8(\h8042) = \h08 /\ Get8(\h8043) = \h48 /\ Get8(\h8044) = \h18
         /\ Get8(\h8045) = \h69 /\ Get8(\h8046) = \h64
         /\ Get8(\h8047) = \h85 /\ Get8(\h8048) = \h12
         /\ Get8(\h8049) = \ha9 /\ Get8(\h804a) = 1
         /\ Get8(\h804b) = \h69 /\ Get8(\h804c) = 2
         /\ Get8(\h804d) = \h85 /\ Get8(\h804e) = \h13
         /\ Get8(\h804f) = \h20 /\ Get16(\h8050) = \h8062
         /\ Get8(\h8052) = \h68 /\ Get8(\h8053) = \h28 /\ Get8(\h8054) = \h60
         /\ Get8(\h8062) = \h06 /\ Get8(\h8063) = \h12
         /\ Get8(\h8064) = \h26 /\ Get8(\h8065) = \h13 /\ Get8(\h8066) = \h60
<1> DEFINE main  == <<\ha2, \hff, \h9a, \ha9, \hc8, \h20, \h42, \h80, \h00, \hea,
                      \h4c, \h0a, \h80>>
           outer == <<\h08, \h48, \h18, \h69, \h64, \h85, \h12, \ha9, \h01, \h69,
                      \h02, \h85, \h13, \h20, \h62, \h80, \h68, \h28, \h60>>
           inner == <<\h06, \h12, \h26, \h13, \h60>>
<1>1. /\ Segment(\h8000, main) \in SumProgram /\ Segment(\h8042, outer) \in SumProgram
      /\ Segment(\h8062, inner) \in SumProgram
  BY SMT DEF SumProgram
<1>2. InPrg(\h8000, main) /\ InPrg(\h8042, outer) /\ InPrg(\h8062, inner)
  BY SMT DEF InPrg
<1>3. ReadAt(\h8000, main) /\ ReadAt(\h8042, outer) /\ ReadAt(\h8062, inner)
  <2> HIDE DEF main, outer, inner
  <2> QED
    BY <1>1, <1>2, SegmentCode, SMT
<1>4. /\ Get8(\h8000) = \ha2 /\ Get8(\h8001) = \hff /\ Get8(\h8002) = \h9a
      /\ Get8(\h8003) = \ha9 /\ Get8(\h8004) = \hc8
      /\ Get8(\h8005) = \h20 /\ Get16(\h8006) = u8_to_u16(\h42, \h80)
      /\ Get8(\h8008) = \h00
      /\ Get8(\h800a) = \h4c /\ Get16(\h800b) = u8_to_u16(\h0a, \h80)
  BY <1>3, SMT DEF ReadAt
<1>5. /\ Get8(\h8042) = \h08 /\ Get8(\h8043) = \h48 /\ Get8(\h8044) = \h18
      /\ Get8(\h8045) = \h69 /\ Get8(\h8046) = \h64
      /\ Get8(\h8047) = \h85 /\ Get8(\h8048) = \h12
      /\ Get8(\h8049) = \ha9 /\ Get8(\h804a) = 1
      /\ Get8(\h804b) = \h69 /\ Get8(\h804c) = 2
      /\ Get8(\h804d) = \h85 /\ Get8(\h804e) = \h13
      /\ Get8(\h804f) = \h20 /\ Get16(\h8050) = u8_to_u16(\h62, \h80)
      /\ Get8(\h8052) = \h68 /\ Get8(\h8053) = \h28 /\ Get8(\h8054) = \h60
  BY <1>3, SMT DEF ReadAt
<1>6. /\ Get8(\h8062) = \h06 /\ Get8(\h8063) = \h12
      /\ Get8(\h8064) = \h26 /\ Get8(\h8065) = \h13 /\ Get8(\h8066) = \h60
  BY <1>3, SMT DEF ReadAt
<1>7. /\ u8_to_u16(\h42, \h80) = \h8042 /\ u8_to_u16(\h0a, \h80) = \h800a
      /\ u8_to_u16(\h62, \h80) = \h8062
  BY SMT DEF u8_to_u16, U16
<1> HIDE DEF main, outer, inner
<1> QED
  BY <1>4, <1>5, <1>6, <1>7, SMT

-----------------------------------------------------------------------------
(* The instructions of the programs, anywhere in PRG memory.               *)
PrgCode == \h8000 .. \hbfff

LEMMA Fetched ==
  ASSUME IInv, Instruction, PC \in PrgCode
  PROVE  /\ entry \in AllRows /\ entry.code = Get8(PC) /\ entry.op = OPCODES[Get8(PC) + 1]
         /\ Decoded.op = entry.op /\ Decoded.mode = entry.mode /\ Handler(Decoded)
         /\ Here = PC + 1 /\ PC \in Int
         /\ Decoded.addr = Address(entry.mode)
         /\ entry.mode # "ACCUMULATOR" => Decoded.operand = Get8(Address(entry.mode))
<1>1. PC # PPU_STATUS /\ PC \in Int /\ Here = PC + 1
  <2>1. PC \in Int /\ \h8000 <= PC /\ PC <= \hbfff
    BY SMT DEF PrgCode
  <2>2. PC # PPU_STATUS
    BY <2>1, SMT DEF PPU_STATUS
  <2>3. U16(PC + 1) = PC + 1
    BY <2>1, SMT DEF U16
  <2> QED
    BY <2>1, <2>2, <2>3 DEF Here
<1>2. Opcode \in Handled /\ Handler(Decoded)
  BY DEF Instruction
<1>3. Opcode = Get8(PC)
  BY <1>1, Zenon DEF Opcode
<1>4. /\ entry \in AllRows /\ entry.code = Get8(PC) /\ entry.op = OPCODES[Get8(PC) + 1]
  BY <1>2, <1>3, EntryRow
<1>5. /\ Decoded.op = entry.op /\ Decoded.mode = entry.mode
      /\ Decoded.addr = Address(entry.mode)
      /\ entry.mode # "ACCUMULATOR" => Decoded.operand = Get8(Address(entry.mode))
  BY DEF Decoded
<1> QED
  BY <1>1, <1>2, <1>4, <1>5

LEMMA Opcodes ==
  /\ OPCODES[\ha2 + 1] = "LDX" /\ OPCODES[\ha9 + 1] = "LDA" /\ OPCODES[\h9a + 1] = "TXS"
  /\ OPCODES[\h48 + 1] = "PHA" /\ OPCODES[\h68 + 1] = "PLA"
  /\ OPCODES[\h08 + 1] = "PHP" /\ OPCODES[\h28 + 1] = "PLP"
  /\ OPCODES[\h18 + 1] = "CLC" /\ OPCODES[\h69 + 1] = "ADC" /\ OPCODES[\h85 + 1] = "STA"
  /\ OPCODES[\h06 + 1] = "ASL" /\ OPCODES[\h26 + 1] = "ROL" /\ OPCODES[\he6 + 1] = "INC"
  /\ OPCODES[\h20 + 1] = "JSR" /\ OPCODES[\h60 + 1] = "RTS" /\ OPCODES[\h4c + 1] = "JMP"
  /\ OPCODES[\h00 + 1] = "BRK" /\ OPCODES[\h40 + 1] = "RTI"
  BY DEF OPCODES

(* What the addressing modes do to the PC and where they lead.             *)
LEMMA Operands ==
  ASSUME IInv, Instruction, PC \in PrgCode
  PROVE  /\ entry.mode = "IMMEDIATE" => Decoded.operand = Get8(PC + 1)
         /\ entry.mode = "ZERO_PAGE" =>
              Decoded.addr = Get8(PC + 1) /\ Decoded.operand = Get8(Get8(PC + 1))
         /\ entry.mode = "ABSOLUTE" => Decoded.addr = Get16(PC + 1)
         /\ entry.mode \in {"IMMEDIATE", "ZERO_PAGE"} => 
              (GetAddr(Decoded) => PC' = PC + 2)
<1>1. /\ Decoded.mode = entry.mode /\ Here = PC + 1 /\ PC \in Int
      /\ Decoded.addr = Address(entry.mode)
      /\ entry.mode # "ACCUMULATOR" => Decoded.operand = Get8(Address(entry.mode))
  BY Fetched
<1>2. /\ entry.mode = "IMMEDIATE" => Address(entry.mode) = Here
      /\ entry.mode = "ZERO_PAGE" => Address(entry.mode) = Get8(Here)
      /\ entry.mode = "ABSOLUTE" => Address(entry.mode) = Get16(Here)
  BY DEF Address, Zp, Abs
<1>3. OperandBytes["IMMEDIATE"] = 1 /\ OperandBytes["ZERO_PAGE"] = 1
  BY DEF OperandBytes, AddrMode
<1>4. U16(PC + 1 + 1) = PC + 2
  BY SMT DEF PrgCode, U16
<1>5. ASSUME entry.mode \in {"IMMEDIATE", "ZERO_PAGE"}, GetAddr(Decoded)
      PROVE  PC' = PC + 2
  BY <1>1, <1>3, <1>4, <1>5 DEF GetAddr
<1> QED
  BY <1>1, <1>2, <1>5

LEMMA LoadEffects ==
  ASSUME IInv, Instruction, Effect(entry.op), PC \in PrgCode
  PROVE  /\ Get8(PC) = \ha2 =>
              PC' = PC + 2 /\ X' = Get8(PC + 1) /\ UNCHANGED <<A, SP, ram, frames>>
         /\ Get8(PC) = \ha9 =>
              /\ PC' = PC + 2 /\ A' = Get8(PC + 1) /\ UNCHANGED <<SP, ram, frames>>
              /\ "C" \in P' <=> "C" \in P
         /\ Get8(PC) = \h9a =>
              PC' = PC + 1 /\ SP' = X /\ UNCHANGED <<A, ram, frames>>
<1>1. ASSUME Get8(PC) = \ha2
      PROVE  PC' = PC + 2 /\ X' = Get8(PC + 1) /\ UNCHANGED <<A, SP, ram, frames>>
  <2>1. entry.op = "LDX" /\ entry.mode = "IMMEDIATE" /\ LDX(Decoded)
    BY <1>1, Fetched, Opcodes, HandlerModes, HandlerOf
  <2>2. GetAddr(Decoded) /\ SetX(Decoded.operand, SetZN(P, Decoded.operand))
    BY <2>1, Zenon DEF LDX, Charged
  <2> QED
    BY <2>1, <2>2, Operands DEF SetX, Effect
<1>2. ASSUME Get8(PC) = \ha9
      PROVE  /\ PC' = PC + 2 /\ A' = Get8(PC + 1) /\ UNCHANGED <<SP, ram, frames>>
             /\ "C" \in P' <=> "C" \in P
  <2>1. entry.op = "LDA" /\ entry.mode = "IMMEDIATE" /\ LDA(Decoded)
    BY <1>2, Fetched, Opcodes, HandlerModes, HandlerOf
  <2>2. GetAddr(Decoded) /\ SetA(Decoded.operand, SetZN(P, Decoded.operand))
    BY <2>1, Zenon DEF LDA, Charged
  <2>3. "C" \in SetZN(P, Decoded.operand) <=> "C" \in P
    BY DEF SetZN, SetIf
  <2> QED
    BY <2>1, <2>2, <2>3, Operands DEF SetA, Effect
<1>3. ASSUME Get8(PC) = \h9a
      PROVE  PC' = PC + 1 /\ SP' = X /\ UNCHANGED <<A, ram, frames>>
  <2>1. entry.op = "TXS" /\ TXS(Decoded) /\ Here = PC + 1
    BY <1>3, Fetched, Opcodes, HandlerOf
  <2> QED
    BY <2>1 DEF TXS, NoAddress, registers, Effect
<1> QED
  BY <1>1, <1>2, <1>3

(* A byte v that is stored at a in the ram.                                *)
Stored(a, v) == ram' = [ram EXCEPT ![a] = v]

LEMMA StackEffects ==
  ASSUME IInv, Instruction, Effect(entry.op), PC \in PrgCode
  PROVE  /\ Get8(PC) \in {\h08, \h48} =>
              /\ PC' = PC + 1 /\ SP' = U8(SP - 1) /\ UNCHANGED <<A, frames>>
              /\ \E v : Stored(StackAt(SP), v)
         /\ Get8(PC) = \h48 => Stored(StackAt(SP), A)
         /\ Get8(PC) = \h68 =>
              /\ PC' = PC + 1 /\ SP' = U8(SP + 1) /\ A' = ram[StackAt(SP + 1)]
              /\ UNCHANGED <<ram, frames>>
         /\ Get8(PC) = \h28 =>
              PC' = PC + 1 /\ SP' = U8(SP + 1) /\ UNCHANGED <<A, ram, frames>>
<1>1. ASSUME Get8(PC) = \h48
      PROVE  /\ PC' = PC + 1 /\ SP' = U8(SP - 1) /\ UNCHANGED <<A, frames>>
             /\ Stored(StackAt(SP), A)
  <2>1. entry.op = "PHA" /\ PHA(Decoded) /\ Here = PC + 1
    BY <1>1, Fetched, Opcodes, HandlerOf
  <2> QED
    BY <2>1 DEF PHA, PushRegister, NoAddress, registers, Effect, Stored
<1>2. ASSUME Get8(PC) = \h08
      PROVE  /\ PC' = PC + 1 /\ SP' = U8(SP - 1) /\ UNCHANGED <<A, frames>>
             /\ Stored(StackAt(SP), PByte(P \cup {"B"}))
  <2>1. entry.op = "PHP" /\ PHP(Decoded) /\ Here = PC + 1
    BY <1>2, Fetched, Opcodes, HandlerOf
  <2> QED
    BY <2>1 DEF PHP, PushRegister, NoAddress, registers, Effect, Stored
<1>3. ASSUME Get8(PC) = \h68
      PROVE  /\ PC' = PC + 1 /\ SP' = U8(SP + 1) /\ A' = ram[StackAt(SP + 1)]
             /\ UNCHANGED <<ram, frames>>
  <2>1. entry.op = "PLA" /\ PLA(Decoded) /\ Here = PC + 1
    BY <1>3, Fetched, Opcodes, HandlerOf
  <2> QED
    BY <2>1 DEF PLA, NoAddress, Pop8, Effect
<1>4. ASSUME Get8(PC) = \h28
      PROVE  PC' = PC + 1 /\ SP' = U8(SP + 1) /\ UNCHANGED <<A, ram, frames>>
  <2>1. entry.op = "PLP" /\ PLP(Decoded) /\ Here = PC + 1
    BY <1>4, Fetched, Opcodes, HandlerOf
  <2> QED
    BY <2>1 DEF PLP, NoAddress, registers, Effect
<1> QED
  BY <1>1, <1>2, <1>3, <1>4

(* An operand in the zero page is the ram there.                           *)
LEMMA ZeroPage ==
  ASSUME IInv, Instruction, PC \in PrgCode, entry.mode = "ZERO_PAGE",
         NEW z \in Byte, Get8(PC + 1) = z
  PROVE  /\ Decoded.addr = z /\ Decoded.operand = ram[z]
         /\ \A v : Store(Decoded, v) => ram' = [ram EXCEPT ![z] = v]
<1>1. Decoded.addr = z /\ Decoded.operand = Get8(z)
  BY Operands
<1>2. /\ z < \h2000 /\ z % RamSize = z /\ z # PPU_STATUS
      /\ ~(z >= \h6000 /\ z < \h8000) /\ ~(z >= \h8000)
  BY Bounds, SMT DEF RamSize, PPU_STATUS
<1>3. Get8(z) = ram[z]
  BY <1>2, SMT DEF Get8, cpu_get_u8
<1>4. ASSUME NEW v PROVE cpu_set_u8(ram, z, v) = [ram EXCEPT ![z] = v]
  <2>1. cpu_set_u8(ram, z, v) = [ram EXCEPT ![z % RamSize] = v]
    BY <1>2, SMT DEF cpu_set_u8
  <2>2. z % RamSize = z
    BY <1>2
  <2> QED
    BY <2>1, <2>2, Zenon
<1> QED
  BY <1>1, <1>3, <1>4 DEF Store

LEMMA ArithmeticEffects ==
  ASSUME IInv, Instruction, Effect(entry.op), PC \in PrgCode,
         NEW b \in Byte, Get8(PC + 1) = b
  PROVE  /\ Get8(PC) = \h18 =>
              PC' = PC + 1 /\ "C" \notin P' /\ UNCHANGED <<A, SP, ram, frames>>
         /\ Get8(PC) = \h69 =>
              /\ PC' = PC + 2 /\ A' = U8(U8(A + b) + Carry(P))
              /\ "C" \in P' <=> A' <= A /\ b > 0
              /\ UNCHANGED <<SP, ram, frames>>
         /\ Get8(PC) = \h85 =>
              /\ PC' = PC + 2 /\ Stored(b, A)
              /\ UNCHANGED <<A, P, SP, frames>>
         /\ Get8(PC) = \h06 =>
              /\ PC' = PC + 2 /\ Stored(b, U8(2 * ram[b]))
              /\ "C" \in P' <=> ram[b] >= 128
              /\ UNCHANGED <<A, SP, frames>>
         /\ Get8(PC) = \h26 =>
              /\ PC' = PC + 2 /\ Stored(b, U8(2 * ram[b]) + Carry(P))
              /\ UNCHANGED <<A, SP, frames>>
         /\ Get8(PC) = \he6 =>
              /\ PC' = PC + 2 /\ Stored(b, U8(ram[b] + 1))
              /\ UNCHANGED <<A, SP, frames>>
<1>1. ASSUME Get8(PC) = \h18
      PROVE  PC' = PC + 1 /\ "C" \notin P' /\ UNCHANGED <<A, SP, ram, frames>>
  <2>1. entry.op = "CLC" /\ CLC(Decoded) /\ Here = PC + 1
    BY <1>1, Fetched, Opcodes, HandlerOf
  <2> QED
    BY <2>1 DEF CLC, NoAddress, SetP, registers, Effect
<1>2. ASSUME Get8(PC) = \h69
      PROVE  /\ PC' = PC + 2 /\ A' = U8(U8(A + b) + Carry(P))
             /\ "C" \in P' <=> A' <= A /\ b > 0
             /\ UNCHANGED <<SP, ram, frames>>
  <2>1. entry.op = "ADC" /\ entry.mode = "IMMEDIATE" /\ ADC(Decoded)
    BY <1>2, Fetched, Opcodes, HandlerModes, HandlerOf
  <2>2. GetAddr(Decoded) /\ Decoded.operand = b /\ PC' = PC + 2
    BY <2>1, Operands DEF ADC, Uncharged
  <2>3. SetA(add(P, A, b).val, add(P, A, b).P)
    BY <2>1, <2>2, Zenon DEF ADC
  <2>4. A' = U8(U8(A + b) + Carry(P))
    BY <2>3 DEF SetA, add
  <2>5. "C" \in P' <=> A' <= A /\ b > 0
    BY <2>3 DEF SetA, add, SetZN, SetIf
  <2> QED
    BY <2>1, <2>2, <2>3, <2>4, <2>5 DEF SetA, Effect
<1>3. ASSUME Get8(PC) = \h85
      PROVE  /\ PC' = PC + 2 /\ Stored(b, A)
             /\ UNCHANGED <<A, P, SP, frames>>
  <2>1. entry.op = "STA" /\ entry.mode = "ZERO_PAGE" /\ STA(Decoded)
    BY <1>3, Fetched, Opcodes, HandlerModes, HandlerOf
  <2>2. /\ GetAddr(Decoded) /\ Store(Decoded, A)
        /\ UNCHANGED <<SP, P, registers>>
    BY <2>1, Zenon DEF STA, StoreRegister, Uncharged
  <2> QED
    BY <2>1, <2>2, Operands, ZeroPage DEF registers, Effect, Stored
<1>4. ASSUME Get8(PC) = \h06
      PROVE  /\ PC' = PC + 2 /\ Stored(b, U8(2 * ram[b]))
             /\ "C" \in P' <=> ram[b] >= 128
             /\ UNCHANGED <<A, SP, frames>>
  <2>1. /\ entry.op = "ASL" /\ entry.mode = "ZERO_PAGE" /\ ASL(Decoded)
        /\ Decoded.mode = entry.mode
    BY <1>4, Fetched, Opcodes, HandlerModes, HandlerOf
  <2> DEFINE r == shift_left(P, Decoded.operand)
  <2>2. GetAddr(Decoded) /\ SetMemory(Decoded, r.val, r.P)
    BY <2>1 DEF ASL, Shift, Uncharged
  <2>3. Decoded.operand = ram[b]
    BY <2>1, ZeroPage
  <2>4. r.val = U8(2 * ram[b]) /\ ("C" \in r.P <=> ram[b] >= 128)
    BY <2>3 DEF shift_left, SetIf, Negative
  <2> HIDE DEF r
  <2> QED
    BY <2>1, <2>2, <2>4, Operands, ZeroPage DEF SetMemory, registers, Effect, Stored
<1>5. ASSUME Get8(PC) = \h26
      PROVE  /\ PC' = PC + 2 /\ Stored(b, U8(2 * ram[b]) + Carry(P))
             /\ UNCHANGED <<A, SP, frames>>
  <2>1. /\ entry.op = "ROL" /\ entry.mode = "ZERO_PAGE" /\ ROL(Decoded)
        /\ Decoded.mode = entry.mode
    BY <1>5, Fetched, Opcodes, HandlerModes, HandlerOf
  <2> DEFINE r == rotate_left(P, Decoded.operand)
  <2>2. GetAddr(Decoded) /\ SetMemory(Decoded, r.val, r.P)
    BY <2>1 DEF ROL, Shift, Uncharged
  <2>3. Decoded.operand = ram[b]
    BY <2>1, ZeroPage
  <2>4. r.val = U8(2 * ram[b]) + Carry(P)
    BY <2>3 DEF rotate_left
  <2> HIDE DEF r
  <2> QED
    BY <2>1, <2>2, <2>4, Operands, ZeroPage DEF SetMemory, registers, Effect, Stored
<1>6. ASSUME Get8(PC) = \he6
      PROVE  /\ PC' = PC + 2 /\ Stored(b, U8(ram[b] + 1))
             /\ UNCHANGED <<A, SP, frames>>
  <2>1. entry.op = "INC" /\ entry.mode = "ZERO_PAGE" /\ INC(Decoded)
    BY <1>6, Fetched, Opcodes, HandlerModes, HandlerOf
  <2>2. GetAddr(Decoded) /\ SetMemory(Decoded, U8(Decoded.operand + 1),
                                      SetZN(P, U8(Decoded.operand + 1)))
    BY <2>1, Zenon DEF INC, Uncharged, Incremented
  <2> QED
    BY <2>1, <2>2, Operands, ZeroPage DEF SetMemory, registers, Effect, Stored
<1> QED
  BY <1>1, <1>2, <1>3, <1>4, <1>5, <1>6

(* Calls, breaks and jumps; the frames they open.                          *)
Opened(kind, return) ==
  /\ Len(frames') = Len(frames) + 1
  /\ \A n \in 1 .. Len(frames) : frames'[n] = frames[n]
  /\ frames'[Len(frames) + 1].kind = kind
  /\ frames'[Len(frames) + 1].return = return
  /\ frames'[Len(frames) + 1].SP = SP

LEMMA CallEffects ==
  ASSUME IInv, frames \in Seq(FrameType), Instruction, Effect(entry.op), PC \in PrgCode
  PROVE  /\ Get8(PC) = \h20 =>
              /\ PC' = Get16(PC + 1) /\ SP' = U8(SP - 2) /\ A' = A
              /\ Opened("call", PC + 3)
              /\ \E v, w : ram' = Push2(v, w)
         /\ Get8(PC) = \h00 =>
              /\ PC' = Get16(IRQ_VECTOR) /\ SP' = U8(SP - 3) /\ A' = A
              /\ Opened("break", PC + 2)
              /\ \E v, w, x : ram' = Push3(v, w, x)
         /\ Get8(PC) = \h4c =>
              PC' = Get16(PC + 1) /\ UNCHANGED <<A, SP, ram, frames>>
<1>1. U16(PC + 3) = PC + 3 /\ U16(PC + 2) = PC + 2 /\ PC + 3 \in Word /\ PC + 2 \in Word
  <2>1. \A n \in Int : 0 <= n /\ n < 65536 => U16(n) = n /\ n \in Word
    BY Bounds, SMT DEF U16
  <2>2. PC + 3 \in Int /\ 0 <= PC + 3 /\ PC + 3 < 65536
        /\ PC + 2 \in Int /\ 0 <= PC + 2 /\ PC + 2 < 65536
    BY SMT DEF PrgCode
  <2> QED
    BY <2>1, <2>2
<1>2. ASSUME NEW kind \in {"call", "break"}, NEW return \in Word, Enter(kind, return)
      PROVE  Opened(kind, return)
  <2> DEFINE g == Frame(kind, return)
  <2>1. g \in FrameType /\ g.kind = kind /\ g.return = return /\ g.SP = SP
    BY Registers
  <2>2. frames' = Append(frames, g)
    BY <1>2 DEF Enter
  <2> HIDE DEF g
  <2>3. /\ Len(frames') = Len(frames) + 1 /\ frames'[Len(frames) + 1] = g
        /\ \A n \in 1 .. Len(frames) : frames'[n] = frames[n]
    BY <2>2
  <2> QED
    BY <2>1, <2>3 DEF Opened
<1>3. ASSUME Get8(PC) = \h20
      PROVE  /\ PC' = Get16(PC + 1) /\ SP' = U8(SP - 2) /\ A' = A
             /\ Opened("call", PC + 3)
             /\ \E v, w : ram' = Push2(v, w)
  <2>1. entry.op = "JSR" /\ JSR(Decoded) /\ Here = PC + 1
    BY <1>3, Fetched, Opcodes, HandlerOf
  <2>2. Enter("call", PC + 3)
    BY <1>1, <2>1 DEF Effect
  <2>3. Opened("call", PC + 3)
    BY <1>1, <1>2, <2>2
  <2>4. \E v, w : ram' = Push2(v, w)
    BY <2>1, Zenon DEF JSR
  <2> QED
    BY <2>1, <2>3, <2>4 DEF JSR, Abs, registers
<1>4. ASSUME Get8(PC) = \h00
      PROVE  /\ PC' = Get16(IRQ_VECTOR) /\ SP' = U8(SP - 3) /\ A' = A
             /\ Opened("break", PC + 2)
             /\ \E v, w, x : ram' = Push3(v, w, x)
  <2>1. entry.op = "BRK" /\ BRK(Decoded)
    BY <1>4, Fetched, Opcodes, HandlerOf
  <2>2. Enter("break", PC + 2)
    BY <1>1, <2>1 DEF Effect
  <2>3. Opened("break", PC + 2)
    BY <1>1, <1>2, <2>2
  <2>4. \E v, w, x : ram' = Push3(v, w, x)
    BY <2>1, Zenon DEF BRK
  <2> QED
    BY <2>1, <2>3, <2>4 DEF BRK, registers
<1>5. ASSUME Get8(PC) = \h4c
      PROVE  PC' = Get16(PC + 1) /\ UNCHANGED <<A, SP, ram, frames>>
  <2>1. entry.op = "JMP" /\ entry.mode = "ABSOLUTE" /\ JMP(Decoded)
    <3>1. entry \in AllRows /\ entry.code = \h4c /\ entry.op = OPCODES[\h4c + 1]
          /\ Decoded.op = entry.op /\ Handler(Decoded)
      BY <1>5, Fetched
    <3>2. entry.mode = "ABSOLUTE"
      BY <3>1, HandlerModes
    <3> QED
      BY <3>1, <3>2, Opcodes, HandlerOf
  <2>2. Decoded.addr = Get16(PC + 1)
    BY <2>1, Operands
  <2>3. PC' = Decoded.addr /\ UNCHANGED <<SP, P, registers, ram>>
    BY <2>1, Zenon DEF JMP
  <2>4. frames' = frames
    BY <2>1 DEF Effect
  <2> QED
    BY <2>2, <2>3, <2>4 DEF registers
<1> QED
  BY <1>3, <1>4, <1>5

-----------------------------------------------------------------------------
(* The first k frames are of the program, the others of interrupts that    *)
(* the program does not see.                                               *)
AtLevel(k) ==
  /\ k \in 0 .. Len(frames)
  /\ \A n \in 1 .. k : frames[n].kind # "nmi"
  /\ \A n \in k + 1 .. Len(frames) : frames[n].kind = "nmi"

LEMMA NmiAreaKept ==
  ASSUME IInv, NInv, NmisFit, NEW n \in 1 .. Len(frames), frames[n].kind = "nmi",
         \A a \in RamIndex :
           a \notin {StackAt(SP), StackAt(SP - 1), StackAt(SP - 2)} => ram'[a] = ram[a]
  PROVE  \A a \in Area(frames[n]) : ram'[a] = ram[a]
<1> DEFINE f == frames[n]
<1>1. f \in FrameType /\ f.SP \in Byte /\ f.SP \in Int /\ SP \in Int
  <2>1. f \in FrameType /\ SP \in Byte
    BY DEF NInv, IInv, TypeOK
  <2> QED
    BY <2>1, Bounds DEF FrameType
<1>2. \A c \in 0 .. 2 :
        StackAt(f.SP - c) \in RamIndex
        /\ StackAt(f.SP - c) \notin {StackAt(SP), StackAt(SP - 1), StackAt(SP - 2)}
  <2> SUFFICES ASSUME NEW c \in 0 .. 2
               PROVE  StackAt(f.SP - c) \in RamIndex
                      /\ StackAt(f.SP - c) \notin
                           {StackAt(SP), StackAt(SP - 1), StackAt(SP - 2)}
    OBVIOUS
  <2>1. c \in 0 .. 4 /\ c < Depth(Resumes(n)) /\ SP - 0 = SP
    BY <1>1, DepthBounds
  <2>2. \A m \in 0 .. 2 : StackAt(SP - m) # StackAt(f.SP - c)
    BY <2>1, PartsApart
  <2> QED
    BY <1>1, <2>1, <2>2, FiveBytes
<1>3. f.SP - 0 = f.SP
  BY <1>1
<1>4. Area(f) = {StackAt(f.SP), StackAt(f.SP - 1)} \cup
                (IF f.kind = "call" THEN {} ELSE {StackAt(f.SP - 2)})
  BY <1>1, IntactMeans
<1> HIDE DEF f
<1>5. \A a \in Area(f) : \E c \in 0 .. 2 : a = StackAt(f.SP - c)
  BY <1>3, <1>4
<1>6. \A a \in Area(f) : ram'[a] = ram[a]
  BY <1>2, <1>5
<1> QED
  BY <1>6 DEF f

(* The steps that are not an instruction of the program.                   *)
OthersStep(k) ==
  /\ k \in 0 .. Len(frames')
  /\ \A n \in 1 .. k : frames'[n] = frames[n]
  /\ \A n \in k + 1 .. Len(frames') : frames'[n].kind = "nmi"
  /\ \A n \in k + 1 .. Len(frames) : \A a \in Area(frames[n]) : ram'[a] = ram[a]
  /\ Len(frames') < Len(frames) =>
       LET f == Last(frames)
       IN  /\ f.kind = "call" <=> entry.op = "RTS"
           /\ SP = U8(f.SP - Len(Saved(f)))
  /\ Code(k)' = Code(k)
  /\ ram' = ram \/ \A a \in RamIndex :
                      ram'[a] # ram[a] => a \in NmiStack(Len(frames') - k, Code(k).SP)

LEMMA InHandler ==
  ASSUME IInv, NInv, NmisFit, HandlerInstalled, TransparentStep,
         Instruction, Effect(entry.op), NEW k \in Nat, AtLevel(k), k < Len(frames)
  PROVE  OthersStep(k)
<1> DEFINE N == Len(frames)
           f == frames[N]
<1>1. frames \in Seq(FrameType) /\ N \in Nat /\ k + 1 \in 1 .. N
      /\ frames[k + 1].kind = "nmi"
  BY DEF NInv, AtLevel
<1>2. /\ N \in 1 .. N /\ f \in FrameType /\ f.kind = "nmi" /\ Last(frames) = f
      /\ Within(f, PC, registers, SP, ram)
  BY <1>1, Innermost
<1>3. PC \in HandlerPoints /\ SP = U8(f.SP - Depth(PC))
  BY <1>2 DEF Within
<1>4. Suspended(k)
  BY DEF Suspended, AtLevel
<1>5. /\ Code(k)' = Code(k)
      /\ ram' = ram \/ \A a \in RamIndex :
                          ram'[a] # ram[a] => a \in NmiStack(Len(frames') - k, Code(k).SP)
  <2>1. k \in 0 .. Len(frames)
    BY DEF AtLevel
  <2> QED
    BY <1>4, <2>1, Zenon DEF TransparentStep
<1>6. \A a \in RamIndex :
        a \notin {StackAt(SP), StackAt(SP - 1), StackAt(SP - 2)} => ram'[a] = ram[a]
  <2>1. \/ ram' = ram
        \/ ram' = [ram EXCEPT ![StackAt(SP)] = A]
    BY <1>3, HandlerEffects DEF HandlerPoints
  <2>2. DOMAIN ram = RamIndex
    BY DEF IInv, TypeOK, Ram
  <2> QED
    BY <2>1, <2>2
<1>7. \A n \in k + 1 .. N : \A a \in Area(frames[n]) : ram'[a] = ram[a]
  <2>1. \A n \in k + 1 .. N : n \in 1 .. N /\ frames[n].kind = "nmi"
    BY <1>1 DEF AtLevel
  <2> QED
    BY <1>6, <2>1, NmiAreaKept
<1> HIDE DEF f
<1>8. CASE PC = \h900a
  <2>1. entry.op = "RTI"
    BY <1>3, <1>8, HandlerInstructions
  <2>2. Leave
    BY <2>1 DEF Effect
  <2>3. /\ Len(frames') = N - 1 /\ \A m \in 1 .. N - 1 : frames'[m] = frames[m]
    BY <1>1, <1>2, <2>2, FrontOf, EmptySeq DEF Leave
  <2>4. Len(Saved(f)) = 3 /\ SP = U8(f.SP - 3)
    <3>1. Len(Saved(f)) = 3
      BY <1>2, IntactMeans
    <3>2. Depth(PC) = 3
      BY <1>8 DEF Depth
    <3> QED
      BY <1>3, <3>1, <3>2
  <2>5. k \in 0 .. N - 1 /\ \A n \in 1 .. k : n \in 1 .. N - 1
    BY <1>1
  <2>6. \A n \in k + 1 .. N - 1 : n \in 1 .. N - 1 /\ frames[n].kind = "nmi"
    BY <1>1 DEF AtLevel
  <2> QED
    BY <1>2, <1>5, <1>7, <2>1, <2>3, <2>4, <2>5, <2>6 DEF OthersStep
<1>9. CASE PC # \h900a
  <2>1. entry.op \notin {"JSR", "BRK", "RTS", "RTI"}
    BY <1>3, <1>9, HandlerInstructions DEF HandlerPoints
  <2>2. frames' = frames
    BY <2>1 DEF Effect
  <2> QED
    BY <1>1, <1>5, <1>7, <2>2 DEF OthersStep, AtLevel
<1> QED
  BY <1>8, <1>9

LEMMA NmiArrives ==
  ASSUME IInv, NInv, NmisFit, TransparentStep,
         ServiceNmi, Enter("nmi", PC), NEW k \in Nat, AtLevel(k)
  PROVE  OthersStep(k)
<1> DEFINE N == Len(frames)
           g == Frame("nmi", PC)
<1>1. frames \in Seq(FrameType) /\ N \in Nat /\ frames' = Append(frames, g)
      /\ g \in FrameType /\ g.kind = "nmi"
  BY Registers DEF NInv, Enter
<1> HIDE DEF g
<1>2. /\ Len(frames') = N + 1 /\ frames'[N + 1] = g
      /\ \A m \in 1 .. N : frames'[m] = frames[m]
  BY <1>1
<1>3. Suspended(k) \/ Suspended(k)'
  <2>1. CASE k = N
    BY <1>1, <1>2, <2>1 DEF Suspended
  <2>2. CASE k # N
    BY <1>1, <2>2 DEF Suspended, AtLevel
  <2> QED
    BY <2>1, <2>2
<1>4. /\ Code(k)' = Code(k)
      /\ ram' = ram \/ \A a \in RamIndex :
                          ram'[a] # ram[a] => a \in NmiStack(Len(frames') - k, Code(k).SP)
  <2>1. k \in 0 .. Len(frames)
    BY DEF AtLevel
  <2> QED
    BY <1>3, <2>1, Zenon DEF TransparentStep
<1>5. \A a \in RamIndex :
        a \notin {StackAt(SP), StackAt(SP - 1), StackAt(SP - 2)} => ram'[a] = ram[a]
  <2>1. DOMAIN ram = RamIndex
    BY DEF IInv, TypeOK, Ram
  <2>2. ram' = Push3(Hi(PC), Lo(PC), PByte(P \cup {"B"}))
    BY DEF ServiceNmi, TakeNmi
  <2> QED
    BY <2>1, <2>2 DEF Push3, Push2
<1>6. \A n \in k + 1 .. N : \A a \in Area(frames[n]) : ram'[a] = ram[a]
  <2>1. \A n \in k + 1 .. N : n \in 1 .. N /\ frames[n].kind = "nmi"
    BY <1>1 DEF AtLevel
  <2> QED
    BY <1>5, <2>1, NmiAreaKept
<1>7. \A n \in 1 .. k : frames'[n] = frames[n]
  BY <1>1, <1>2 DEF AtLevel
<1>8. \A n \in k + 1 .. N + 1 : frames'[n].kind = "nmi"
  BY <1>1, <1>2 DEF AtLevel
<1>9. k \in 0 .. N + 1 /\ ~(Len(frames') < Len(frames))
  BY <1>1, <1>2 DEF AtLevel
<1> QED
  BY <1>2, <1>4, <1>6, <1>7, <1>8, <1>9 DEF OthersStep

LEMMA OthersSteps ==
  ASSUME IInv, NInv, NmisFit, HandlerInstalled, TransparentStep,
         [StackNext]_stackVars, NEW k \in Nat, AtLevel(k),
         Instruction /\ Effect(entry.op) => k < Len(frames)
  PROVE  OthersStep(k)
<1>1. frames \in Seq(FrameType) /\ Len(frames) \in Nat
  BY DEF NInv
<1>2. CASE Instruction /\ Effect(entry.op)
  BY <1>2, InHandler
<1>3. CASE ServiceNmi /\ Enter("nmi", PC)
  BY <1>3, NmiArrives
<1>4. CASE UNCHANGED <<PC, SP, A, X, Y, P, ram, frames>>
  <2>1. Code(k)' = Code(k)
    BY <1>4 DEF Code, registers
  <2> QED
    BY <1>1, <1>4, <2>1 DEF OthersStep, AtLevel
<1>5. CASE UNCHANGED stackVars
  BY <1>4, <1>5 DEF stackVars, vars
<1>6. CASE PpuRaises /\ UNCHANGED frames
  BY <1>4, <1>6 DEF PpuRaises, registers
<1>7. CASE (NoInterrupt \/ Panic \/ PpuDone \/ Exited) /\ UNCHANGED frames
  BY <1>4, <1>7 DEF NoInterrupt, Panic, PpuDone, Exited, registers, vars
<1> QED
  BY <1>2, <1>3, <1>5, <1>6, <1>7 DEF StackNext

-----------------------------------------------------------------------------
(* The stack a program uses: the bytes above SP.                           *)
Above(sp) == {StackAt(sp + 1), StackAt(sp + 2), StackAt(sp + 3),
              StackAt(sp + 4), StackAt(sp + 5), StackAt(sp + 6)}

InUse(sp) == {\h12, \h13, \h14} \cup Above(sp)

LEMMA NmisBelow ==
  ASSUME NEW sp \in Byte, NEW n \in Nat, n < 50, NEW a \in InUse(sp)
  PROVE  a \in RamIndex /\ a \notin NmiStack(n, sp)
<1>1. sp \in Int /\ 0 <= sp /\ sp <= 255
  BY Bounds
<1>2. ASSUME NEW x \in Int PROVE StackAt(x) \in Int /\ 256 <= StackAt(x) /\ StackAt(x) < 512
  BY SMT DEF StackAt, U8
<1>3. CASE a \in {\h12, \h13, \h14}
  <2>1. a \in RamIndex
    BY <1>3, Indices, SMT
  <2>2. \A d \in 0 .. NmiBytes * n : a # StackAt(sp - d)
    <3> SUFFICES ASSUME NEW d \in 0 .. NmiBytes * n PROVE a # StackAt(sp - d)
      OBVIOUS
    <3>1. sp - d \in Int
      BY <1>1 DEF NmiBytes
    <3> QED
      BY <1>2, <1>3, <3>1, SMT
  <2> QED
    BY <2>1, <2>2 DEF NmiStack
<1>4. ASSUME NEW j \in 1 .. 6, a = StackAt(sp + j)
      PROVE  a \in RamIndex /\ a \notin NmiStack(n, sp)
  <2>1. a \in RamIndex
    BY <1>1, <1>2, <1>4, Indices, SMT
  <2>2. \A d \in 0 .. NmiBytes * n : a # StackAt(sp - d)
    <3> SUFFICES ASSUME NEW d \in 0 .. NmiBytes * n PROVE StackAt(sp + j) # StackAt(sp - d)
      BY <1>4
    <3>1. d \in Int /\ 0 <= d /\ d <= 245
      BY SMT DEF NmiBytes
    <3>2. /\ U8(sp + j) = IF sp + j < 256 THEN sp + j ELSE sp + j - 256
          /\ U8(sp - d) = IF sp >= d THEN sp - d ELSE sp - d + 256
      BY <1>1, <3>1, Wraps
    <3> QED
      BY <1>1, <3>1, <3>2 DEF StackAt
  <2> QED
    BY <2>1, <2>2 DEF NmiStack
<1> QED
  BY <1>3, <1>4 DEF InUse, Above

(* The two programs, instruction by instruction: what each relies on of    *)
(* what those before it have left in the registers c, the frames fs, the   *)
(* stack and the memory r.                                                 *)
Entered(f, kind, return, sp) == f.kind = kind /\ f.return = return /\ f.SP = sp

Accumulator(c) == c.registers[1]

SumMain(c, r) ==
  /\ c.PC \in {\h8000, \h8002, \h8003, \h8005, \h8008, \h800a}
  /\ c.PC = \h8002 => c.registers[2] = \hff
  /\ c.PC \in {\h8003, \h8005, \h8008, \h800a} => c.SP = \hff
  /\ c.PC \in {\h8005, \h8008, \h800a} => Accumulator(c) = \hc8
  /\ c.PC \in {\h8008, \h800a} => r[\h12] = \h58 /\ r[\h13] = \h08
  /\ r[\h14] = IF c.PC = \h800a THEN 1 ELSE 0

SumOuter(c, r) ==
  /\ c.PC \in {\h8042, \h8043, \h8044, \h8045, \h8047, \h8049, \h804b, \h804d, \h804f,
               \h8052, \h8053, \h8054}
  /\ c.SP = IF c.PC \in {\h8042, \h8054} THEN \hfd
            ELSE IF c.PC \in {\h8043, \h8053} THEN \hfc ELSE \hfb
  /\ c.PC \in {\h8042, \h8043, \h8044, \h8045, \h8053, \h8054} => Accumulator(c) = \hc8
  /\ c.SP = \hfb => r[\h1fc] = \hc8
  /\ c.PC = \h8045 => "C" \notin c.P
  /\ c.PC \in {\h8047, \h8049, \h804b} => "C" \in c.P
  /\ c.PC = \h8047 => Accumulator(c) = \h2c
  /\ c.PC = \h804b => Accumulator(c) = 1
  /\ c.PC = \h804d => Accumulator(c) = 4
  /\ c.PC \in {\h8049, \h804b, \h804d, \h804f} => r[\h12] = \h2c
  /\ c.PC = \h804f => r[\h13] = \h04
  /\ c.PC \in {\h8052, \h8053, \h8054} => r[\h12] = \h58 /\ r[\h13] = \h08
  /\ r[\h14] = 0

SumInner(c, r) ==
  /\ c.PC \in {\h8062, \h8064, \h8066}
  /\ c.SP = \hf9
  /\ r[\h1fc] = \hc8
  /\ c.PC = \h8064 => "C" \notin c.P
  /\ r[\h12] = IF c.PC = \h8062 THEN \h2c ELSE \h58
  /\ r[\h13] = IF c.PC = \h8066 THEN \h08 ELSE \h04
  /\ r[\h14] = 0

SumBreak(c, r) ==
  /\ c.PC \in {\ha000, \ha002}
  /\ c.SP = \hfc
  /\ Accumulator(c) = \hc8
  /\ r[\h12] = \h58 /\ r[\h13] = \h08
  /\ r[\h14] = IF c.PC = \ha000 THEN 0 ELSE 1

SumAt(k, c, fs, r) ==
  \/ k = 0 /\ SumMain(c, r)
  \/ k = 1 /\ Entered(fs[1], "call", \h8008, \hff) /\ SumOuter(c, r)
  \/ /\ k = 2
     /\ Entered(fs[1], "call", \h8008, \hff) /\ Entered(fs[2], "call", \h8052, \hfb)
     /\ SumInner(c, r)
  \/ k = 1 /\ Entered(fs[1], "break", \h800a, \hff) /\ SumBreak(c, r)

WrapMain(c, r) ==
  /\ c.PC \in {\h8000, \h8002, \h8003, \h8005, \h8006, \h8007, \h800a, \h800b,
               \h800c, \h800d, \h800e}
  /\ c.PC = \h8002 => c.registers[2] = 2
  /\ c.PC \in {\h8003, \h8005, \h800c, \h800e} => c.SP = 2
  /\ c.PC \in {\h8006, \h800b, \h800d} => c.SP = 1
  /\ c.PC \in {\h8007, \h800a} => c.SP = 0 /\ r[\h101] = \h5a
  /\ c.PC \in {\h8005, \h8006, \h800b, \h800c, \h800d, \h800e} => Accumulator(c) = \h5a

WrapOuter(c, r) ==
  /\ c.PC \in {\h8042, \h8043, \h8046, \h8047}
  /\ c.SP = IF c.PC \in {\h8042, \h8047} THEN \hfe ELSE \hfd
  /\ r[\h101] = \h5a

WrapInner(c, r) ==
  c.PC \in {\h8062, \h8064} /\ c.SP = \hfb /\ r[\h101] = \h5a

WrapAt(k, c, fs, r) ==
  \/ k = 0 /\ WrapMain(c, r)
  \/ k = 1 /\ Entered(fs[1], "call", \h800a, 0) /\ WrapOuter(c, r)
  \/ /\ k = 2
     /\ Entered(fs[1], "call", \h800a, 0) /\ Entered(fs[2], "call", \h8046, \hfd)
     /\ WrapInner(c, r)

ProgramAt(g, k, c, fs, r) ==
  /\ k \in 0 .. 2
  /\ g = "sum" => SumAt(k, c, fs, r)
  /\ g = "wrap" => WrapAt(k, c, fs, r)

(* Nothing else: where a program is holds on in any frames and memory that *)
(* agree on its own frames and on the bytes it uses.                       *)
LEMMA SumKept ==
  ASSUME NEW k, NEW c, NEW fs, NEW gs, NEW r, NEW s, SumAt(k, c, fs, r),
         k = 1 => gs[1] = fs[1], k = 2 => gs[1] = fs[1] /\ gs[2] = fs[2],
         \A a \in InUse(c.SP) : s[a] = r[a]
  PROVE  SumAt(k, c, gs, s)
<1>1. s[\h12] = r[\h12] /\ s[\h13] = r[\h13] /\ s[\h14] = r[\h14]
  BY SMT DEF InUse
<1>2. c.SP \in {\hfb, \hf9} => s[\h1fc] = r[\h1fc]
  <2>1. \h1fc = StackAt(\hfb + 1) /\ \h1fc = StackAt(\hf9 + 3)
    BY SMT DEF StackAt, U8
  <2>2. c.SP \in {\hfb, \hf9} => \h1fc \in InUse(c.SP)
    BY <2>1, SMT DEF InUse, Above
  <2> QED
    BY <2>2, SMT
<1>3. SumMain(c, r) => SumMain(c, s)
  BY <1>1, SMT DEF SumMain
<1>4. SumOuter(c, r) => SumOuter(c, s)
  BY <1>1, <1>2, SMT DEF SumOuter
<1>5. SumInner(c, r) => SumInner(c, s)
  BY <1>1, <1>2, SMT DEF SumInner
<1>6. SumBreak(c, r) => SumBreak(c, s)
  BY <1>1, SMT DEF SumBreak
<1> QED
  BY <1>3, <1>4, <1>5, <1>6, SMT DEF SumAt

LEMMA WrapKept ==
  ASSUME NEW k, NEW c, NEW fs, NEW gs, NEW r, NEW s, WrapAt(k, c, fs, r),
         k = 1 => gs[1] = fs[1], k = 2 => gs[1] = fs[1] /\ gs[2] = fs[2],
         \A a \in InUse(c.SP) : s[a] = r[a]
  PROVE  WrapAt(k, c, gs, s)
<1>1. c.SP \in {0, \hfe, \hfd, \hfb} => s[\h101] = r[\h101]
  <2>1. /\ \h101 = StackAt(0 + 1) /\ \h101 = StackAt(\hfe + 3)
        /\ \h101 = StackAt(\hfd + 4) /\ \h101 = StackAt(\hfb + 6)
    BY SMT DEF StackAt, U8
  <2>2. c.SP \in {0, \hfe, \hfd, \hfb} => \h101 \in InUse(c.SP)
    BY <2>1, SMT DEF InUse, Above
  <2> QED
    BY <2>2, SMT
<1>2. WrapMain(c, r) => WrapMain(c, s)
  BY <1>1, SMT DEF WrapMain
<1>3. WrapOuter(c, r) => WrapOuter(c, s)
  BY <1>1, SMT DEF WrapOuter
<1>4. WrapInner(c, r) => WrapInner(c, s)
  BY <1>1, SMT DEF WrapInner
<1> QED
  BY <1>2, <1>3, <1>4, SMT DEF WrapAt

(* The frames of the program are in the stack it uses.                     *)
LEMMA AreaOf ==
  ASSUME NEW f \in FrameType, NEW kind, NEW return, NEW s, Entered(f, kind, return, s)
  PROVE  /\ kind = "call" => Area(f) = {StackAt(s), StackAt(s - 1)}
         /\ kind # "call" => Area(f) = {StackAt(s), StackAt(s - 1), StackAt(s - 2)}
<1>1. Area(f) = {StackAt(f.SP), StackAt(f.SP - 1)} \cup
                (IF f.kind = "call" THEN {} ELSE {StackAt(f.SP - 2)})
  BY IntactMeans
<1> QED
  BY <1>1 DEF Entered

LEMMA SumAreas ==
  ASSUME NEW k, NEW c, NEW fs \in Seq(FrameType), NEW r, SumAt(k, c, fs, r), k <= Len(fs),
         NEW n \in 1 .. k
  PROVE  Area(fs[n]) \subseteq Above(c.SP)
<1>1. CASE k = 1 /\ Entered(fs[1], "call", \h8008, \hff) /\ SumOuter(c, r)
  <2>1. n = 1 /\ fs[1] \in FrameType
    BY <1>1
  <2>2. Area(fs[1]) = {StackAt(\hff), StackAt(\hff - 1)}
    BY <1>1, <2>1, AreaOf
  <2>3. c.SP \in {\hfd, \hfc, \hfb}
    BY <1>1 DEF SumOuter
  <2>4. \A s \in {\hfd, \hfc, \hfb} : {StackAt(\hff), StackAt(\hff - 1)} \subseteq Above(s)
    BY SMT DEF Above, StackAt, U8
  <2> QED
    BY <2>1, <2>2, <2>3, <2>4
<1>2. CASE /\ k = 2 /\ SumInner(c, r)
           /\ Entered(fs[1], "call", \h8008, \hff) /\ Entered(fs[2], "call", \h8052, \hfb)
  <2>1. n \in {1, 2} /\ fs[1] \in FrameType /\ fs[2] \in FrameType /\ c.SP = \hf9
    BY <1>2 DEF SumInner
  <2>2. /\ Area(fs[1]) = {StackAt(\hff), StackAt(\hff - 1)}
        /\ Area(fs[2]) = {StackAt(\hfb), StackAt(\hfb - 1)}
    BY <1>2, <2>1, AreaOf
  <2>3. /\ {StackAt(\hff), StackAt(\hff - 1)} \subseteq Above(\hf9)
        /\ {StackAt(\hfb), StackAt(\hfb - 1)} \subseteq Above(\hf9)
    <3>1. \hff = \hf9 + 6 /\ \hff - 1 = \hf9 + 5 /\ \hfb = \hf9 + 2 /\ \hfb - 1 = \hf9 + 1
      BY SMT
    <3> QED
      BY <3>1, SMT DEF Above
  <2>4. Area(fs[1]) \subseteq Above(c.SP) /\ Area(fs[2]) \subseteq Above(c.SP)
    <3>1. c.SP = \hf9
      BY <2>1
    <3> QED
      BY <2>2, <2>3, <3>1
  <2>5. n = 1 \/ n = 2
    BY <2>1
  <2> QED
    BY <2>4, <2>5
<1>3. CASE k = 1 /\ Entered(fs[1], "break", \h800a, \hff) /\ SumBreak(c, r)
  <2>1. n = 1 /\ fs[1] \in FrameType /\ c.SP = \hfc
    BY <1>3 DEF SumBreak
  <2>2. Area(fs[1]) = {StackAt(\hff), StackAt(\hff - 1), StackAt(\hff - 2)}
    BY <1>3, <2>1, AreaOf
  <2>3. {StackAt(\hff), StackAt(\hff - 1), StackAt(\hff - 2)} \subseteq Above(\hfc)
    BY SMT DEF Above, StackAt, U8
  <2> QED
    BY <2>1, <2>2, <2>3
<1> QED
  BY <1>1, <1>2, <1>3 DEF SumAt

LEMMA WrapAreas ==
  ASSUME NEW k, NEW c, NEW fs \in Seq(FrameType), NEW r, WrapAt(k, c, fs, r), k <= Len(fs),
         NEW n \in 1 .. k
  PROVE  Area(fs[n]) \subseteq Above(c.SP)
<1>1. StackAt(0 - 1) = \h1ff /\ StackAt(0) = \h100
  <2>1. 0 - 1 \in Int /\ -256 <= 0 - 1 /\ 0 - 1 < 0 /\ 0 - 1 + 256 = 255
    OBVIOUS
  <2>2. U8(0 - 1) = 255 /\ U8(0) = 0
    BY <2>1, Wraps
  <2> QED
    BY <2>2, SMT DEF StackAt
<1>2. CASE k = 1 /\ Entered(fs[1], "call", \h800a, 0) /\ WrapOuter(c, r)
  <2>1. n = 1 /\ fs[1] \in FrameType /\ c.SP \in {\hfe, \hfd}
    BY <1>2 DEF WrapOuter
  <2>2. Area(fs[1]) = {StackAt(0), StackAt(0 - 1)}
    BY <1>2, <2>1, AreaOf
  <2>3. \A s \in {\hfe, \hfd} : {StackAt(0), StackAt(0 - 1)} \subseteq Above(s)
    <3>1. \h1ff \in Above(\hfe) /\ \h100 \in Above(\hfe)
          /\ \h1ff \in Above(\hfd) /\ \h100 \in Above(\hfd)
      BY SMT DEF Above, StackAt, U8
    <3> QED
      BY <1>1, <3>1
  <2> QED
    BY <2>1, <2>2, <2>3
<1>3. CASE /\ k = 2 /\ WrapInner(c, r)
           /\ Entered(fs[1], "call", \h800a, 0) /\ Entered(fs[2], "call", \h8046, \hfd)
  <2>1. n \in {1, 2} /\ fs[1] \in FrameType /\ fs[2] \in FrameType /\ c.SP = \hfb
    BY <1>3 DEF WrapInner
  <2>2. /\ Area(fs[1]) = {StackAt(0), StackAt(0 - 1)}
        /\ Area(fs[2]) = {StackAt(\hfd), StackAt(\hfd - 1)}
    BY <1>3, <2>1, AreaOf
  <2>3. /\ {StackAt(0), StackAt(0 - 1)} \subseteq Above(\hfb)
        /\ {StackAt(\hfd), StackAt(\hfd - 1)} \subseteq Above(\hfb)
    <3>1. \h1ff \in Above(\hfb) /\ \h100 \in Above(\hfb)
          /\ StackAt(\hfd) \in Above(\hfb) /\ StackAt(\hfd - 1) \in Above(\hfb)
      BY SMT DEF Above, StackAt, U8
    <3> QED
      BY <1>1, <3>1
  <2>4. n = 1 \/ n = 2
    BY <2>1
  <2>5. Area(fs[1]) \subseteq Above(c.SP) /\ Area(fs[2]) \subseteq Above(c.SP)
    <3>1. c.SP = \hfb
      BY <2>1
    <3> QED
      BY <2>2, <2>3, <3>1
  <2> QED
    BY <2>4, <2>5
<1> QED
  BY <1>2, <1>3 DEF WrapAt

LEMMA ProgramAreas ==
  ASSUME NEW g \in MCGames, NEW k, NEW c, NEW fs \in Seq(FrameType), NEW r,
         ProgramAt(g, k, c, fs, r), k <= Len(fs), NEW n \in 1 .. k
  PROVE  Area(fs[n]) \subseteq Above(c.SP)
<1>1. g = "sum" \/ g = "wrap"
  BY DEF MCGames
<1> QED
  BY <1>1, SumAreas, WrapAreas, Zenon DEF ProgramAt

LEMMA ProgramKept ==
  ASSUME NEW g, NEW k, NEW c, NEW fs, NEW gs, NEW r, NEW s, ProgramAt(g, k, c, fs, r),
         \A n \in 1 .. k : gs[n] = fs[n], \A a \in InUse(c.SP) : s[a] = r[a]
  PROVE  ProgramAt(g, k, c, gs, s)
<1>1. /\ k \in 0 .. 2 /\ k = 1 => gs[1] = fs[1]
      /\ k = 2 => gs[1] = fs[1] /\ gs[2] = fs[2]
  BY DEF ProgramAt
<1> QED
  BY <1>1, SumKept, WrapKept, Zenon DEF ProgramAt

(* One of the frames, or none, is the innermost of the program, and the    *)
(* program is at one of its instructions there.                            *)
ProgInv == \E k \in 0 .. 2 : AtLevel(k) /\ ProgramAt(game, k, Code(k), frames, ram)

LEMMA OthersKeep ==
  ASSUME IInv, frames \in Seq(FrameType), game \in MCGames, UNCHANGED game,
         NEW k \in 0 .. 2, AtLevel(k), ProgramAt(game, k, Code(k), frames, ram),
         OthersStep(k), Len(frames') \in Nat, Len(frames') - k < 50
  PROVE  DisciplinedStep /\ ProgInv'
<1>1. k \in Nat /\ Len(frames) \in Nat /\ k <= Len(frames) /\ k <= Len(frames')
      /\ Len(frames') - k \in Nat
  BY DEF AtLevel, OthersStep
<1>2. Code(k).SP \in Byte
  <2>1. CASE k = Len(frames)
    BY <2>1 DEF Code, IInv, TypeOK
  <2>2. CASE k # Len(frames)
    <3>1. frames[k + 1] \in FrameType
      BY <1>1, <2>2
    <3> QED
      BY <2>2, <3>1 DEF Code, FrameType
  <2> QED
    BY <2>1, <2>2
<1> DEFINE c == Code(k)
<1>3. \A a \in InUse(c.SP) : ram'[a] = ram[a]
  <2>1. \A a \in InUse(c.SP) :
          a \in RamIndex /\ a \notin NmiStack(Len(frames') - k, c.SP)
    BY <1>1, <1>2, NmisBelow
  <2> QED
    BY <2>1 DEF OthersStep
<1>4. ProgramAt(game, k, c, frames', ram')
  <2>1. \A n \in 1 .. k : frames'[n] = frames[n]
    BY DEF OthersStep
  <2> HIDE DEF c
  <2> QED
    BY <1>3, <2>1, ProgramKept DEF c
<1>5. AtLevel(k)'
  <2>1. \A n \in 1 .. k : frames'[n].kind # "nmi"
    BY DEF OthersStep, AtLevel
  <2> QED
    BY <2>1 DEF OthersStep, AtLevel
<1>6. ProgInv'
  <2>1. Code(k)' = Code(k) /\ game' = game
    BY DEF OthersStep
  <2> QED
    BY <1>4, <1>5, <2>1, Zenon DEF ProgInv
<1>7. Untouched
  <2> SUFFICES ASSUME NEW n \in 1 .. Len(frames), NEW a \in Area(frames[n])
               PROVE  ram'[a] = ram[a]
    BY Zenon DEF Untouched
  <2>1. CASE n \in 1 .. k
    <3> HIDE DEF c
    <3>1. Area(frames[n]) \subseteq Above(c.SP)
      BY <1>1, <2>1, ProgramAreas DEF c
    <3> QED
      BY <1>3, <3>1 DEF InUse
  <2>2. CASE n \in k + 1 .. Len(frames)
    BY <2>2 DEF OthersStep
  <2> QED
    BY <1>1, <2>1, <2>2
<1> QED
  BY <1>6, <1>7, Zenon DEF DisciplinedStep, OthersStep

-----------------------------------------------------------------------------
(* An instruction of the program, at the level of the innermost frame.     *)
Written == {\h12, \h13, \h14, StackAt(SP), StackAt(SP - 1), StackAt(SP - 2)}

Returned ==
  LET f == Last(frames)
  IN  /\ f.kind = "call" <=> entry.op = "RTS"
      /\ SP = U8(f.SP - Len(Saved(f)))

StepTo(k) ==
  /\ k \in 0 .. 2 /\ Len(frames') = k
  /\ \A a \in RamIndex : a \notin Written => ram'[a] = ram[a]
  /\ Len(frames') < Len(frames) => Returned

(* c is what the CPU runs with.                                            *)
Running(c) ==
  /\ c.PC = PC /\ c.SP = SP /\ ("C" \in c.P <=> "C" \in P)
  /\ Accumulator(c) = A /\ c.registers[2] = X

LEMMA RunningCode ==
  ASSUME NEW k
  PROVE  /\ k = Len(frames) => Running(Code(k))
         /\ k = Len(frames') => Running(Code(k))'
  BY DEF Code, Accumulator, registers, Running

Writes == ram' = ram \/ \E a \in Written : \E v : Stored(a, v)

LEMMA WritesOne ==
  ASSUME NEW a, NEW v, Stored(a, v)
  PROVE  /\ a \in {\h12, \h13, \h14, StackAt(SP)} => Writes
         /\ a \in RamIndex /\ DOMAIN ram = RamIndex =>
              ram'[a] = v /\ \A x \in RamIndex \ {a} : ram'[x] = ram[x]
<1>1. a \in {\h12, \h13, \h14, StackAt(SP)} => Writes
  BY DEF Writes, Written
<1>2. a \in RamIndex /\ DOMAIN ram = RamIndex =>
        ram'[a] = v /\ \A x \in RamIndex \ {a} : ram'[x] = ram[x]
  BY DEF Stored
<1> QED
  BY <1>1, <1>2

(* Steps within a level, and into the next one.                            *)
LEMMA Stays ==
  ASSUME IInv, frames' = frames, NEW k \in 0 .. 2, k = Len(frames), Writes
  PROVE  StepTo(k)
<1>1. DOMAIN ram = RamIndex
  BY DEF IInv, TypeOK, Ram
<1> QED
  BY <1>1 DEF StepTo, Writes, Stored

LEMMA Goes ==
  ASSUME IInv, NEW kind, NEW return, Opened(kind, return), NEW k \in 0 .. 2,
         k = Len(frames) + 1, Len(frames) \in Nat,
         \/ \E v, w : ram' = Push2(v, w)
         \/ \E v, w, x : ram' = Push3(v, w, x)
  PROVE  /\ StepTo(k)
         /\ \A a \in {\h12, \h13, \h14} : ram'[a] = ram[a]
         /\ \A a \in RamIndex :
              a \notin {StackAt(SP), StackAt(SP - 1), StackAt(SP - 2)} => ram'[a] = ram[a]
<1>1. DOMAIN ram = RamIndex /\ SP \in Byte
  BY DEF IInv, TypeOK, Ram
<1>2. \A a \in RamIndex :
        a \notin {StackAt(SP), StackAt(SP - 1), StackAt(SP - 2)} => ram'[a] = ram[a]
  BY <1>1 DEF Push3, Push2
<1>3. StepTo(k)
  BY <1>2 DEF StepTo, Written, Opened
<1>4. \A n \in Int : StackAt(n) >= 256
  BY SMT DEF StackAt, U8
<1>5. SP \in Int /\ SP - 1 \in Int /\ SP - 2 \in Int
  BY <1>1, Bounds
<1>6. ASSUME NEW a \in {\h12, \h13, \h14}
      PROVE  a \in RamIndex /\ a \notin {StackAt(SP), StackAt(SP - 1), StackAt(SP - 2)}
  <2>1. a < 256 /\ a \in RamIndex
    BY <1>6, Indices, SMT
  <2> QED
    BY <1>4, <1>5, <2>1, SMT
<1> QED
  BY <1>2, <1>3, <1>6, SMT

(* And back from it.                                                       *)
LEMMA Returns ==
  ASSUME SInv, Instruction, Effect(entry.op), PC \in PrgCode,
         NEW k \in Nat, k = Len(frames), NEW kind, NEW return, NEW s,
         k >= 1, Entered(frames[k], kind, return, s),
         \/ kind = "call" /\ Get8(PC) = \h60 /\ SP = U8(s - 2)
         \/ kind = "break" /\ Get8(PC) = \h40 /\ SP = U8(s - 3)
  PROVE  /\ PC' = return /\ SP' = s /\ UNCHANGED <<A, ram>> /\ Returned
         /\ Len(frames') = Len(frames) - 1 /\ \A n \in 1 .. k - 1 : frames'[n] = frames[n]
<1> DEFINE f == frames[k]
<1>1. /\ frames \in Seq(FrameType) /\ IInv /\ k \in 1 .. Len(frames)
      /\ f \in FrameType /\ "U" \in f.P /\ Kept(f, ram)
  <2>1. frames \in Seq(FrameType) /\ IInv /\ k \in 1 .. Len(frames)
    BY DEF SInv, FrameTypes
  <2> QED
    BY <2>1 DEF SInv, FrameTypes, AllKept
<1>2. Last(frames) = f /\ frames # <<>>
  BY <1>1 DEF Last
<1>3. f.kind = kind /\ f.return = return /\ f.SP = s
  BY DEF Entered
<1>4. Len(Saved(f)) = IF kind = "call" THEN 2 ELSE 3
  BY <1>1, <1>3, IntactMeans
<1>5. \/ kind = "call" /\ entry.op = "RTS" /\ RTS(Decoded)
      \/ kind = "break" /\ entry.op = "RTI" /\ RTI(Decoded)
  <2>1. /\ Get8(PC) = \h60 => entry.op = "RTS"
        /\ Get8(PC) = \h40 => entry.op = "RTI"
    BY <1>1, Fetched, Opcodes
  <2> QED
    BY <2>1, InstructionOf
<1>6. /\ Len(frames') = k - 1 /\ \A n \in 1 .. k - 1 : frames'[n] = frames[n]
  <2>1. frames' = Front(frames)
    BY <1>5 DEF Effect, Leave
  <2> QED
    BY <1>1, <1>2, <2>1, FrontOf
<1>7. Returned
  <2>1. SP = U8(s - Len(Saved(f)))
    BY <1>4, <1>5
  <2> QED
    BY <1>2, <1>3, <1>5, <2>1 DEF Returned
<1>8. PC' = return /\ SP' = s
  <2> HIDE DEF f
  <2>1. CASE kind = "call"
    <3>1. RTS(Decoded) /\ SP = U8(f.SP - 2)
      BY <1>3, <1>5, <2>1
    <3> QED
      BY <1>1, <1>3, <2>1, <3>1, CallReturns
  <2>2. CASE kind = "break"
    <3>1. RTI(Decoded) /\ SP = U8(f.SP - 3)
      BY <1>3, <1>5, <2>2
    <3> QED
      BY <1>1, <1>3, <2>2, <3>1, InterruptReturns
  <2> QED
    BY <1>5, <2>1, <2>2
<1>9. UNCHANGED <<A, ram>>
  BY <1>5 DEF RTS, RTI, registers
<1> QED
  BY <1>6, <1>7, <1>8, <1>9

(* The sum: one step for each instruction.                                 *)
Advance(k, d) == StepTo(k) /\ SumAt(k, d, frames', ram')

LEMMA SumMainStep ==
  ASSUME SInv, Holds(rom, SumProgram), Get16(IRQ_VECTOR) = \ha000,
         Instruction, Effect(entry.op), Len(frames) = 0,
         NEW c, Running(c), SumMain(c, ram), NEW d, Running(d)'
  PROVE  \E k \in 0 .. 2 : Advance(k, d)
<1>1. IInv /\ frames \in Seq(FrameType) /\ DOMAIN ram = RamIndex
  BY DEF SInv, IInv, TypeOK, Ram, FrameTypes
<1>2. /\ c.PC = PC /\ c.SP = SP /\ Accumulator(c) = A /\ c.registers[2] = X
      /\ d.PC = PC' /\ d.SP = SP' /\ Accumulator(d) = A' /\ d.registers[2] = X'
  BY DEF Running
<1>3. PC \in PrgCode
  BY <1>2, SMT DEF SumMain, PrgCode
<1>4. ASSUME frames' = frames, SumMain(d, ram'), ram' = ram
      PROVE  \E k \in 0 .. 2 : Advance(k, d)
  <2>1. StepTo(0)
    BY <1>1, <1>4, Stays DEF Writes
  <2> QED
    BY <1>4, <2>1 DEF Advance, SumAt
<1>5. CASE PC = \h8000
  <2>1. PC' = \h8002 /\ X' = \hff /\ UNCHANGED <<ram, frames>>
    BY <1>1, <1>3, <1>5, SumCode, LoadEffects, SMT
  <2>2. SumMain(d, ram')
    BY <1>2, <1>5, <2>1, SMT DEF SumMain
  <2> QED
    BY <1>4, <2>1, <2>2
<1>6. CASE PC = \h8002
  <2>1. PC' = \h8003 /\ SP' = X /\ UNCHANGED <<ram, frames>>
    BY <1>1, <1>3, <1>6, SumCode, LoadEffects, SMT
  <2>2. SumMain(d, ram')
    BY <1>2, <1>6, <2>1, SMT DEF SumMain
  <2> QED
    BY <1>4, <2>1, <2>2
<1>7. CASE PC = \h8003
  <2>1. PC' = \h8005 /\ A' = \hc8 /\ UNCHANGED <<SP, ram, frames>>
    BY <1>1, <1>3, <1>7, SumCode, LoadEffects, SMT
  <2>2. SumMain(d, ram')
    BY <1>2, <1>7, <2>1, SMT DEF SumMain
  <2> QED
    BY <1>4, <2>1, <2>2
<1>8. CASE PC = \h8005
  <2>1. Get8(PC) = \h20 /\ Get16(PC + 1) = \h8042 /\ PC + 3 = \h8008 /\ SP = \hff /\ A = \hc8
    BY <1>2, <1>8, SumCode, SMT DEF SumMain
  <2>2. PC' = \h8042 /\ SP' = U8(\hff - 2) /\ A' = \hc8 /\ Opened("call", \h8008)
        /\ \E v, w : ram' = Push2(v, w)
    BY <1>1, <1>3, <2>1, CallEffects, SMT
  <2>3. U8(\hff - 2) = \hfd
    BY SMT DEF U8
  <2>4. StepTo(1) /\ ram'[\h14] = ram[\h14]
    BY <1>1, <2>2, Goes, SMT
  <2>5. Entered(frames'[1], "call", \h8008, \hff)
    BY <2>1, <2>2, SMT DEF Opened, Entered
  <2>6. SumOuter(d, ram')
    BY <1>2, <1>8, <2>2, <2>3, <2>4, SMT DEF SumMain, SumOuter
  <2> QED
    BY <2>4, <2>5, <2>6, SMT DEF Advance, SumAt
<1>9. CASE PC = \h8008
  <2>1. Get8(PC) = \h00 /\ PC + 2 = \h800a /\ SP = \hff /\ A = \hc8
    BY <1>2, <1>9, SumCode, SMT DEF SumMain
  <2>2. PC' = \ha000 /\ SP' = U8(\hff - 3) /\ A' = \hc8 /\ Opened("break", \h800a)
        /\ \E v, w, x : ram' = Push3(v, w, x)
    BY <1>1, <1>3, <2>1, CallEffects, SMT
  <2>3. U8(\hff - 3) = \hfc
    BY SMT DEF U8
  <2>4. StepTo(1) /\ \A a \in {\h12, \h13, \h14} : ram'[a] = ram[a]
    BY <1>1, <2>2, Goes, SMT
  <2>5. Entered(frames'[1], "break", \h800a, \hff)
    BY <2>1, <2>2, SMT DEF Opened, Entered
  <2>6. SumBreak(d, ram')
    BY <1>2, <1>9, <2>2, <2>3, <2>4, SMT DEF SumMain, SumBreak
  <2> QED
    BY <2>4, <2>5, <2>6, SMT DEF Advance, SumAt
<1>10. CASE PC = \h800a
  <2>1. PC' = \h800a /\ UNCHANGED <<A, SP, ram, frames>>
    BY <1>1, <1>3, <1>10, SumCode, CallEffects, SMT
  <2>2. SumMain(d, ram')
    BY <1>2, <1>10, <2>1, SMT DEF SumMain
  <2> QED
    BY <1>4, <2>1, <2>2
<1> QED
  BY <1>2, <1>5, <1>6, <1>7, <1>8, <1>9, <1>10, SMT DEF SumMain

LEMMA SumOuterStep ==
  ASSUME SInv, Holds(rom, SumProgram),
         Instruction, Effect(entry.op), Len(frames) = 1,
         Entered(frames[1], "call", \h8008, \hff),
         NEW c, Running(c), SumOuter(c, ram), NEW d, Running(d)'
  PROVE  \E k \in 0 .. 2 : Advance(k, d)
<1>1. IInv /\ frames \in Seq(FrameType) /\ DOMAIN ram = RamIndex
      /\ \h12 \in RamIndex /\ \h13 \in RamIndex /\ \h14 \in RamIndex /\ \h1fc \in RamIndex
      /\ \h12 \in Byte /\ \h13 \in Byte /\ \h64 \in Byte /\ 2 \in Byte /\ \h69 \in Byte
  <2>1. IInv /\ frames \in Seq(FrameType) /\ DOMAIN ram = RamIndex
    BY DEF SInv, IInv, TypeOK, Ram, FrameTypes
  <2>2. /\ \h12 \in RamIndex /\ \h13 \in RamIndex /\ \h14 \in RamIndex /\ \h1fc \in RamIndex
    BY Indices, SMT
  <2>3. /\ \h12 \in Byte /\ \h13 \in Byte /\ \h64 \in Byte /\ 2 \in Byte /\ \h69 \in Byte
    BY Bounds, SMT
  <2> QED
    BY <2>1, <2>2, <2>3
<1>2. /\ c.PC = PC /\ c.SP = SP /\ Accumulator(c) = A /\ ("C" \in c.P <=> "C" \in P)
      /\ d.PC = PC' /\ d.SP = SP' /\ Accumulator(d) = A' /\ ("C" \in d.P <=> "C" \in P')
  BY DEF Running
<1>3. PC \in PrgCode
  BY <1>2, SMT DEF SumOuter, PrgCode
<1>4. ASSUME frames' = frames, SumOuter(d, ram'), Writes
      PROVE  \E k \in 0 .. 2 : Advance(k, d)
  <2>1. StepTo(1)
    BY <1>1, <1>4, Stays
  <2> QED
    BY <1>4, <2>1 DEF Advance, SumAt
<1>6. /\ StackAt(\hfd) = \h1fd /\ StackAt(\hfc) = \h1fc /\ StackAt(\hfb + 1) = \h1fc
      /\ StackAt(\hfb) = \h1fb /\ StackAt(\hfb - 1) = \h1fa /\ StackAt(\hfb - 2) = \h1f9
      /\ U8(\hff - 2) = \hfd /\ U8(\hfd - 1) = \hfc /\ U8(\hfc - 1) = \hfb
      /\ U8(\hfb - 2) = \hf9 /\ U8(\hfb + 1) = \hfc /\ U8(\hfc + 1) = \hfd
  BY SMT DEF StackAt, U8
<1>7. CASE PC = \h8042
  <2>1. SP = \hfd /\ A = \hc8 /\ Get8(PC) = \h08
    BY <1>2, <1>7, SumCode, SMT DEF SumOuter
  <2>2. /\ PC' = \h8043 /\ SP' = U8(SP - 1) /\ UNCHANGED <<A, frames>>
        /\ \E v : Stored(StackAt(SP), v)
    BY <1>1, <1>3, <1>7, <2>1, StackEffects, SMT
  <2>3. ram'[\h14] = ram[\h14]
    <3>1. PICK v : Stored(\h1fd, v)
      BY <1>6, <2>1, <2>2
    <3>2. \h1fd \in RamIndex /\ \h14 \in RamIndex \ {\h1fd}
      BY Indices, SMT
    <3> QED
      BY <1>1, <3>1, <3>2, WritesOne
  <2>4. SumOuter(d, ram')
    BY <1>2, <1>6, <1>7, <2>1, <2>2, <2>3, SMT DEF SumOuter
  <2>5. Writes
    BY <2>2, WritesOne
  <2> QED
    BY <1>4, <2>2, <2>4, <2>5
<1>8. CASE PC = \h8043
  <2>1. SP = \hfc /\ A = \hc8
    BY <1>2, <1>8, SMT DEF SumOuter
  <2>2. /\ PC' = \h8044 /\ SP' = U8(SP - 1) /\ UNCHANGED <<A, frames>>
        /\ Stored(StackAt(SP), A)
    BY <1>1, <1>3, <1>8, SumCode, StackEffects, SMT
  <2>3. SumOuter(d, ram')
    BY <1>1, <1>2, <1>6, <1>8, <2>1, <2>2, WritesOne, SMT DEF SumOuter
  <2>4. Writes
    BY <2>2, WritesOne
  <2> QED
    BY <1>4, <2>2, <2>3, <2>4
<1>9. CASE PC = \h8044
  <2>1. Get8(PC) = \h18 /\ Get8(PC + 1) = \h69
    BY <1>9, SumCode, SMT
  <2>2. PC' = PC + 1 /\ "C" \notin P' /\ UNCHANGED <<A, SP, ram, frames>>
    BY <1>1, <1>3, <2>1, ArithmeticEffects, SMT
  <2>3. SumOuter(d, ram')
    BY <1>2, <1>9, <2>2, SMT DEF SumOuter
  <2> QED
    BY <1>4, <2>2, <2>3 DEF Writes
<1>10. CASE PC = \h8045
  <2>1. Get8(PC) = \h69 /\ Get8(PC + 1) = \h64 /\ A = \hc8 /\ Carry(P) = 0
    BY <1>2, <1>10, SumCode, SMT DEF SumOuter, Carry
  <2>2. /\ PC' = PC + 2 /\ A' = U8(U8(\hc8 + \h64) + 0)
        /\ ("C" \in P' <=> A' <= A /\ \h64 > 0) /\ UNCHANGED <<SP, ram, frames>>
    BY <1>1, <1>3, <2>1, ArithmeticEffects, SMT
  <2>3. U8(U8(\hc8 + \h64) + 0) = \h2c
    BY SMT DEF U8
  <2>4. SumOuter(d, ram')
    BY <1>2, <1>10, <2>1, <2>2, <2>3, SMT DEF SumOuter
  <2> QED
    BY <1>4, <2>2, <2>4 DEF Writes
<1>11. CASE PC = \h8047
  <2>1. Get8(PC) = \h85 /\ Get8(PC + 1) = \h12
    BY <1>11, SumCode, SMT
  <2>2. PC' = PC + 2 /\ Stored(\h12, A) /\ UNCHANGED <<A, P, SP, frames>>
    BY <1>1, <1>3, <2>1, ArithmeticEffects, SMT
  <2>3. SumOuter(d, ram')
    BY <1>1, <1>2, <1>11, <2>2, WritesOne, SMT DEF SumOuter
  <2>4. Writes
    BY <2>2, WritesOne
  <2> QED
    BY <1>4, <2>2, <2>3, <2>4
<1>12. CASE PC = \h8049
  <2>1. PC' = \h804b /\ A' = 1 /\ ("C" \in P' <=> "C" \in P) /\ UNCHANGED <<SP, ram, frames>>
    BY <1>1, <1>3, <1>12, SumCode, LoadEffects, SMT
  <2>2. SumOuter(d, ram')
    BY <1>2, <1>12, <2>1, SMT DEF SumOuter
  <2> QED
    BY <1>4, <2>1, <2>2 DEF Writes
<1>13. CASE PC = \h804b
  <2>1. Get8(PC) = \h69 /\ Get8(PC + 1) = 2 /\ A = 1 /\ Carry(P) = 1
    BY <1>2, <1>13, SumCode, SMT DEF SumOuter, Carry
  <2>2. /\ PC' = PC + 2 /\ A' = U8(U8(1 + 2) + 1) /\ UNCHANGED <<SP, ram, frames>>
    BY <1>1, <1>3, <2>1, ArithmeticEffects, SMT
  <2>3. U8(U8(1 + 2) + 1) = 4
    BY SMT DEF U8
  <2>4. SumOuter(d, ram')
    BY <1>2, <1>13, <2>1, <2>2, <2>3, SMT DEF SumOuter
  <2> QED
    BY <1>4, <2>2, <2>4 DEF Writes
<1>14. CASE PC = \h804d
  <2>1. Get8(PC) = \h85 /\ Get8(PC + 1) = \h13
    BY <1>14, SumCode, SMT
  <2>2. PC' = PC + 2 /\ Stored(\h13, A) /\ UNCHANGED <<A, P, SP, frames>>
    BY <1>1, <1>3, <2>1, ArithmeticEffects, SMT
  <2>3. SumOuter(d, ram')
    BY <1>1, <1>2, <1>14, <2>2, WritesOne, SMT DEF SumOuter
  <2>4. Writes
    BY <2>2, WritesOne
  <2> QED
    BY <1>4, <2>2, <2>3, <2>4
<1>15. CASE PC = \h804f
  <2>1. Get8(PC) = \h20 /\ Get16(PC + 1) = \h8062 /\ PC + 3 = \h8052 /\ SP = \hfb
    BY <1>2, <1>15, SumCode, SMT DEF SumOuter
  <2>2. PC' = \h8062 /\ SP' = U8(\hfb - 2) /\ Opened("call", \h8052)
        /\ \E v, w : ram' = Push2(v, w)
    BY <1>1, <1>3, <2>1, CallEffects, SMT
  <2>3. StepTo(2) /\ \A a \in {\h12, \h13, \h14} : ram'[a] = ram[a]
    BY <1>1, <2>2, Goes, SMT
  <2>4. ram'[\h1fc] = ram[\h1fc]
    <3>1. \A a \in RamIndex :
            a \notin {StackAt(SP), StackAt(SP - 1), StackAt(SP - 2)} => ram'[a] = ram[a]
      BY <1>1, <2>2, Goes, SMT
    <3> QED
      BY <1>1, <1>6, <2>1, <3>1, SMT
  <2>5. Entered(frames'[1], "call", \h8008, \hff) /\ Entered(frames'[2], "call", \h8052, \hfb)
    BY <2>1, <2>2, SMT DEF Opened, Entered
  <2>6. SumInner(d, ram')
    BY <1>2, <1>6, <1>15, <2>2, <2>3, <2>4, SMT DEF SumOuter, SumInner
  <2> QED
    BY <2>3, <2>5, <2>6, SMT DEF Advance, SumAt
<1>16. CASE PC = \h8052
  <2>1. SP = \hfb
    BY <1>2, <1>16, SMT DEF SumOuter
  <2>2. /\ PC' = \h8053 /\ SP' = U8(\hfb + 1) /\ A' = ram[StackAt(\hfb + 1)]
        /\ UNCHANGED <<ram, frames>>
    BY <1>1, <1>3, <1>16, <2>1, SumCode, StackEffects, SMT
  <2>3. SumOuter(d, ram')
    BY <1>2, <1>6, <1>16, <2>1, <2>2, SMT DEF SumOuter
  <2> QED
    BY <1>4, <2>2, <2>3 DEF Writes
<1>17. CASE PC = \h8053
  <2>1. SP = \hfc
    BY <1>2, <1>17, SMT DEF SumOuter
  <2>2. PC' = \h8054 /\ SP' = U8(\hfc + 1) /\ UNCHANGED <<A, ram, frames>>
    BY <1>1, <1>3, <1>17, <2>1, SumCode, StackEffects, SMT
  <2>3. SumOuter(d, ram')
    BY <1>2, <1>6, <1>17, <2>1, <2>2, SMT DEF SumOuter
  <2> QED
    BY <1>4, <2>2, <2>3 DEF Writes
<1>18. CASE PC = \h8054
  <2>1. SP = U8(\hff - 2) /\ Get8(PC) = \h60
    BY <1>2, <1>6, <1>18, SumCode, SMT DEF SumOuter
  <2>2. /\ PC' = \h8008 /\ SP' = \hff /\ UNCHANGED <<A, ram>> /\ Returned
        /\ Len(frames') = 0
    BY <1>3, <2>1, Returns, SMT
  <2>3. StepTo(0)
    BY <2>2 DEF StepTo
  <2>4. SumMain(d, ram')
    BY <1>2, <1>18, <2>2, SMT DEF SumOuter, SumMain
  <2> QED
    BY <2>3, <2>4, SMT DEF Advance, SumAt
<1> QED
  BY <1>2, <1>7, <1>8, <1>9, <1>10, <1>11, <1>12, <1>13, <1>14, <1>15, <1>16, <1>17, <1>18,
     SMT DEF SumOuter

LEMMA SumInnerStep ==
  ASSUME SInv, Holds(rom, SumProgram),
         Instruction, Effect(entry.op), Len(frames) = 2,
         Entered(frames[1], "call", \h8008, \hff), Entered(frames[2], "call", \h8052, \hfb),
         NEW c, Running(c), SumInner(c, ram), NEW d, Running(d)'
  PROVE  \E k \in 0 .. 2 : Advance(k, d)
<1>1. IInv /\ frames \in Seq(FrameType) /\ DOMAIN ram = RamIndex
  BY DEF SInv, IInv, TypeOK, Ram, FrameTypes
<1>2. /\ \h12 \in RamIndex /\ \h13 \in RamIndex /\ \h14 \in RamIndex /\ \h1fc \in RamIndex
  BY Indices, SMT
<1>3. \h12 \in Byte /\ \h13 \in Byte
  BY Bounds, SMT
<1>4. /\ c.PC = PC /\ c.SP = SP /\ ("C" \in c.P <=> "C" \in P)
      /\ d.PC = PC' /\ d.SP = SP' /\ Accumulator(d) = A' /\ ("C" \in d.P <=> "C" \in P')
  BY DEF Running
<1>5. PC \in PrgCode
  BY <1>4, SMT DEF SumInner, PrgCode
<1>6. ASSUME frames' = frames, SumInner(d, ram'), Writes
      PROVE  \E k \in 0 .. 2 : Advance(k, d)
  <2>1. StepTo(2)
    BY <1>1, <1>6, Stays
  <2> QED
    BY <1>6, <2>1 DEF Advance, SumAt
<1>7. CASE PC = \h8062
  <2>1. Get8(PC) = \h06 /\ Get8(PC + 1) = \h12 /\ ram[\h12] = \h2c
    BY <1>4, <1>7, SumCode, SMT DEF SumInner
  <2>2. /\ PC' = PC + 2 /\ Stored(\h12, U8(2 * ram[\h12]))
        /\ ("C" \in P' <=> ram[\h12] >= 128) /\ UNCHANGED <<A, SP, frames>>
    BY <1>1, <1>3, <1>5, <2>1, ArithmeticEffects, SMT
  <2>3. U8(2 * ram[\h12]) = \h58 /\ "C" \notin P'
    BY <2>1, <2>2, SMT DEF U8
  <2>4. SumInner(d, ram')
    BY <1>1, <1>2, <1>4, <1>7, <2>1, <2>2, <2>3, WritesOne, SMT DEF SumInner
  <2>5. Writes
    BY <2>2, WritesOne
  <2> QED
    BY <1>6, <2>2, <2>4, <2>5
<1>8. CASE PC = \h8064
  <2>1. Get8(PC) = \h26 /\ Get8(PC + 1) = \h13 /\ ram[\h13] = 4 /\ Carry(P) = 0
    BY <1>4, <1>8, SumCode, SMT DEF SumInner, Carry
  <2>2. /\ PC' = PC + 2 /\ Stored(\h13, U8(2 * ram[\h13]) + Carry(P))
        /\ UNCHANGED <<A, SP, frames>>
    BY <1>1, <1>3, <1>5, <2>1, ArithmeticEffects, SMT
  <2>3. U8(2 * ram[\h13]) + Carry(P) = \h08
    BY <2>1, SMT DEF U8
  <2>4. SumInner(d, ram')
    BY <1>1, <1>2, <1>4, <1>8, <2>1, <2>2, <2>3, WritesOne, SMT DEF SumInner
  <2>5. Writes
    BY <2>2, WritesOne
  <2> QED
    BY <1>6, <2>2, <2>4, <2>5
<1>9. CASE PC = \h8066
  <2>1. U8(\hfb - 2) = \hf9
    BY SMT DEF U8
  <2>2. SP = U8(\hfb - 2) /\ Get8(PC) = \h60
    BY <1>4, <1>9, <2>1, SumCode, SMT DEF SumInner
  <2>3. /\ PC' = \h8052 /\ SP' = \hfb /\ UNCHANGED <<A, ram>> /\ Returned
        /\ Len(frames') = Len(frames) - 1
    BY <1>5, <2>2, Returns, SMT
  <2>4. frames'[1] = frames[1]
    BY <1>5, <2>2, Returns, SMT
  <2>5. StepTo(1)
    BY <2>3 DEF StepTo
  <2>6. SumOuter(d, ram')
    BY <1>4, <1>9, <2>3, SMT DEF SumInner, SumOuter
  <2> QED
    BY <2>4, <2>5, <2>6, SMT DEF Advance, SumAt
<1> QED
  BY <1>4, <1>7, <1>8, <1>9, SMT DEF SumInner

(* The handler of its BRK.                                                 *)
LEMMA BreakCode ==
  ASSUME NEW segments, BreakHandler \in segments, Holds(rom, segments)
  PROVE  Get8(\ha000) = \he6 /\ Get8(\ha001) = \h14 /\ Get8(\ha002) = \h40
<1> DEFINE bytes == <<\he6, \h14, \h40>>
<1>1. Segment(\ha000, bytes) \in segments
  BY SMT DEF BreakHandler
<1>2. InPrg(\ha000, bytes)
  BY SMT DEF InPrg
<1>3. ReadAt(\ha000, bytes)
  <2> HIDE DEF bytes
  <2> QED
    BY <1>1, <1>2, SegmentCode, SMT
<1> QED
  BY <1>3, SMT DEF ReadAt

LEMMA SumBreakStep ==
  ASSUME SInv, Holds(rom, SumProgram),
         Instruction, Effect(entry.op), Len(frames) = 1,
         Entered(frames[1], "break", \h800a, \hff),
         NEW c, Running(c), SumBreak(c, ram), NEW d, Running(d)'
  PROVE  \E k \in 0 .. 2 : Advance(k, d)
<1>1. IInv /\ frames \in Seq(FrameType) /\ DOMAIN ram = RamIndex
  BY DEF SInv, IInv, TypeOK, Ram, FrameTypes
<1>2. \h12 \in RamIndex /\ \h13 \in RamIndex /\ \h14 \in RamIndex
  BY Indices, SMT
<1>3. \h14 \in Byte
  BY Bounds, SMT
<1>4. /\ c.PC = PC /\ c.SP = SP /\ Accumulator(c) = A
      /\ d.PC = PC' /\ d.SP = SP' /\ Accumulator(d) = A'
  BY DEF Running
<1>5. PC \in PrgCode
  BY <1>4, SMT DEF SumBreak, PrgCode
<1>6. Get8(\ha000) = \he6 /\ Get8(\ha001) = \h14 /\ Get8(\ha002) = \h40
  <2>1. BreakHandler \in SumProgram
    BY SMT DEF SumProgram, Interrupts
  <2> QED
    BY <2>1, BreakCode, SMT
<1>7. CASE PC = \ha000
  <2>1. Get8(PC) = \he6 /\ Get8(PC + 1) = \h14 /\ ram[\h14] = 0
    BY <1>4, <1>6, <1>7, SMT DEF SumBreak
  <2>2. PC' = PC + 2 /\ Stored(\h14, U8(ram[\h14] + 1)) /\ UNCHANGED <<A, SP, frames>>
    BY <1>1, <1>3, <1>5, <2>1, ArithmeticEffects, SMT
  <2>3. U8(ram[\h14] + 1) = 1
    BY <2>1, SMT DEF U8
  <2>4. SumBreak(d, ram')
    BY <1>1, <1>2, <1>4, <1>7, <2>2, <2>3, WritesOne, SMT DEF SumBreak
  <2>5. Writes
    BY <2>2, WritesOne
  <2>6. StepTo(1)
    BY <1>1, <2>2, <2>5, Stays
  <2> QED
    BY <2>2, <2>4, <2>6, SMT DEF Advance, SumAt
<1>8. CASE PC = \ha002
  <2>1. U8(\hff - 3) = \hfc
    BY SMT DEF U8
  <2>2. SP = U8(\hff - 3) /\ Get8(PC) = \h40
    BY <1>4, <1>6, <1>8, <2>1, SMT DEF SumBreak
  <2>3. /\ PC' = \h800a /\ SP' = \hff /\ UNCHANGED <<A, ram>> /\ Returned
        /\ Len(frames') = 0
    BY <1>5, <2>2, Returns, SMT
  <2>4. StepTo(0)
    BY <2>3 DEF StepTo
  <2>5. SumMain(d, ram')
    BY <1>4, <1>8, <2>3, SMT DEF SumBreak, SumMain
  <2> QED
    BY <2>4, <2>5, SMT DEF Advance, SumAt
<1> QED
  BY <1>4, <1>7, <1>8, SMT DEF SumBreak

LEMMA SumStep ==
  ASSUME SInv, Holds(rom, SumProgram), Instruction, Effect(entry.op),
         NEW n \in 0 .. 2, n = Len(frames), NEW c, Running(c), SumAt(n, c, frames, ram),
         NEW d, Running(d)'
  PROVE  \E k \in 0 .. 2 : Advance(k, d)
<1>1. Get16(IRQ_VECTOR) = \ha000
  <2>1. Vectors(\h9000, \h8000, \ha000) \in SumProgram
    BY SMT DEF SumProgram, Interrupts
  <2> QED
    BY <2>1, Vectored, SMT
<1>2. CASE n = 0 /\ SumMain(c, ram)
  BY <1>1, <1>2, SumMainStep, SMT
<1>3. CASE n = 1 /\ Entered(frames[1], "call", \h8008, \hff) /\ SumOuter(c, ram)
  BY <1>3, SumOuterStep, SMT
<1>4. CASE /\ n = 2 /\ SumInner(c, ram)
           /\ Entered(frames[1], "call", \h8008, \hff)
           /\ Entered(frames[2], "call", \h8052, \hfb)
  BY <1>4, SumInnerStep, SMT
<1>5. CASE n = 1 /\ Entered(frames[1], "break", \h800a, \hff) /\ SumBreak(c, ram)
  BY <1>5, SumBreakStep, SMT
<1> QED
  BY <1>2, <1>3, <1>4, <1>5, SMT DEF SumAt

-----------------------------------------------------------------------------
(* The code of the second.                                                 *)
LEMMA WrapCode ==
  ASSUME Holds(rom, WrapProgram)
  PROVE  /\ Get8(\h8000) = \ha2 /\ Get8(\h8001) = 2 /\ Get8(\h8002) = \h9a
         /\ Get8(\h8003) = \ha9 /\ Get8(\h8004) = \h5a
         /\ Get8(\h8005) = \h08 /\ Get8(\h8006) = \h48
         /\ Get8(\h8007) = \h20 /\ Get16(\h8008) = \h8042
         /\ Get8(\h800a) = \h68 /\ Get8(\h800b) = \h28
         /\ Get8(\h800c) = \h48 /\ Get8(\h800d) = \h28
         /\ Get8(\h800e) = \h4c /\ Get16(\h800f) = \h800e
         /\ Get8(\h8042) = \h48 /\ Get8(\h8043) = \h20 /\ Get16(\h8044) = \h8062
         /\ Get8(\h8046) = \h68 /\ Get8(\h8047) = \h60
         /\ Get8(\h8062) = \ha9 /\ Get8(\h8063) = 0 /\ Get8(\h8064) = \h60
<1> DEFINE main  == <<\ha2, \h02, \h9a, \ha9, \h5a, \h08, \h48, \h20, \h42, \h80,
                      \h68, \h28, \h48, \h28, \h4c, \h0e, \h80>>
           outer == <<\h48, \h20, \h62, \h80, \h68, \h60>>
           inner == <<\ha9, \h00, \h60>>
<1>1. /\ Segment(\h8000, main) \in WrapProgram /\ Segment(\h8042, outer) \in WrapProgram
      /\ Segment(\h8062, inner) \in WrapProgram
  BY SMT DEF WrapProgram
<1>2. InPrg(\h8000, main) /\ InPrg(\h8042, outer) /\ InPrg(\h8062, inner)
  BY SMT DEF InPrg
<1>3. ReadAt(\h8000, main) /\ ReadAt(\h8042, outer) /\ ReadAt(\h8062, inner)
  <2> HIDE DEF main, outer, inner
  <2> QED
    BY <1>1, <1>2, SegmentCode, SMT
<1>4. /\ Get8(\h8000) = \ha2 /\ Get8(\h8001) = 2 /\ Get8(\h8002) = \h9a
      /\ Get8(\h8003) = \ha9 /\ Get8(\h8004) = \h5a
      /\ Get8(\h8005) = \h08 /\ Get8(\h8006) = \h48
      /\ Get8(\h8007) = \h20 /\ Get16(\h8008) = u8_to_u16(\h42, \h80)
      /\ Get8(\h800a) = \h68 /\ Get8(\h800b) = \h28
      /\ Get8(\h800c) = \h48 /\ Get8(\h800d) = \h28
      /\ Get8(\h800e) = \h4c /\ Get16(\h800f) = u8_to_u16(\h0e, \h80)
  BY <1>3, SMT DEF ReadAt
<1>5. /\ Get8(\h8042) = \h48 /\ Get8(\h8043) = \h20
      /\ Get16(\h8044) = u8_to_u16(\h62, \h80)
      /\ Get8(\h8046) = \h68 /\ Get8(\h8047) = \h60
      /\ Get8(\h8062) = \ha9 /\ Get8(\h8063) = 0 /\ Get8(\h8064) = \h60
  BY <1>3, SMT DEF ReadAt
<1>6. /\ u8_to_u16(\h42, \h80) = \h8042 /\ u8_to_u16(\h0e, \h80) = \h800e
      /\ u8_to_u16(\h62, \h80) = \h8062
  BY SMT DEF u8_to_u16, U16
<1> HIDE DEF main, outer, inner
<1> QED
  BY <1>4, <1>5, <1>6, SMT

(* Its steps.                                                              *)
Forward(k, d) == StepTo(k) /\ WrapAt(k, d, frames', ram')

LEMMA WrapStack ==
  /\ StackAt(0) = \h100 /\ StackAt(0 - 1) = \h1ff /\ StackAt(0 - 2) = \h1fe
  /\ StackAt(0 + 1) = \h101 /\ StackAt(1) = \h101 /\ StackAt(2) = \h102
  /\ StackAt(\hfe) = \h1fe
  /\ StackAt(\hfd) = \h1fd /\ StackAt(\hfd - 1) = \h1fc /\ StackAt(\hfd - 2) = \h1fb
  /\ U8(0 - 2) = \hfe /\ U8(0 + 1) = 1 /\ U8(1 - 1) = 0 /\ U8(1 + 1) = 2 /\ U8(2 - 1) = 1
  /\ U8(\hfe - 1) = \hfd /\ U8(\hfd - 2) = \hfb /\ U8(\hfd + 1) = \hfe
<1>1. /\ 0 - 1 \in Int /\ -256 <= 0 - 1 /\ 0 - 1 < 0 /\ 0 - 1 + 256 = 255
      /\ 0 - 2 \in Int /\ -256 <= 0 - 2 /\ 0 - 2 < 0 /\ 0 - 2 + 256 = 254
  OBVIOUS
<1>2. U8(0 - 1) = 255 /\ U8(0 - 2) = 254
  BY <1>1, Wraps
<1>3. StackAt(0 - 1) = \h1ff /\ StackAt(0 - 2) = \h1fe
  BY <1>2, SMT DEF StackAt
<1>4. /\ StackAt(0) = \h100 /\ StackAt(0 + 1) = \h101 /\ StackAt(1) = \h101
      /\ StackAt(2) = \h102 /\ StackAt(\hfe) = \h1fe
      /\ StackAt(\hfd) = \h1fd /\ StackAt(\hfd - 1) = \h1fc /\ StackAt(\hfd - 2) = \h1fb
      /\ U8(0 + 1) = 1 /\ U8(1 - 1) = 0 /\ U8(1 + 1) = 2 /\ U8(2 - 1) = 1
      /\ U8(\hfe - 1) = \hfd /\ U8(\hfd - 2) = \hfb /\ U8(\hfd + 1) = \hfe
  BY SMT DEF StackAt, U8
<1> QED
  BY <1>2, <1>3, <1>4, SMT

LEMMA WrapMainStep ==
  ASSUME SInv, Holds(rom, WrapProgram),
         Instruction, Effect(entry.op), Len(frames) = 0,
         NEW c, Running(c), WrapMain(c, ram), NEW d, Running(d)'
  PROVE  \E k \in 0 .. 2 : Forward(k, d)
<1>1. IInv /\ frames \in Seq(FrameType) /\ DOMAIN ram = RamIndex
  BY DEF SInv, IInv, TypeOK, Ram, FrameTypes
<1>2. \h101 \in RamIndex
  BY Indices, SMT
<1>3. /\ c.PC = PC /\ c.SP = SP /\ Accumulator(c) = A /\ c.registers[2] = X
      /\ d.PC = PC' /\ d.SP = SP' /\ Accumulator(d) = A' /\ d.registers[2] = X'
  BY DEF Running
<1>4. PC \in PrgCode
  BY <1>3, SMT DEF WrapMain, PrgCode
<1>5. ASSUME frames' = frames, WrapMain(d, ram'), Writes
      PROVE  \E k \in 0 .. 2 : Forward(k, d)
  <2>1. StepTo(0)
    BY <1>1, <1>5, Stays
  <2> QED
    BY <1>5, <2>1 DEF Forward, WrapAt
<1>6. CASE PC = \h8000
  <2>1. PC' = \h8002 /\ X' = 2 /\ UNCHANGED <<ram, frames>>
    BY <1>1, <1>4, <1>6, WrapCode, LoadEffects, SMT
  <2>2. WrapMain(d, ram')
    BY <1>3, <1>6, <2>1, SMT DEF WrapMain
  <2> QED
    BY <1>5, <2>1, <2>2 DEF Writes
<1>7. CASE PC = \h8002
  <2>1. PC' = \h8003 /\ SP' = X /\ UNCHANGED <<ram, frames>>
    BY <1>1, <1>4, <1>7, WrapCode, LoadEffects, SMT
  <2>2. WrapMain(d, ram')
    BY <1>3, <1>7, <2>1, SMT DEF WrapMain
  <2> QED
    BY <1>5, <2>1, <2>2 DEF Writes
<1>8. CASE PC = \h8003
  <2>1. PC' = \h8005 /\ A' = \h5a /\ UNCHANGED <<SP, ram, frames>>
    BY <1>1, <1>4, <1>8, WrapCode, LoadEffects, SMT
  <2>2. WrapMain(d, ram')
    BY <1>3, <1>8, <2>1, SMT DEF WrapMain
  <2> QED
    BY <1>5, <2>1, <2>2 DEF Writes
<1>9. CASE PC = \h8005
  <2>1. Get8(PC) = \h08 /\ SP = 2 /\ A = \h5a
    BY <1>3, <1>9, WrapCode, SMT DEF WrapMain
  <2>2. /\ PC' = \h8006 /\ SP' = U8(2 - 1) /\ UNCHANGED <<A, frames>>
        /\ \E v : Stored(StackAt(SP), v)
    BY <1>1, <1>4, <1>9, <2>1, StackEffects, SMT
  <2>3. WrapMain(d, ram')
    BY <1>3, <2>1, <2>2, WrapStack, SMT DEF WrapMain
  <2>4. Writes
    BY <2>2, WritesOne
  <2> QED
    BY <1>5, <2>2, <2>3, <2>4
<1>10. CASE PC = \h8006
  <2>1. Get8(PC) = \h48 /\ SP = 1 /\ A = \h5a
    BY <1>3, <1>10, WrapCode, SMT DEF WrapMain
  <2>2. /\ PC' = \h8007 /\ SP' = U8(1 - 1) /\ UNCHANGED <<A, frames>>
        /\ Stored(StackAt(SP), A)
    BY <1>1, <1>4, <1>10, <2>1, StackEffects, SMT
  <2>3. ram'[\h101] = \h5a
    BY <1>1, <1>2, <2>1, <2>2, WrapStack, WritesOne, SMT
  <2>4. WrapMain(d, ram')
    BY <1>3, <2>1, <2>2, <2>3, WrapStack, SMT DEF WrapMain
  <2>5. Writes
    BY <2>2, WritesOne
  <2> QED
    BY <1>5, <2>2, <2>4, <2>5
<1>11. CASE PC = \h8007
  <2>1. Get8(PC) = \h20 /\ Get16(PC + 1) = \h8042 /\ PC + 3 = \h800a /\ SP = 0
    BY <1>3, <1>11, WrapCode, SMT DEF WrapMain
  <2>2. PC' = \h8042 /\ SP' = U8(0 - 2) /\ Opened("call", \h800a)
        /\ \E v, w : ram' = Push2(v, w)
    BY <1>1, <1>4, <2>1, CallEffects, SMT
  <2>3. /\ StepTo(1)
        /\ \A a \in RamIndex :
             a \notin {StackAt(SP), StackAt(SP - 1), StackAt(SP - 2)} => ram'[a] = ram[a]
    BY <1>1, <2>2, Goes, SMT
  <2>4. ram'[\h101] = ram[\h101]
    BY <1>2, <2>1, <2>3, WrapStack, SMT
  <2>5. Entered(frames'[1], "call", \h800a, 0)
    BY <2>1, <2>2, SMT DEF Opened, Entered
  <2>6. WrapOuter(d, ram')
    BY <1>3, <1>11, <2>2, <2>4, WrapStack, SMT DEF WrapMain, WrapOuter
  <2> QED
    BY <2>3, <2>5, <2>6, SMT DEF Forward, WrapAt
<1>12. CASE PC = \h800a
  <2>1. Get8(PC) = \h68 /\ SP = 0 /\ ram[\h101] = \h5a
    BY <1>3, <1>12, WrapCode, SMT DEF WrapMain
  <2>2. /\ PC' = \h800b /\ SP' = U8(0 + 1) /\ A' = ram[StackAt(0 + 1)]
        /\ UNCHANGED <<ram, frames>>
    BY <1>1, <1>4, <1>12, <2>1, StackEffects, SMT
  <2>3. WrapMain(d, ram')
    BY <1>3, <2>1, <2>2, WrapStack, SMT DEF WrapMain
  <2> QED
    BY <1>5, <2>2, <2>3 DEF Writes
<1>13. CASE PC = \h800b
  <2>1. Get8(PC) = \h28 /\ SP = 1 /\ A = \h5a
    BY <1>3, <1>13, WrapCode, SMT DEF WrapMain
  <2>2. PC' = \h800c /\ SP' = U8(1 + 1) /\ UNCHANGED <<A, ram, frames>>
    BY <1>1, <1>4, <1>13, <2>1, StackEffects, SMT
  <2>3. WrapMain(d, ram')
    BY <1>3, <2>1, <2>2, WrapStack, SMT DEF WrapMain
  <2> QED
    BY <1>5, <2>2, <2>3 DEF Writes
<1>14. CASE PC = \h800c
  <2>1. Get8(PC) = \h48 /\ SP = 2 /\ A = \h5a
    BY <1>3, <1>14, WrapCode, SMT DEF WrapMain
  <2>2. /\ PC' = \h800d /\ SP' = U8(2 - 1) /\ UNCHANGED <<A, frames>>
        /\ \E v : Stored(StackAt(SP), v)
    BY <1>1, <1>4, <1>14, <2>1, StackEffects, SMT
  <2>3. WrapMain(d, ram')
    BY <1>3, <2>1, <2>2, WrapStack, SMT DEF WrapMain
  <2>4. Writes
    BY <2>2, WritesOne
  <2> QED
    BY <1>5, <2>2, <2>3, <2>4
<1>15. CASE PC = \h800d
  <2>1. Get8(PC) = \h28 /\ SP = 1 /\ A = \h5a
    BY <1>3, <1>15, WrapCode, SMT DEF WrapMain
  <2>2. PC' = \h800e /\ SP' = U8(1 + 1) /\ UNCHANGED <<A, ram, frames>>
    BY <1>1, <1>4, <1>15, <2>1, StackEffects, SMT
  <2>3. WrapMain(d, ram')
    BY <1>3, <2>1, <2>2, WrapStack, SMT DEF WrapMain
  <2> QED
    BY <1>5, <2>2, <2>3 DEF Writes
<1>16. CASE PC = \h800e
  <2>1. PC' = \h800e /\ UNCHANGED <<A, SP, ram, frames>>
    BY <1>1, <1>4, <1>16, WrapCode, CallEffects, SMT
  <2>2. WrapMain(d, ram')
    BY <1>3, <1>16, <2>1, SMT DEF WrapMain
  <2> QED
    BY <1>5, <2>1, <2>2 DEF Writes
<1> QED
  BY <1>3, <1>6, <1>7, <1>8, <1>9, <1>10, <1>11, <1>12, <1>13, <1>14, <1>15, <1>16,
     SMT DEF WrapMain

LEMMA WrapOuterStep ==
  ASSUME SInv, Holds(rom, WrapProgram),
         Instruction, Effect(entry.op), Len(frames) = 1,
         Entered(frames[1], "call", \h800a, 0),
         NEW c, Running(c), WrapOuter(c, ram), NEW d, Running(d)'
  PROVE  \E k \in 0 .. 2 : Forward(k, d)
<1>1. IInv /\ frames \in Seq(FrameType) /\ DOMAIN ram = RamIndex
  BY DEF SInv, IInv, TypeOK, Ram, FrameTypes
<1>2. \h101 \in RamIndex /\ \h1fe \in RamIndex
  BY Indices, SMT
<1>3. c.PC = PC /\ c.SP = SP /\ d.PC = PC' /\ d.SP = SP'
  BY DEF Running
<1>4. PC \in PrgCode
  BY <1>3, SMT DEF WrapOuter, PrgCode
<1>5. ASSUME frames' = frames, WrapOuter(d, ram'), Writes
      PROVE  \E k \in 0 .. 2 : Forward(k, d)
  <2>1. StepTo(1)
    BY <1>1, <1>5, Stays
  <2> QED
    BY <1>5, <2>1 DEF Forward, WrapAt
<1>6. CASE PC = \h8042
  <2>1. Get8(PC) = \h48 /\ SP = \hfe /\ PC + 1 = \h8043
    BY <1>3, <1>6, WrapCode, SMT DEF WrapOuter
  <2>2. /\ PC' = PC + 1 /\ SP' = U8(\hfe - 1) /\ frames' = frames
        /\ Stored(StackAt(SP), A)
    BY <1>1, <1>4, <2>1, StackEffects, SMT
  <2>3. ram'[\h101] = ram[\h101]
    BY <1>1, <1>2, <2>1, <2>2, WrapStack, WritesOne, SMT
  <2>4. WrapOuter(d, ram')
    BY <1>3, <2>1, <2>2, <2>3, WrapStack, SMT DEF WrapOuter
  <2>5. Writes
    BY <2>2, WritesOne
  <2> QED
    BY <1>5, <2>2, <2>4, <2>5
<1>7. CASE PC = \h8043
  <2>1. Get8(PC) = \h20 /\ Get16(PC + 1) = \h8062 /\ PC + 3 = \h8046 /\ SP = \hfd
    BY <1>3, <1>7, WrapCode, SMT DEF WrapOuter
  <2>2. PC' = \h8062 /\ SP' = U8(\hfd - 2) /\ Opened("call", \h8046)
        /\ \E v, w : ram' = Push2(v, w)
    BY <1>1, <1>4, <2>1, CallEffects, SMT
  <2>3. /\ StepTo(2)
        /\ \A a \in RamIndex :
             a \notin {StackAt(SP), StackAt(SP - 1), StackAt(SP - 2)} => ram'[a] = ram[a]
    BY <1>1, <2>2, Goes, SMT
  <2>4. ram'[\h101] = ram[\h101]
    BY <1>2, <2>1, <2>3, WrapStack, SMT
  <2>5. Entered(frames'[1], "call", \h800a, 0) /\ Entered(frames'[2], "call", \h8046, \hfd)
    BY <2>1, <2>2, SMT DEF Opened, Entered
  <2>6. WrapInner(d, ram')
    BY <1>3, <1>7, <2>2, <2>4, WrapStack, SMT DEF WrapOuter, WrapInner
  <2> QED
    BY <2>3, <2>5, <2>6, SMT DEF Forward, WrapAt
<1>8. CASE PC = \h8046
  <2>1. Get8(PC) = \h68 /\ SP = \hfd /\ PC + 1 = \h8047
    BY <1>3, <1>8, WrapCode, SMT DEF WrapOuter
  <2>2. PC' = PC + 1 /\ SP' = U8(\hfd + 1) /\ UNCHANGED <<ram, frames>>
    BY <1>1, <1>4, <2>1, StackEffects, SMT
  <2>3. WrapOuter(d, ram')
    BY <1>3, <1>8, <2>1, <2>2, WrapStack, SMT DEF WrapOuter
  <2> QED
    BY <1>5, <2>2, <2>3 DEF Writes
<1>9. CASE PC = \h8047
  <2>1. SP = U8(0 - 2) /\ Get8(PC) = \h60
    BY <1>3, <1>9, WrapStack, WrapCode, SMT DEF WrapOuter
  <2>2. /\ PC' = \h800a /\ SP' = 0 /\ UNCHANGED <<A, ram>> /\ Returned
        /\ Len(frames') = Len(frames) - 1
    BY <1>4, <2>1, Returns, SMT
  <2>3. StepTo(0)
    BY <2>2 DEF StepTo
  <2>4. WrapMain(d, ram')
    BY <1>3, <1>9, <2>2, SMT DEF WrapOuter, WrapMain
  <2> QED
    BY <2>3, <2>4, SMT DEF Forward, WrapAt
<1> QED
  BY <1>3, <1>6, <1>7, <1>8, <1>9, SMT DEF WrapOuter

LEMMA WrapInnerStep ==
  ASSUME SInv, Holds(rom, WrapProgram),
         Instruction, Effect(entry.op), Len(frames) = 2,
         Entered(frames[1], "call", \h800a, 0), Entered(frames[2], "call", \h8046, \hfd),
         NEW c, Running(c), WrapInner(c, ram), NEW d, Running(d)'
  PROVE  \E k \in 0 .. 2 : Forward(k, d)
<1>1. IInv /\ frames \in Seq(FrameType)
  BY DEF SInv, FrameTypes
<1>2. c.PC = PC /\ c.SP = SP /\ d.PC = PC' /\ d.SP = SP'
  BY DEF Running
<1>3. PC \in PrgCode
  BY <1>2, SMT DEF WrapInner, PrgCode
<1>4. CASE PC = \h8062
  <2>1. PC' = \h8064 /\ UNCHANGED <<SP, ram, frames>>
    BY <1>1, <1>3, <1>4, WrapCode, LoadEffects, SMT
  <2>2. WrapInner(d, ram')
    BY <1>2, <1>4, <2>1, SMT DEF WrapInner
  <2>3. StepTo(2)
    BY <1>1, <2>1, Stays DEF Writes
  <2> QED
    BY <2>1, <2>2, <2>3 DEF Forward, WrapAt
<1>5. CASE PC = \h8064
  <2>1. SP = U8(\hfd - 2) /\ Get8(PC) = \h60
    BY <1>2, <1>5, WrapStack, WrapCode, SMT DEF WrapInner
  <2>2. 2 \in Nat /\ 2 >= 1 /\ 1 \in 1 .. 2 - 1
    OBVIOUS
  <2>3. /\ PC' = \h8046 /\ SP' = \hfd /\ UNCHANGED <<A, ram>> /\ Returned
        /\ Len(frames') = Len(frames) - 1
    BY <1>3, <2>1, <2>2, Returns, SMT
  <2>4. frames'[1] = frames[1]
    BY <1>3, <2>1, <2>2, Returns, SMT
  <2>5. StepTo(1)
    BY <2>3 DEF StepTo
  <2>6. WrapOuter(d, ram')
    BY <1>2, <1>5, <2>3, SMT DEF WrapInner, WrapOuter
  <2> QED
    BY <2>4, <2>5, <2>6, SMT DEF Forward, WrapAt
<1> QED
  BY <1>2, <1>4, <1>5, SMT DEF WrapInner

LEMMA WrapStep ==
  ASSUME SInv, Holds(rom, WrapProgram), Instruction, Effect(entry.op),
         NEW n \in 0 .. 2, n = Len(frames), NEW c, Running(c), WrapAt(n, c, frames, ram),
         NEW d, Running(d)'
  PROVE  \E k \in 0 .. 2 : Forward(k, d)
<1>1. CASE n = 0 /\ WrapMain(c, ram)
  BY <1>1, WrapMainStep, SMT
<1>2. CASE n = 1 /\ Entered(frames[1], "call", \h800a, 0) /\ WrapOuter(c, ram)
  BY <1>2, WrapOuterStep, SMT
<1>3. CASE /\ n = 2 /\ WrapInner(c, ram)
           /\ Entered(frames[1], "call", \h800a, 0)
           /\ Entered(frames[2], "call", \h8046, \hfd)
  BY <1>3, WrapInnerStep, SMT
<1> QED
  BY <1>1, <1>2, <1>3, SMT DEF WrapAt

-----------------------------------------------------------------------------
(* An instruction of either program leads to another, and leaves the       *)
(* frames below alone.                                                     *)
LEMMA ProgramStep ==
  ASSUME SInv, game \in MCGames, HasPrograms(PrgRom), Instruction, Effect(entry.op),
         NEW n \in 0 .. 2, n = Len(frames), ProgramAt(game, n, Code(n), frames, ram)
  PROVE  \E k \in 0 .. 2 : StepTo(k) /\ ProgramAt(game, k, Code(k)', frames', ram')
<1>1. PICK j : j = Len(frames')
  OBVIOUS
<1>2. Running(Code(n)) /\ Running(Code(j))'
  BY <1>1, RunningCode
<1>3. ASSUME NEW k \in 0 .. 2, StepTo(k) PROVE k = j
  BY <1>1, <1>3 DEF StepTo
<1>4. CASE game = "sum"
  <2>1. Holds(rom, SumProgram)
    BY <1>4 DEF HasPrograms, rom
  <2>2. SumAt(n, Code(n), frames, ram)
    BY <1>4 DEF ProgramAt
  <2>3. \E k \in 0 .. 2 : Advance(k, Code(j)')
    BY <1>2, <2>1, <2>2, SumStep
  <2>4. PICK k \in 0 .. 2 : Advance(k, Code(j)')
    BY <2>3
  <2>5. k = j
    BY <1>3, <2>4 DEF Advance
  <2> QED
    BY <1>4, <2>4, <2>5 DEF Advance, ProgramAt
<1>5. CASE game = "wrap"
  <2>1. Holds(rom, WrapProgram)
    BY <1>5 DEF HasPrograms, rom
  <2>2. WrapAt(n, Code(n), frames, ram)
    BY <1>5 DEF ProgramAt
  <2>3. \E k \in 0 .. 2 : Forward(k, Code(j)')
    BY <1>2, <2>1, <2>2, WrapStep
  <2>4. PICK k \in 0 .. 2 : Forward(k, Code(j)')
    BY <2>3
  <2>5. k = j
    BY <1>3, <2>4 DEF Forward
  <2> QED
    BY <1>5, <2>4, <2>5 DEF Forward, ProgramAt
<1> QED
  BY <1>4, <1>5 DEF MCGames

LEMMA AboveWritten ==
  ASSUME SP \in Byte, NEW a \in Above(SP)
  PROVE  a \in RamIndex /\ a \notin Written
<1>1. SP \in Int /\ 0 <= SP /\ SP <= 255
  BY Bounds
<1>2. ASSUME NEW x \in Int PROVE StackAt(x) \in Int /\ 256 <= StackAt(x) /\ StackAt(x) < 512
  BY SMT DEF StackAt, U8
<1>3. ASSUME NEW j \in 1 .. 6, a = StackAt(SP + j)
      PROVE  a \in RamIndex /\ a \notin Written
  <2>1. SP + j \in Int /\ SP - 1 \in Int /\ SP - 2 \in Int
    BY <1>1
  <2>2. a \in RamIndex /\ a \notin {\h12, \h13, \h14}
    BY <1>2, <1>3, <2>1, Indices, SMT
  <2>3. StackAt(SP + j) # StackAt(SP) /\ StackAt(SP + j) # StackAt(SP - 1)
        /\ StackAt(SP + j) # StackAt(SP - 2)
    BY <1>1, SMT DEF StackAt, U8
  <2> QED
    BY <1>3, <2>2, <2>3, SMT DEF Written
<1> QED
  BY <1>3 DEF Above

LEMMA ProgramKeeps ==
  ASSUME SInv, NInv, game \in MCGames, HasPrograms(PrgRom), Instruction, Effect(entry.op),
         NEW n \in 0 .. 2, n = Len(frames), AtLevel(n),
         ProgramAt(game, n, Code(n), frames, ram)
  PROVE  DisciplinedStep /\ ProgInv'
<1>1. PICK k \in 0 .. 2 : StepTo(k) /\ ProgramAt(game, k, Code(k)', frames', ram')
  BY ProgramStep
<1>2. IInv /\ frames \in Seq(FrameType) /\ SP \in Byte
  BY DEF SInv, FrameTypes, IInv, TypeOK
<1>3. \A m \in 1 .. Len(frames) : frames[m].kind # "nmi"
  BY DEF AtLevel
<1>4. \A m \in 1 .. Len(frames') : frames'[m].kind # "nmi"
  BY <1>2, <1>3, NoneOpened
<1>5. AtLevel(k)'
  BY <1>1, <1>4 DEF AtLevel, StepTo
<1>6. ProgInv'
  <2>1. game' = game
    BY DEF Instruction
  <2> QED
    BY <1>1, <1>5, <2>1, Zenon DEF ProgInv
<1>7. Untouched
  <2> SUFFICES ASSUME NEW m \in 1 .. Len(frames), NEW a \in Area(frames[m])
               PROVE  ram'[a] = ram[a]
    BY Zenon DEF Untouched
  <2>1. Code(n).SP = SP
    BY RunningCode DEF Running
  <2>2. Area(frames[m]) \subseteq Above(SP)
    BY <1>2, <2>1, ProgramAreas
  <2>3. a \in RamIndex /\ a \notin Written
    BY <1>2, <2>2, AboveWritten
  <2> QED
    BY <1>1, <2>3 DEF StepTo
<1>8. Len(frames') < Len(frames) => Returned
  BY <1>1 DEF StepTo
<1> QED
  BY <1>6, <1>7, <1>8, Zenon DEF DisciplinedStep, Returned

(* The cartridges of the runs, and an execution that raises fewer          *)
(* interrupts than the stack holds.                                        *)
PInv == SInv /\ NInv /\ NmisCounted /\ ProgInv

LEMMA Installed ==
  ASSUME ProgramsInstalled, NEW g \in Games
  PROVE  g \in MCGames /\ HasHandler(PrgRom[g])
<1>1. g \in MCGames
  BY DEF ProgramsInstalled
<1>2. ASSUME NEW image, NEW segments, Holds(image, segments), NmiHandler \in segments,
             Vectors(\h9000, \h8000, \ha000) \in segments
      PROVE  HasHandler(image)
  <2>1. \A i \in 1 .. Len(NmiHandler.bytes) :
          image[NmiHandler.address - \h8000 + i - 1] = NmiHandler.bytes[i]
    BY <1>2, SMT DEF Holds, Found
  <2>2. Found(Vectors(\h9000, \h8000, \ha000), image)
    BY <1>2, SMT DEF Holds
  <2> DEFINE bytes == <<0, \h90, 0, \h80, 0, \ha0>>
             b == \hfffa
  <2>3. Vectors(\h9000, \h8000, \ha000) = Segment(b, bytes) /\ Len(bytes) = 6
    BY SMT DEF Vectors
  <2>4. \A i \in 1 .. 6 : image[b - \h8000 + i - 1] = bytes[i]
    <3> HIDE DEF b, bytes
    <3>1. Found(Segment(b, bytes), image)
      BY <2>2, <2>3, SMT
    <3>2. \A i \in 1 .. Len(bytes) : image[b - \h8000 + i - 1] = bytes[i]
      BY <3>1, SMT DEF Found, Segment
    <3> QED
      BY <2>3, <3>2, SMT
  <2>5. image[\h7ffa] = \h00 /\ image[\h7ffb] = \h90
    <3>1. \hfffa - \h8000 + 1 - 1 = \h7ffa /\ \hfffa - \h8000 + 2 - 1 = \h7ffb
          /\ 1 \in 1 .. 6 /\ 2 \in 1 .. 6
      BY SMT
    <3>2. image[\hfffa - \h8000 + 1 - 1] = 0 /\ image[\hfffa - \h8000 + 2 - 1] = \h90
      BY <2>4, <3>1, SMT
    <3> QED
      BY <3>1, <3>2, SMT
  <2> QED
    BY <2>1, <2>5, SMT DEF HasHandler
<1>3. /\ NmiHandler \in SumProgram /\ Vectors(\h9000, \h8000, \ha000) \in SumProgram
      /\ NmiHandler \in WrapProgram /\ Vectors(\h9000, \h8000, \ha000) \in WrapProgram
  BY SMT DEF SumProgram, WrapProgram, Interrupts
<1>4. CASE g = "sum"
  BY <1>2, <1>3, <1>4, SMT DEF ProgramsInstalled, HasPrograms
<1>5. CASE g = "wrap"
  BY <1>2, <1>3, <1>5, SMT DEF ProgramsInstalled, HasPrograms
<1> QED
  BY <1>1, <1>4, <1>5, SMT DEF MCGames

LEMMA ProgramBegins ==
  ASSUME StackInit, IInv, ProgramsInstalled
  PROVE  PInv
<1>1. game \in Games /\ rom = PrgRom[game]
  BY DEF IInv, TypeOK, rom
<1>2. game \in MCGames /\ HasPrograms(PrgRom)
  BY <1>1, Installed DEF ProgramsInstalled
<1>3. frames = <<>> /\ Len(frames) = 0 /\ frames \in Seq(FrameType)
  BY DEF StackInit
<1>4. SInv /\ NInv /\ NmisCounted /\ AtLevel(0)
  BY <1>3, MaxNmisAssumption
     DEF SInv, FrameTypes, AllKept, NInv, NmisCounted, AtLevel, StackInit
<1>5. PC = Get16(RESET_VECTOR) /\ ram[\h14] = 0
  <2>1. \h14 \in RamIndex
    BY Indices, SMT
  <2> QED
    BY <2>1 DEF StackInit, Init, Get16
<1>6. Code(0).PC = PC
  BY <1>3, RunningCode DEF Running
<1>7. /\ Vectors(\h9000, \h8000, \ha000) \in SumProgram
      /\ Vectors(\h9000, \h8000, \ha000) \in WrapProgram
  BY SMT DEF SumProgram, WrapProgram, Interrupts
<1>8. game = "sum" => SumMain(Code(0), ram)
  <2> SUFFICES ASSUME game = "sum" PROVE SumMain(Code(0), ram)
    OBVIOUS
  <2>1. Holds(rom, SumProgram)
    BY <1>1, <1>2 DEF HasPrograms
  <2>2. PC = \h8000
    BY <1>5, <1>7, <2>1, Vectored, SMT
  <2> QED
    BY <1>5, <1>6, <2>2, SMT DEF SumMain
<1>9. game = "wrap" => WrapMain(Code(0), ram)
  <2> SUFFICES ASSUME game = "wrap" PROVE WrapMain(Code(0), ram)
    OBVIOUS
  <2>1. Holds(rom, WrapProgram)
    BY <1>1, <1>2 DEF HasPrograms
  <2>2. PC = \h8000
    BY <1>5, <1>7, <2>1, Vectored, SMT
  <2> QED
    BY <1>6, <2>2, SMT DEF WrapMain
<1>10. ProgramAt(game, 0, Code(0), frames, ram)
  BY <1>8, <1>9 DEF ProgramAt, SumAt, WrapAt
<1>11. 0 \in 0 .. 2
  OBVIOUS
<1>12. ProgInv
  BY <1>4, <1>10, <1>11, Zenon DEF ProgInv
<1> QED
  BY <1>4, <1>12 DEF PInv

LEMMA ProgramGoesOn ==
  ASSUME ProgramsInstalled, MaxNmis < 49, PInv, IInv', [StackNext]_stackVars
  PROVE  [DisciplinedStep]_stackVars /\ PInv'
<1>1. /\ SInv /\ IInv /\ NInv /\ NmisCounted /\ game \in Games /\ frames \in Seq(FrameType)
      /\ MaxNmis \in Nat /\ MaxNmis < 50
  BY MaxNmisAssumption DEF PInv, SInv, NInv, IInv, TypeOK
<1>2. game \in MCGames /\ HasPrograms(PrgRom) /\ HandlerInstalled
  BY <1>1, Installed DEF HandlerInstalled, ProgramsInstalled
<1>3. NmisFit
  BY <1>1, CountedFit
<1>4. NInv' /\ TransparentStep
  BY <1>1, <1>2, <1>3, NmiStep
<1>5. NmisCounted'
  BY <1>1, <1>4, NmisCountedStep
<1>6. game' = game
  BY DEF StackNext, Instruction, ServiceNmi, TakeNmi, PpuRaises, NoInterrupt, Panic, PpuDone,
         Exited, stackVars, vars
<1>7. PICK k \in 0 .. 2 : AtLevel(k) /\ ProgramAt(game, k, Code(k), frames, ram)
  BY Zenon DEF PInv, ProgInv
<1>8. DisciplinedStep /\ ProgInv'
  <2>1. CASE Instruction /\ Effect(entry.op) /\ k = Len(frames)
    BY <1>1, <1>2, <1>4, <1>7, <2>1, ProgramKeeps
  <2>2. CASE ~(Instruction /\ Effect(entry.op) /\ k = Len(frames))
    <3>1. k \in Nat /\ (Instruction /\ Effect(entry.op) => k < Len(frames))
      BY <1>7, <2>2 DEF AtLevel
    <3>2. OthersStep(k)
      BY <1>1, <1>2, <1>3, <1>4, <1>7, <3>1, OthersSteps
    <3>3. Len(frames') \in Nat /\ nmis' \in Nat
      BY <1>4, <1>5 DEF NInv, NmisCounted
    <3>4. Len(frames') - k < 50
      <4>1. CASE k = Len(frames')
        BY <4>1
      <4>2. CASE k # Len(frames')
        <5>1. k + 1 \in 1 .. Len(frames') /\ frames'[k + 1].kind = "nmi"
          BY <3>1, <3>2, <3>3, <4>2 DEF OthersStep
        <5>2. Len(frames') - (k + 1) + 1 + (IF is_nmi' THEN 1 ELSE 0) <= nmis' + 1
              /\ nmis' <= MaxNmis
          BY <1>5, <5>1 DEF NmisCounted
        <5> QED
          BY <1>1, <3>1, <3>3, <5>2
      <4> QED
        BY <4>1, <4>2
    <3> QED
      BY <1>1, <1>2, <1>6, <1>7, <3>2, <3>3, <3>4, OthersKeep
  <2> QED
    BY <2>1, <2>2
<1>9. FrameTypes' /\ AllKept'
  <2>1. CASE StackNext
    BY <1>1, <1>8, <2>1, StackStep DEF DisciplinedStep
  <2>2. CASE UNCHANGED stackVars
    BY <1>1, <1>8, <2>2, FramesStay DEF DisciplinedStep, stackVars, vars
  <2> QED
    BY <2>1, <2>2
<1> QED
  BY <1>4, <1>5, <1>8, <1>9 DEF PInv, SInv

LEMMA ProgramsInvariant ==
  ASSUME ProgramsInstalled, MaxNmis < 49
  PROVE  StackSpec => []PInv /\ Disciplined
<1>1. StackInit /\ IInv => PInv
  BY ProgramBegins
<1>2. /\ PInv /\ IInv' /\ [StackNext]_stackVars => PInv'
      /\ PInv /\ IInv' /\ [StackNext]_stackVars => [DisciplinedStep]_stackVars
  BY ProgramGoesOn
<1> QED
  BY <1>1, <1>2, StackIsCpu, Invariant, PTL DEF StackSpec, Disciplined

(* The programs of the runs leave open frames alone and give back what     *)
(* they push, wherever the interrupts fall: their JSR, RTS, PHA, PLA, PHP, *)
(* PLP, BRK and RTI, with those of the NMI handler.                        *)
THEOREM ProgramsDisciplined ==
  ASSUME ProgramsInstalled, MaxNmis < 49
  PROVE  StackSpec => Disciplined
  BY ProgramsInvariant, PTL

(* So their frames are intact and their returns match, and nothing is      *)
(* asked of the program any more.                                          *)
THEOREM ProgramsReturn ==
  ASSUME ProgramsInstalled, MaxNmis < 49
  PROVE  StackSpec => []FramesIntact /\ ReturnsMatch
  BY ProgramsDisciplined, FramesSafe, FramesReturn, PTL

(* What the programs compute, instruction by instruction, is what the 6502 *)
(* computes: the sum through the carries of ADC and ROL, in two calls and  *)
(* a BRK, and the registers that come back over the wrap of SP.            *)
THEOREM ProgramsCorrect ==
  ASSUME ProgramsInstalled, MaxNmis < 49
  PROVE  StackSpec => []ResultCorrect
<1>1. ASSUME PInv PROVE ResultCorrect
  <2> SUFFICES ASSUME AtEnd PROVE Answer
    BY DEF ResultCorrect
  <2>1. PC = End[game] /\ Len(frames) = 0
    BY DEF AtEnd
  <2>2. PICK k \in 0 .. 2 : AtLevel(k) /\ ProgramAt(game, k, Code(k), frames, ram)
    BY <1>1, Zenon DEF PInv, ProgInv
  <2>3. k = 0
    BY <2>1, <2>2 DEF AtLevel
  <2>4. Running(Code(0))
    BY <2>1, RunningCode
  <2>5. game \in MCGames
    BY <1>1, Installed DEF PInv, SInv, IInv, TypeOK
  <2>6. CASE game = "sum"
    <3>1. SumMain(Code(0), ram)
      BY <2>2, <2>3, <2>6 DEF ProgramAt, SumAt
    <3>2. PC = \h800a
      BY <2>1, <2>6, SMT DEF End
    <3>3. /\ A = \hc8 /\ SP = \hff
          /\ ram[\h12] = \h58 /\ ram[\h13] = \h08
          /\ ram[\h14] = 1
      BY <2>4, <3>1, <3>2, SMT DEF SumMain, Running
    <3> QED
      BY <2>6, <3>3 DEF Answer
  <2>7. CASE game = "wrap"
    <3>1. WrapMain(Code(0), ram)
      BY <2>2, <2>3, <2>7 DEF ProgramAt, WrapAt
    <3>2. PC = \h800e
      BY <2>1, <2>7, SMT DEF End
    <3>3. A = \h5a /\ SP = 2
      BY <2>4, <3>1, <3>2, SMT DEF WrapMain, Running
    <3> QED
      BY <2>7, <3>3 DEF Answer
  <2> QED
    BY <2>5, <2>6, <2>7 DEF MCGames
<1> QED
  BY <1>1, ProgramsInvariant, PTL
=============================================================================
