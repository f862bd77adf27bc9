----------------------------- MODULE Cartridges -----------------------------
(***************************************************************************)
(* Small programs for the runs.  A program is a set of segments, each an   *)
(* address and the bytes found there; the rest of its 32K is NOP.          *)
(***************************************************************************)
EXTENDS Integers, Sequences

Segment(address, bytes) == [address |-> address, bytes |-> bytes]

Vectors(nmi, reset, irq) ==
  Segment(\hfffa, <<nmi % 256, nmi \div 256, reset % 256, reset \div 256,
                    irq % 256, irq \div 256>>)

Image(segments) ==
  [i \in 0 .. 32767 |->
     LET covers(s) == s.address - 32768 <= i
                        /\ i < s.address - 32768 + Len(s.bytes)
     IN  IF \E s \in segments : covers(s)
           THEN LET s == CHOOSE t \in segments : covers(t)
                IN  s.bytes[i - (s.address - 32768) + 1]
           ELSE \hea]

(* What a program asks of the image it is in.                              *)
Found(s, image) ==
  \A i \in 1 .. Len(s.bytes) : image[s.address - \h8000 + i - 1] = s.bytes[i]

Holds(image, segments) == \A s \in segments : Found(s, image)

-----------------------------------------------------------------------------
(* NMI handler at $9000: saves A and X, spoils them and the carry, restores*)
(* them.  PHA TXA PHA LDX#0 SEC ROL PLA TAX PLA RTI                        *)
NmiHandler ==
  Segment(\h9000, <<\h48, \h8a, \h48, \ha2, \h00, \h38, \h2a,
                    \h68, \haa, \h68, \h40>>)

(* The handler is in the image, and is what the NMI vector points to.      *)
HasHandler(image) ==
  /\ \A i \in 1 .. Len(NmiHandler.bytes) :
       image[NmiHandler.address - \h8000 + i - 1] = NmiHandler.bytes[i]
  /\ image[\h7ffa] = \h00 /\ image[\h7ffb] = \h90

(* IRQ handler at $a000: counts the BRKs in $14.  INC $14, RTI             *)
BreakHandler == Segment(\ha000, <<\he6, \h14, \h40>>)

Interrupts == {NmiHandler, BreakHandler, Vectors(\h9000, \h8000, \ha000)}

(* A 16-bit sum and a 16-bit shift in nested subroutines, then a BRK:      *)
(* $01c8 + $0264 and the carry of each byte into the next.  The operands   *)
(* of its JSRs are opcodes that panic.                                     *)
SumProgram ==
  Interrupts \cup
  {Segment(\h8000, <<\ha2, \hff, \h9a,             \* LDX #$ff, TXS
                     \ha9, \hc8,                   \* LDA #$c8
                     \h20, \h42, \h80,             \* JSR $8042
                     \h00, \hea,                   \* BRK and its padding
                     \h4c, \h0a, \h80>>),          \* JMP $800a, for ever
   Segment(\h8042, <<\h08, \h48, \h18,             \* PHP, PHA, CLC
                     \h69, \h64, \h85, \h12,       \* ADC #$64, STA $12
                     \ha9, \h01, \h69, \h02,       \* LDA #1, ADC #2
                     \h85, \h13,                   \* STA $13
                     \h20, \h62, \h80,             \* JSR $8062
                     \h68, \h28, \h60>>),          \* PLA, PLP, RTS
   Segment(\h8062, <<\h06, \h12, \h26, \h13, \h60>>)}  \* ASL $12, ROL $13, RTS

(* Pushes and calls across the wrap of the stack pointer from $00 to $ff.  *)
WrapProgram ==
  Interrupts \cup
  {Segment(\h8000, <<\ha2, \h02, \h9a,             \* LDX #2, TXS
                     \ha9, \h5a, \h08, \h48,       \* LDA #$5a, PHP, PHA
                     \h20, \h42, \h80,             \* JSR $8042
                     \h68, \h28,                   \* PLA, PLP
                     \h48, \h28,                   \* PHA, PLP: A as status
                     \h4c, \h0e, \h80>>),          \* JMP $800e, for ever
   Segment(\h8042, <<\h48, \h20, \h62, \h80,       \* PHA, JSR $8062
                     \h68, \h60>>),                \* PLA, RTS
   Segment(\h8062, <<\ha9, \h00, \h60>>)}          \* LDA #0, RTS

(* The beginning of every game: wait for the vertical blank by polling the *)
(* status, twice, then work with interrupts.  The interrupt handler saves  *)
(* A and leaves the status alone.                                          *)
PollHandler == Segment(\h9000, <<\h48, \h86, \h21, \h68, \h40>>)
                                                   \* PHA, STX $21, PLA, RTI
PollProgram ==
  {PollHandler, Vectors(\h9000, \h8000, \h9000),
   Segment(\h8000, <<\h2c, \h02, \h20, \h10, \hfb, \* BIT $2002, BPL $8000
                     \h2c, \h02, \h20, \h10, \hfb, \* BIT $2002, BPL $8005
                     \he8,                         \* INX
                     \h4c, \h0b, \h80>>)}          \* JMP $800b, for ever

(* A handler that reads the status takes the flag away from a poll.        *)
ClearingHandler == Segment(\h9000, <<\h2c, \h02, \h20, \h40>>)
                                                   \* BIT $2002, RTI
ClearingProgram == (PollProgram \ {PollHandler}) \cup {ClearingHandler}

(* Reads the controller, which ends in a panic.  LDA $4016                 *)
PadProgram ==
  {Vectors(\h8000, \h8000, \h8000), Segment(\h8000, <<\had, \h16, \h40>>)}
=============================================================================
