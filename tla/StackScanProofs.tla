--------------------------- MODULE StackScanProofs ---------------------------
(***************************************************************************)
(* For any stack, frames and limits: what the search records of a stack is *)
(* whole, each call of save_state once, and, where no remains of earlier   *)
(* calls are in the way, the destructors that are running.                 *)
(*                                                                         *)
(* ScanInv says what the stack holds.  Every word that is not plain was    *)
(* written by one call of save_state for one place, and is nowhere else,   *)
(* as nothing copies a block; and the block of a destructor that runs is   *)
(* whole, as nobody writes into the frame of another.                      *)
(***************************************************************************)
EXTENDS StackScan, SequenceLemmas

Addresses == 0..(StackSize - 1)
Frame == [sp : 0..StackSize, info : [id : Nat, offset : Nat]]

ScanTypeOK ==
    /\ event_counter \in Nat
    /\ stack \in [Addresses -> Nat \X Nat]
    /\ frames \in Seq(Frame)

(* Frames lie one outside the other.                                       *)
FramesApart ==
    /\ Len(frames) >= 2
    /\ \A i, j \in 1..Len(frames) : i < j => frames[i].sp < frames[j].sp

(* Each place of each block is in one word at most.                        *)
WordsApart ==
    /\ \A a \in Addresses :
           stack[a] # Plain => stack[a][1] \in 1..event_counter /\ stack[a][2] \in 0..(InfoWords - 1)
    /\ \A a, b \in Addresses : stack[a] # Plain /\ stack[a] = stack[b] => a = b

(* The block of a running destructor is whole, and in its frame.           *)
RunningWhole ==
    \A i \in 1..Len(frames) : frames[i].info.id # 0 =>
        LET start == frames[i].sp + frames[i].info.offset
        IN  /\ i < Len(frames)
            /\ start + InfoWords =< frames[i + 1].sp
            /\ \A k \in 0..(InfoWords - 1) : stack[start + k] = Word(frames[i].info.id, k)

ScanInv == ScanTypeOK /\ FramesApart /\ WordsApart /\ RunningWhole

LEMMA FrameFacts ==
    ASSUME NEW s \in Seq(Frame), NEW i \in 1..Len(s)
    PROVE  /\ s[i].sp \in 0..StackSize
           /\ s[i].info \in [id : Nat, offset : Nat]
           /\ s[i].info.id \in Nat /\ s[i].info.offset \in Nat
<1>1. s[i] \in Frame
  OBVIOUS
<1>2. s[i].sp \in 0..StackSize /\ s[i].info \in [id : Nat, offset : Nat]
  BY <1>1 DEF Frame
<1> QED  BY <1>2

LEMMA ScanInit == ASSUME Init PROVE ScanInv
<1> USE StackScanAssumption
<1>1. ScanTypeOK
  <2>1. frames \in Seq(Frame)
    <3>1. /\ [sp |-> StackSize - 1, info |-> NoInfo] \in Frame
          /\ [sp |-> StackSize, info |-> NoInfo] \in Frame
      BY DEF Frame, NoInfo
    <3> QED  BY <3>1 DEF Init
  <2> QED  BY <2>1 DEF Init, ScanTypeOK, Addresses, Plain
<1>2. FramesApart
  BY DEF Init, FramesApart
<1>3. WordsApart
  BY DEF Init, WordsApart, Addresses, Plain
<1>4. RunningWhole
  BY DEF Init, RunningWhole, NoInfo
<1> QED  BY <1>1, <1>2, <1>3, <1>4 DEF ScanInv

(* What a frame that is pushed changes: it is put in front, and only words *)
(* of its own are written.                                                 *)
LEMMA PushedFrames ==
    ASSUME ScanInv, NEW n \in FrameSizes, n =< sp, NEW info \in [id : Nat, offset : Nat],
           Push(n, info)
    PROVE  /\ frames' \in Seq(Frame)
           /\ FramesApart'
           /\ Len(frames') = Len(frames) + 1
           /\ frames'[1] = [sp |-> sp - n, info |-> info]
           /\ \A i \in 2..Len(frames') : frames'[i] = frames[i - 1]
<1> USE StackScanAssumption
<1> DEFINE f == [sp |-> sp - n, info |-> info]
<1>1. frames \in Seq(Frame) /\ Len(frames) >= 2
  BY DEF ScanInv, ScanTypeOK, FramesApart
<1>2. sp \in 0..StackSize /\ n \in Nat \ {0}
  BY <1>1, FrameFacts DEF sp
<1>3. f \in Frame
  BY <1>2 DEF Frame
<1>4. frames' = <<f>> \o frames
  BY DEF Push
<1>5. <<f>> \in Seq(Frame) /\ Len(<<f>>) = 1 /\ <<f>>[1] = f
  BY <1>3
<1> HIDE DEF f
<1>6. /\ frames' \in Seq(Frame)
      /\ Len(frames') = Len(frames) + 1
      /\ frames'[1] = f
      /\ \A i \in 2..Len(frames') : frames'[i] = frames[i - 1]
  BY <1>1, <1>4, <1>5
<1>7. FramesApart'
  <2>1. \A i \in 1..Len(frames) : frames[i].sp \in 0..StackSize /\ sp =< frames[i].sp
    <3> SUFFICES ASSUME NEW i \in 1..Len(frames)
                 PROVE  frames[i].sp \in 0..StackSize /\ sp =< frames[i].sp
      OBVIOUS
    <3>1. frames[i].sp \in 0..StackSize
      BY <1>1, FrameFacts
    <3>2. CASE i = 1
      BY <1>2, <3>1, <3>2 DEF sp
    <3>3. CASE i # 1
      <4>1. 1 \in 1..Len(frames) /\ 1 < i
        BY <1>1, <3>3
      <4>2. sp < frames[i].sp
        BY <4>1 DEF sp, ScanInv, FramesApart
      <4> QED  BY <1>2, <3>1, <4>2
    <3> QED  BY <3>2, <3>3
  <2>2. \A i, j \in 1..Len(frames) : i < j => frames[i].sp < frames[j].sp
    BY DEF ScanInv, FramesApart
  <2>3. f.sp = sp - n
    BY DEF f
  <2>4. ASSUME NEW i \in 1..Len(frames'), NEW j \in 1..Len(frames'), i < j
        PROVE  frames'[i].sp < frames'[j].sp
    <3>1. j \in 2..Len(frames') /\ j - 1 \in 1..Len(frames)
      BY <1>1, <1>6, <2>4
    <3>2. CASE i = 1
      BY <1>2, <1>6, <2>1, <2>3, <3>1, <3>2
    <3>3. CASE i # 1
      <4>1. i \in 2..Len(frames') /\ i - 1 \in 1..Len(frames) /\ i - 1 < j - 1
        BY <1>1, <1>6, <2>4, <3>1, <3>3
      <4> QED  BY <1>6, <2>2, <3>1, <4>1
    <3> QED  BY <3>2, <3>3
  <2> QED  BY <1>1, <1>6, <2>4 DEF FramesApart
<1> QED  BY <1>6, <1>7 DEF f

(* Frames that stay keep their blocks when the words from the first of     *)
(* them outwards are not written.                                          *)
RunningWholeIn(i) ==
    frames[i].info.id # 0 =>
        LET start == frames[i].sp + frames[i].info.offset
        IN  /\ i < Len(frames)
            /\ start + InfoWords =< frames[i + 1].sp
            /\ \A k \in 0..(InfoWords - 1) : stack[start + k] = Word(frames[i].info.id, k)

LEMMA FramesKeep ==
    ASSUME ScanInv, NEW i \in 1..Len(frames), NEW j, j \in 1..Len(frames'),
           frames'[j] = frames[i],
           Len(frames') - j = Len(frames) - i,
           i < Len(frames) => frames'[j + 1] = frames[i + 1],
           \A a \in Addresses : a >= frames[i].sp => stack'[a] = stack[a]
    PROVE  RunningWholeIn(j)'
<1> USE StackScanAssumption
<1> SUFFICES ASSUME frames[i].info.id # 0
             PROVE  LET start == frames[i].sp + frames[i].info.offset
                    IN  /\ j < Len(frames')
                        /\ start + InfoWords =< frames'[j + 1].sp
                        /\ \A k \in 0..(InfoWords - 1) : stack'[start + k] = Word(frames[i].info.id, k)
  BY DEF RunningWholeIn
<1> DEFINE start == frames[i].sp + frames[i].info.offset
<1>1. /\ i < Len(frames) /\ start + InfoWords =< frames[i + 1].sp
      /\ \A k \in 0..(InfoWords - 1) : stack[start + k] = Word(frames[i].info.id, k)
  BY DEF ScanInv, RunningWhole
<1>2. frames \in Seq(Frame) /\ Len(frames) \in Nat
  BY DEF ScanInv, ScanTypeOK
<1>3. /\ frames[i].sp \in Nat /\ frames[i].info.offset \in Nat
      /\ frames[i + 1].sp \in 0..StackSize
  <2>1. i + 1 \in 1..Len(frames)
    BY <1>1, <1>2
  <2> QED  BY <1>2, <2>1, FrameFacts
<1>4. \A k \in 0..(InfoWords - 1) : start + k \in Addresses /\ start + k >= frames[i].sp
  <2>1. start \in Nat /\ start >= frames[i].sp
    <3>1. \A p, o \in Nat : p + o \in Nat /\ p + o >= p
      OBVIOUS
    <3> QED  BY <1>3, <3>1, Zenon
  <2>2. \A b, p, w, q \in Nat : b >= p /\ b + w =< q /\ q =< StackSize =>
            \A k \in 0..(w - 1) : b + k \in Addresses /\ b + k >= p
    BY DEF Addresses
  <2>3. frames[i + 1].sp \in Nat /\ frames[i + 1].sp =< StackSize /\ InfoWords \in Nat
    BY <1>3
  <2> HIDE DEF start
  <2> QED  BY <1>1, <1>3, <2>1, <2>2, <2>3
<1>5. \A k \in 0..(InfoWords - 1) : stack'[start + k] = stack[start + k]
  BY <1>4
<1>6. j < Len(frames')
  <2>1. Len(frames') = Len(frames) - i + j
    BY <1>2
  <2> QED  BY <1>1, <1>2, <2>1
<1> QED  BY <1>1, <1>5, <1>6

(* Words that are written over, or that a new block fills.                 *)
LEMMA PlainKeeps ==
    ASSUME ScanInv, NEW written, stack' = Overwrite(written), event_counter' = event_counter
    PROVE  /\ stack' \in [Addresses -> Nat \X Nat]
           /\ WordsApart'
           /\ \A a \in Addresses : a \notin written => stack'[a] = stack[a]
<1>1. stack \in [Addresses -> Nat \X Nat] /\ Plain \in Nat \X Nat
  BY DEF ScanInv, ScanTypeOK, Plain
<1>2. stack' = [a \in Addresses |-> IF a \in written THEN Plain ELSE stack[a]]
  BY <1>1 DEF Overwrite
<1>3. \A a \in Addresses : stack'[a] # Plain => stack'[a] = stack[a]
  BY <1>2
<1>4. WordsApart'
  BY <1>3 DEF ScanInv, WordsApart
<1> QED  BY <1>1, <1>2, <1>4

LEMMA BlockWritten ==
    ASSUME ScanInv, NEW written, NEW start \in Nat, start + InfoWords =< StackSize,
           event_counter' = event_counter + 1,
           stack' = [a \in DOMAIN stack |->
                        IF a \in start..(start + InfoWords - 1) THEN Word(event_counter', a - start)
                        ELSE Overwrite(written)[a]]
    PROVE  /\ stack' \in [Addresses -> Nat \X Nat]
           /\ WordsApart'
           /\ \A a \in Addresses :
                  a \notin written /\ a \notin start..(start + InfoWords - 1) => stack'[a] = stack[a]
           /\ \A k \in 0..(InfoWords - 1) : stack'[start + k] = Word(event_counter', k)
<1> USE StackScanAssumption
<1> DEFINE block == start..(start + InfoWords - 1)
<1>1. stack \in [Addresses -> Nat \X Nat] /\ Plain \in Nat \X Nat /\ event_counter \in Nat
  BY DEF ScanInv, ScanTypeOK, Plain
<1>2. \A a \in Addresses :
          stack'[a] = IF a \in block THEN Word(event_counter', a - start)
                      ELSE IF a \in written THEN Plain ELSE stack[a]
  BY <1>1 DEF Overwrite
<1>3. block \subseteq Addresses
  BY DEF Addresses
<1>4. \A a \in block : Word(event_counter', a - start) \in Nat \X Nat
  BY <1>1 DEF Word
<1>5. DOMAIN stack' = Addresses /\ stack' = [a \in Addresses |-> stack'[a]]
  BY <1>1
<1>6. \A a \in Addresses : stack'[a] \in Nat \X Nat
  BY <1>1, <1>2, <1>4
<1>7. stack' \in [Addresses -> Nat \X Nat]
  BY <1>5, <1>6
<1>8. \A k \in 0..(InfoWords - 1) : stack'[start + k] = Word(event_counter', k)
  <2> SUFFICES ASSUME NEW k \in 0..(InfoWords - 1)
               PROVE  stack'[start + k] = Word(event_counter', k)
    OBVIOUS
  <2>1. start + k \in block /\ (start + k) - start = k
    OBVIOUS
  <2> QED  BY <1>2, <1>3, <2>1
<1>9. \A a \in block : /\ stack'[a][1] = event_counter + 1
                       /\ stack'[a][2] = a - start
                       /\ a - start \in 0..(InfoWords - 1)
  <2> SUFFICES ASSUME NEW a \in block
               PROVE  /\ stack'[a][1] = event_counter + 1
                      /\ stack'[a][2] = a - start
                      /\ a - start \in 0..(InfoWords - 1)
    OBVIOUS
  <2>1. stack'[a] = <<event_counter + 1, a - start>>
    BY <1>2, <1>3 DEF Word
  <2> QED  BY <2>1
<1>10. \A a \in Addresses : stack'[a] # Plain /\ a \notin block =>
           /\ stack'[a] = stack[a]
           /\ stack'[a][1] \in 1..event_counter /\ stack'[a][2] \in 0..(InfoWords - 1)
  BY <1>2 DEF ScanInv, WordsApart
<1> HIDE DEF block
<1>11. ASSUME NEW a \in Addresses, stack'[a] # Plain
       PROVE  stack'[a][1] \in 1..event_counter' /\ stack'[a][2] \in 0..(InfoWords - 1)
  <2>1. CASE a \in block
    <3>1. event_counter + 1 \in 1..event_counter'
      BY <1>1
    <3> QED  BY <1>9, <2>1, <3>1
  <2>2. CASE a \notin block
    BY <1>1, <1>10, <1>11, <2>2
  <2> QED  BY <2>1, <2>2
<1>12. ASSUME NEW a \in Addresses, NEW b \in Addresses, stack'[a] # Plain, stack'[a] = stack'[b]
       PROVE  a = b
  <2>1. CASE a \in block /\ b \in block
    <3>1. a - start = b - start
      BY <1>9, <1>12, <2>1
    <3> QED  BY <1>3, <2>1, <3>1 DEF Addresses
  <2>2. CASE a \notin block /\ b \notin block
    BY <1>10, <1>12, <2>2 DEF ScanInv, WordsApart
  <2>3. CASE (a \in block /\ b \notin block) \/ (a \notin block /\ b \in block)
    <3>1. ASSUME NEW x \in Addresses, NEW y \in block, x \notin block, stack'[x] # Plain
          PROVE  stack'[x][1] # stack'[y][1]
      <4>1. stack'[x][1] \in 1..event_counter /\ stack'[y][1] = event_counter + 1
        BY <1>9, <1>10, <3>1
      <4> QED  BY <1>1, <4>1
    <3> QED  BY <1>12, <2>3, <3>1
  <2> QED  BY <2>1, <2>2, <2>3
<1>13. WordsApart'
  BY <1>11, <1>12 DEF WordsApart
<1> QED  BY <1>1, <1>2, <1>7, <1>8, <1>13 DEF block

LEMMA ScanNext == ASSUME ScanInv, [Next]_vars PROVE ScanInv'
<1> USE StackScanAssumption
<1>0. /\ frames \in Seq(Frame) /\ Len(frames) >= 2 /\ Len(frames) \in Nat
      /\ event_counter \in Nat
      /\ sp \in 0..StackSize
      /\ \A i, j \in 1..Len(frames) : i < j => frames[i].sp < frames[j].sp
  <2>1. frames \in Seq(Frame) /\ Len(frames) >= 2 /\ event_counter \in Nat
    BY DEF ScanInv, ScanTypeOK, FramesApart
  <2>2. sp \in 0..StackSize
    BY <2>1, FrameFacts DEF sp
  <2> QED  BY <2>1, <2>2 DEF ScanInv, FramesApart
<1>a. \A i \in 1..Len(frames) : frames[i].sp \in 0..StackSize /\ sp =< frames[i].sp
  <2> SUFFICES ASSUME NEW i \in 1..Len(frames)
               PROVE  frames[i].sp \in 0..StackSize /\ sp =< frames[i].sp
    OBVIOUS
  <2>1. frames[i].sp \in 0..StackSize
    BY <1>0, FrameFacts
  <2>2. CASE i = 1
    BY <1>0, <2>2 DEF sp
  <2>3. CASE i # 1
    <3>1. 1 \in 1..Len(frames) /\ 1 < i
      BY <1>0, <2>3
    <3>2. sp < frames[i].sp
      BY <1>0, <3>1 DEF sp
    <3> QED  BY <1>0, <2>1, <3>2
  <2> QED  BY <2>1, <2>2, <2>3
<1>1. ASSUME NEW n \in FrameSizes, Call(n) PROVE ScanInv'
  <2>1. NoInfo \in [id : Nat, offset : Nat] /\ n =< sp /\ Push(n, NoInfo)
    BY <1>1 DEF Call, NoInfo
  <2>2. /\ frames' \in Seq(Frame) /\ FramesApart' /\ Len(frames') = Len(frames) + 1
        /\ frames'[1] = [sp |-> sp - n, info |-> NoInfo]
        /\ \A i \in 2..Len(frames') : frames'[i] = frames[i - 1]
    BY <2>1, PushedFrames
  <2>3. PICK written \in SUBSET ((sp - n)..(sp - 1)) : stack' = Overwrite(written)
    BY <1>1 DEF Call
  <2>4. event_counter' = event_counter
    BY <1>1 DEF Call
  <2>5. /\ stack' \in [Addresses -> Nat \X Nat] /\ WordsApart'
        /\ \A a \in Addresses : a \notin written => stack'[a] = stack[a]
    BY <2>3, <2>4, PlainKeeps
  <2>6. \A a \in Addresses : a >= sp => stack'[a] = stack[a]
    BY <1>0, <2>5 DEF Addresses
  <2>7. ASSUME NEW j \in 1..Len(frames') PROVE RunningWholeIn(j)'
    <3>1. CASE j = 1
      <4>1. frames'[j].info.id = 0
        BY <2>2, <3>1 DEF NoInfo
      <4> QED  BY <4>1 DEF RunningWholeIn
    <3>2. CASE j # 1
      <4>1. /\ j - 1 \in 1..Len(frames) /\ frames'[j] = frames[j - 1]
            /\ Len(frames') - j = Len(frames) - (j - 1)
            /\ j - 1 < Len(frames) => frames'[j + 1] = frames[(j - 1) + 1]
        <5>1. j \in 2..Len(frames') /\ j - 1 \in 1..Len(frames)
          BY <1>0, <2>2, <3>2
        <5>2. ASSUME j - 1 < Len(frames) PROVE frames'[j + 1] = frames[(j - 1) + 1]
          <6>1. j + 1 \in 2..Len(frames') /\ (j + 1) - 1 = (j - 1) + 1
            BY <1>0, <2>2, <5>1, <5>2
          <6> QED  BY <2>2, <6>1
        <5> QED  BY <1>0, <2>2, <5>1, <5>2
      <4>2. \A a \in Addresses : a >= frames[j - 1].sp => stack'[a] = stack[a]
        <5>1. frames[j - 1].sp \in 0..StackSize /\ sp =< frames[j - 1].sp
          BY <1>a, <4>1
        <5>2. \A a \in Addresses : a >= frames[j - 1].sp => a >= sp
          BY <1>0, <5>1 DEF Addresses
        <5> QED  BY <2>6, <5>2
      <4> QED  BY <4>1, <4>2, FramesKeep
    <3> QED  BY <3>1, <3>2
  <2>8. ScanTypeOK'
    BY <1>0, <2>2, <2>4, <2>5 DEF ScanTypeOK
  <2> QED  BY <2>2, <2>5, <2>7, <2>8 DEF ScanInv, RunningWhole, RunningWholeIn
<1>2. ASSUME NEW n \in FrameSizes, NEW o \in 0..StackSize, o + InfoWords =< n, save_state(n, o)
      PROVE  ScanInv'
  <2> DEFINE start == sp - n + o
             info == [id |-> event_counter', offset |-> o]
  <2>1. /\ event_counter' = event_counter + 1
        /\ info \in [id : Nat, offset : Nat] /\ n =< sp /\ Push(n, info)
    BY <1>0, <1>2 DEF save_state
  <2>2. /\ frames' \in Seq(Frame) /\ FramesApart' /\ Len(frames') = Len(frames) + 1
        /\ frames'[1] = [sp |-> sp - n, info |-> info]
        /\ \A i \in 2..Len(frames') : frames'[i] = frames[i - 1]
    <3> HIDE DEF info
    <3> QED  BY <2>1, PushedFrames
  <2>3. PICK written \in SUBSET ((sp - n)..(sp - 1)) :
            stack' = [a \in DOMAIN stack |->
                         IF a \in start..(start + InfoWords - 1) THEN Word(event_counter', a - start)
                         ELSE Overwrite(written)[a]]
    BY <1>2 DEF save_state
  <2>4. n \in Nat \ {0} /\ start \in Nat /\ start + InfoWords =< sp /\ start + InfoWords =< StackSize
    <3>1. n \in Nat \ {0} /\ o \in Nat /\ InfoWords \in Nat /\ o + InfoWords =< n /\ n =< sp
      BY <1>2, <2>1
    <3> QED  BY <1>0, <3>1
  <2>5. /\ stack' \in [Addresses -> Nat \X Nat] /\ WordsApart'
        /\ \A a \in Addresses :
               a \notin written /\ a \notin start..(start + InfoWords - 1) => stack'[a] = stack[a]
        /\ \A k \in 0..(InfoWords - 1) : stack'[start + k] = Word(event_counter', k)
    <3> HIDE DEF start, info
    <3>1. event_counter' = event_counter + 1 /\ start \in Nat /\ start + InfoWords =< StackSize
      BY <2>1, <2>4
    <3> QED  BY <2>3, <3>1, BlockWritten, Zenon
  <2>6. \A a \in Addresses : a >= sp => stack'[a] = stack[a]
    <3> SUFFICES ASSUME NEW a \in Addresses, a >= sp PROVE stack'[a] = stack[a]
      OBVIOUS
    <3>1. a \notin (sp - n)..(sp - 1)
      BY <1>0 DEF Addresses
    <3>2. a \notin start..(start + InfoWords - 1)
      BY <1>0, <2>4 DEF Addresses
    <3> QED  BY <2>5, <3>1, <3>2
  <2>7. ASSUME NEW j \in 1..Len(frames') PROVE RunningWholeIn(j)'
    <3>1. CASE j = 1
      <4>1. frames'[2] = frames[1] /\ frames'[2].sp = sp /\ 1 < Len(frames')
        BY <1>0, <2>2 DEF sp
      <4>2. /\ frames'[1].sp + frames'[1].info.offset = start
            /\ frames'[1].info.id = event_counter'
        BY <1>0, <2>2, <2>4
      <4> HIDE DEF start
      <4> QED  BY <2>4, <2>5, <3>1, <4>1, <4>2 DEF RunningWholeIn
    <3>2. CASE j # 1
      <4>1. /\ j - 1 \in 1..Len(frames) /\ frames'[j] = frames[j - 1]
            /\ Len(frames') - j = Len(frames) - (j - 1)
            /\ j - 1 < Len(frames) => frames'[j + 1] = frames[(j - 1) + 1]
        <5>1. j \in 2..Len(frames') /\ j - 1 \in 1..Len(frames)
          BY <1>0, <2>2, <3>2
        <5>2. ASSUME j - 1 < Len(frames) PROVE frames'[j + 1] = frames[(j - 1) + 1]
          <6>1. j + 1 \in 2..Len(frames') /\ (j + 1) - 1 = (j - 1) + 1
            BY <1>0, <2>2, <5>1, <5>2
          <6> QED  BY <2>2, <6>1
        <5> QED  BY <1>0, <2>2, <5>1, <5>2
      <4>2. \A a \in Addresses : a >= frames[j - 1].sp => stack'[a] = stack[a]
        <5>1. frames[j - 1].sp \in 0..StackSize /\ sp =< frames[j - 1].sp
          BY <1>a, <4>1
        <5>2. \A a \in Addresses : a >= frames[j - 1].sp => a >= sp
          BY <1>0, <5>1 DEF Addresses
        <5> QED  BY <2>6, <5>2
      <4> QED  BY <4>1, <4>2, FramesKeep
    <3> QED  BY <3>1, <3>2
  <2>8. ScanTypeOK'
    BY <1>0, <2>1, <2>2, <2>5 DEF ScanTypeOK
  <2> QED  BY <2>2, <2>5, <2>7, <2>8 DEF ScanInv, RunningWhole, RunningWholeIn
<1>3. ASSUME Return PROVE ScanInv'
  <2>1. /\ Len(frames) > 2 /\ frames' = Tail(frames) /\ event_counter' = event_counter
    BY <1>3 DEF Return
  <2>2. PICK written \in SUBSET (sp..(frames[2].sp - 1)) : stack' = Overwrite(written)
    BY <1>3 DEF Return
  <2>3. /\ frames' \in Seq(Frame) /\ Len(frames') = Len(frames) - 1
        /\ \A i \in 1..Len(frames') : frames'[i] = frames[i + 1]
    BY <1>0, <2>1
  <2>4. FramesApart'
    <3>1. ASSUME NEW i \in 1..Len(frames'), NEW j \in 1..Len(frames'), i < j
          PROVE  frames'[i].sp < frames'[j].sp
      <4>1. i + 1 \in 1..Len(frames) /\ j + 1 \in 1..Len(frames) /\ i + 1 < j + 1
        BY <1>0, <2>3, <3>1
      <4> QED  BY <1>0, <2>3, <4>1
    <3> QED  BY <1>0, <2>1, <2>3, <3>1 DEF FramesApart
  <2>5. /\ stack' \in [Addresses -> Nat \X Nat] /\ WordsApart'
        /\ \A a \in Addresses : a \notin written => stack'[a] = stack[a]
    BY <2>1, <2>2, PlainKeeps
  <2>6. \A a \in Addresses : a >= frames[2].sp => stack'[a] = stack[a]
    <3>1. 2 \in 1..Len(frames) /\ frames[2].sp \in 0..StackSize
      BY <1>0, <1>a
    <3> QED  BY <2>5, <3>1 DEF Addresses
  <2>7. ASSUME NEW j \in 1..Len(frames') PROVE RunningWholeIn(j)'
    <3>1. /\ j + 1 \in 1..Len(frames) /\ frames'[j] = frames[j + 1]
          /\ Len(frames') - j = Len(frames) - (j + 1)
          /\ j + 1 < Len(frames) => frames'[j + 1] = frames[(j + 1) + 1]
      BY <1>0, <2>3
    <3>2. frames[2].sp =< frames[j + 1].sp
      <4>1. 2 \in 1..Len(frames) /\ (j + 1 = 2 \/ 2 < j + 1)
        BY <1>0, <3>1
      <4> QED  BY <1>0, <1>a, <3>1, <4>1
    <3>3. \A a \in Addresses : a >= frames[j + 1].sp => stack'[a] = stack[a]
      <4>1. 2 \in 1..Len(frames) /\ frames[2].sp \in 0..StackSize /\ frames[j + 1].sp \in 0..StackSize
        BY <1>0, <1>a, <3>1
      <4> QED  BY <2>6, <3>2, <4>1 DEF Addresses
    <3> QED  BY <3>1, <3>3, FramesKeep
  <2>8. ScanTypeOK'
    BY <1>0, <2>1, <2>3, <2>5 DEF ScanTypeOK
  <2> QED  BY <2>4, <2>5, <2>7, <2>8 DEF ScanInv, RunningWhole, RunningWholeIn
<1>4. CASE UNCHANGED vars
  BY <1>4 DEF vars, ScanInv, ScanTypeOK, FramesApart, WordsApart, RunningWhole
<1> QED  BY <1>1, <1>2, <1>3, <1>4 DEF Next

(* For any stack and any calls, what the stack holds is as ScanInv says.   *)
THEOREM ScanInvariant == Spec => []ScanInv
BY ScanInit, ScanNext, PTL DEF Spec

-----------------------------------------------------------------------------
(* The frames that are searched.                                           *)
Searched == 1..(mp_unwind - 1)

LEMMA SearchedFacts ==
    ASSUME ScanInv
    PROVE  /\ mp_unwind - 1 \in Nat
           /\ SizeT(mp_unwind - 1) = mp_unwind - 1
           /\ \A i \in Searched : /\ i \in 1..Len(frames) /\ i + 1 \in 1..Len(frames)
                                  /\ i < Len(frames) /\ i \in 1..(Len(frames) - 1)
                                  /\ frames[i].sp \in Nat
                                  /\ frames[i + 1].sp \in 0..StackSize
                                  /\ frames[i].sp < frames[i + 1].sp
<1> USE StackScanAssumption
<1>1. frames \in Seq(Frame) /\ Len(frames) >= 2 /\ Len(frames) \in Nat
  BY DEF ScanInv, ScanTypeOK, FramesApart
<1>2. mp_unwind - 1 \in Nat /\ mp_unwind =< Len(frames) - 1
  BY <1>1 DEF mp_unwind, Least
<1>4. SizeT(mp_unwind - 1) = mp_unwind - 1
  <2>1. mp_unwind \in Nat /\ mp_unwind =< MaxFrames
    BY <1>1 DEF mp_unwind, Least
  <2>2. mp_unwind - 1 \in 0..(SizeValues - 1) /\ SizeValues \in Nat \ {0}
    BY <1>2, <2>1
  <2>3. \A n, m \in Nat : n < m => n % m = n
    OBVIOUS
  <2> QED  BY <1>2, <2>2, <2>3 DEF SizeT
<1>3. ASSUME NEW i \in Searched
      PROVE  /\ i \in 1..Len(frames) /\ i + 1 \in 1..Len(frames)
             /\ i < Len(frames) /\ i \in 1..(Len(frames) - 1)
             /\ frames[i].sp \in Nat
             /\ frames[i + 1].sp \in 0..StackSize
             /\ frames[i].sp < frames[i + 1].sp
  <2>1. mp_unwind \in Int
    BY <1>1 DEF mp_unwind, Least
  <2>2. /\ i \in 1..Len(frames) /\ i + 1 \in 1..Len(frames) /\ i < i + 1
        /\ i < Len(frames) /\ i \in 1..(Len(frames) - 1)
    BY <1>1, <1>2, <2>1 DEF Searched
  <2>3. frames[i].sp < frames[i + 1].sp
    BY <2>2 DEF ScanInv, FramesApart
  <2>4. frames[i].sp \in 0..StackSize /\ frames[i + 1].sp \in 0..StackSize
    BY <1>1, <2>2, FrameFacts
  <2> QED  BY <2>2, <2>3, <2>4
<1> QED  BY <1>2, <1>3, <1>4

(* Where a frame is searched, there is room for a block before its end.    *)
LEMMA SearchRoom ==
    ASSUME ScanInv, NEW i \in Searched, NEW k \in 0..(SearchSize(i) - 1)
    PROVE  /\ k \in Nat /\ k < SearchWords
           /\ frames[i].sp + k \in Addresses
           /\ frames[i].sp + k + InfoWords =< frames[i + 1].sp
<1> USE StackScanAssumption
<1> DEFINE b == frames[i].sp
           e == frames[i + 1].sp
<1>1. b \in Nat /\ e \in Nat /\ e =< StackSize
  BY SearchedFacts
<1>2. SearchSize(i) = Least(e - b - InfoWords + 1, SearchWords)
  BY DEF SearchSize
<1> HIDE DEF b, e
<1>3. SearchSize(i) \in Int /\ SearchSize(i) =< e - b - InfoWords + 1 /\ SearchSize(i) =< SearchWords
  BY <1>1, <1>2 DEF Least
<1>4. k \in Nat /\ k < SearchWords /\ b + k + InfoWords =< e /\ b + k \in Addresses
  BY <1>1, <1>3 DEF Addresses
<1> QED  BY <1>4 DEF b, e

(* The search of a frame has at most one result: a good block, whose tag is*)
(* the first in the frame.                                                 *)
FirstTag(i, k) == k \in Tags(i) /\ \A j \in Tags(i) : k =< j

Info(i, p) == [trace_index |-> i - 1, id |-> stack[p][1], at |-> p]

LEMMA FrameInfoFacts ==
    ASSUME ScanInv, NEW i \in Searched
    PROVE  /\ IsSeq(FrameInfo(i)) /\ Len(FrameInfo(i)) =< 1
           /\ Len(FrameInfo(i)) = 0 <=> FrameInfo(i) = << >>
           /\ FrameInfo(i) # << >> => \E k \in Tags(i) : FirstTag(i, k)
           /\ \A k : FirstTag(i, k) =>
                  /\ frames[i].sp + k \in Addresses
                  /\ FrameInfo(i) # << >> <=> check_frame(frames[i].sp + k)
                  /\ FrameInfo(i) # << >> =>
                         FrameInfo(i)[1] = Info(i, frames[i].sp + k)
<1>1. \A k \in Tags(i) : k \in 0..(SearchSize(i) - 1)
  BY DEF Tags
<1>2. \A k \in Tags(i) : k \in Nat /\ frames[i].sp + k \in Addresses
  BY <1>1, SearchRoom
<1>3. CASE Tags(i) = {}
  <2>1. FrameInfo(i) = << >>
    BY <1>3 DEF FrameInfo
  <2>2. IsSeq(<< >>)
    BY DEF IsSeq
  <2> QED  BY <1>3, <2>1, <2>2 DEF FirstTag
<1>4. CASE Tags(i) # {}
  <2> DEFINE m == CHOOSE k \in Tags(i) : \A j \in Tags(i) : k =< j
             one == <<Info(i, frames[i].sp + m)>>
  <2>1. FirstTag(i, m)
    <3>1. \E k \in Tags(i) : \A j \in Tags(i) : k =< j
      BY <1>2, <1>4, LeastElement
    <3> QED  BY <3>1 DEF FirstTag
  <2>2. \A k : FirstTag(i, k) => k = m
    <3> SUFFICES ASSUME NEW k, FirstTag(i, k) PROVE k = m
      OBVIOUS
    <3>1. k =< m /\ m =< k
      BY <2>1 DEF FirstTag
    <3>2. k \in Nat /\ m \in Nat
      BY <1>2, <2>1 DEF FirstTag
    <3> HIDE DEF m
    <3> QED  BY <3>1, <3>2
  <2>3. FrameInfo(i) = IF check_frame(frames[i].sp + m) THEN one ELSE << >>
    BY <1>4 DEF FrameInfo, Info
  <2> HIDE DEF m
  <2>4. IsSeq(one) /\ Len(one) = 1 /\ one # << >> /\ one[1] = Info(i, frames[i].sp + m)
    <3>1. one \in Seq({Info(i, frames[i].sp + m)})
      OBVIOUS
    <3> QED  BY <3>1 DEF IsSeq
  <2>5. IsSeq(<< >>) /\ Len(<< >>) = 0
    BY DEF IsSeq
  <2> HIDE DEF one
  <2>6. /\ IsSeq(FrameInfo(i)) /\ Len(FrameInfo(i)) =< 1
        /\ Len(FrameInfo(i)) = 0 <=> FrameInfo(i) = << >>
        /\ FrameInfo(i) # << >> <=> check_frame(frames[i].sp + m)
        /\ FrameInfo(i) # << >> => FrameInfo(i)[1] = Info(i, frames[i].sp + m)
    <3>1. CASE check_frame(frames[i].sp + m)
      <4>1. FrameInfo(i) = one
        BY <2>3, <3>1
      <4>2. 1 =< 1 /\ 1 # 0
        OBVIOUS
      <4> QED  BY <2>4, <3>1, <4>1, <4>2, Zenon
    <3>2. CASE ~check_frame(frames[i].sp + m)
      BY <2>3, <2>5, <3>2
    <3> QED  BY <3>1, <3>2
  <2>7. m \in Tags(i) /\ frames[i].sp + m \in Addresses
    BY <1>2, <2>1 DEF FirstTag
  <2> QED  BY <2>1, <2>2, <2>6, <2>7
<1> QED  BY <1>3, <1>4

(* The frames in which an object is found, and what is recorded of them.   *)
FoundIn == {i \in Searched : FrameInfo(i) # << >>}

LEMMA TraceFacts ==
    ASSUME ScanInv
    PROVE  /\ Cardinality(FoundIn) \in Nat /\ Len(Ascending(FoundIn)) = Cardinality(FoundIn)
           /\ object_trace = [j \in 1..Least(Cardinality(FoundIn), MaxObjects) |->
                                 FrameInfo(Ascending(FoundIn)[j])[1]]
           /\ \A j \in 1..Cardinality(FoundIn) : Ascending(FoundIn)[j] \in FoundIn
           /\ \A i, j \in 1..Cardinality(FoundIn) :
                  i < j => Ascending(FoundIn)[i] < Ascending(FoundIn)[j]
           /\ Least(Cardinality(FoundIn), MaxObjects) \in 0..Cardinality(FoundIn)
<1> USE StackScanAssumption
<1> DEFINE n == mp_unwind - 1
           f == [i \in 1..n |-> FrameInfo(i)]
           all == FlattenSeq(f)
           c == Cardinality(FoundIn)
           l == Least(c, MaxObjects)
<1>1. n \in Nat
  BY SearchedFacts
<1>2a. \A i \in 1..n : f[i] = FrameInfo(i)
  OBVIOUS
<1>2. \A i \in 1..n : IsSeq(f[i]) /\ Len(f[i]) =< 1 /\ (Len(f[i]) = 0 <=> f[i] = << >>)
  BY <1>2a, FrameInfoFacts DEF Searched
<1>3. AreOptions(f, n)
  BY <1>2 DEF AreOptions
<1>4. FoundIn = {i \in 1..n : f[i] # << >>}
  BY DEF FoundIn, Searched
<1> HIDE DEF f, n
<1>5. /\ IsSeq(all) /\ Len(all) = c
      /\ \A j \in 1..c : Ascending(FoundIn)[j] \in FoundIn /\ all[j] = f[Ascending(FoundIn)[j]][1]
      /\ \A i, j \in 1..c : i < j => Ascending(FoundIn)[i] < Ascending(FoundIn)[j]
      /\ IsSeq(Ascending(FoundIn)) /\ Len(Ascending(FoundIn)) = c
  <2>1. PICK S : S = FoundIn
    OBVIOUS
  <2>2. S = {i \in 1..n : f[i] # << >>}
    BY <1>4, <2>1
  <2>3. /\ IsSeq(FlattenSeq(f)) /\ Len(FlattenSeq(f)) = Cardinality(S)
        /\ \A j \in 1..Cardinality(S) :
               Ascending(S)[j] \in S /\ FlattenSeq(f)[j] = f[Ascending(S)[j]][1]
        /\ \A i, j \in 1..Cardinality(S) : i < j => Ascending(S)[i] < Ascending(S)[j]
        /\ IsSeq(Ascending(S)) /\ Len(Ascending(S)) = Cardinality(S)
    BY ONLY <1>1, <1>3, <2>2, FlattenOptions
  <2> QED  BY ONLY <2>1, <2>3 DEF all, c
<1>6. c \in Nat
  BY <1>5, SeqFacts
<1>7. object_trace = SubSeq(all, 1, Least(Len(all), MaxObjects))
  <2>1. SizeT(mp_unwind - 1) = n
    BY SearchedFacts DEF n
  <2> QED  BY <2>1 DEF object_trace, mp_extract_events, all, f
<1> HIDE DEF all, c
<1>8. l \in 0..c /\ l \in Nat
  BY <1>6 DEF Least
<1> HIDE DEF l
<1>9. object_trace = [j \in 1..l |-> all[j]]
  <2>1. object_trace = SubSeq(all, 1, l)
    BY <1>5, <1>7 DEF l
  <2>2. PICK T : all \in Seq(T)
    BY <1>5 DEF IsSeq
  <2> QED  BY <1>5, <1>6, <1>8, <2>1, <2>2
<1>10. \A j \in 1..l : all[j] = FrameInfo(Ascending(FoundIn)[j])[1]
  <2> SUFFICES ASSUME NEW j \in 1..l PROVE all[j] = FrameInfo(Ascending(FoundIn)[j])[1]
    OBVIOUS
  <2>1. j \in 1..c
    BY <1>6, <1>8
  <2>2. Ascending(FoundIn)[j] \in 1..n
    BY <1>4, <1>5, <2>1
  <2> QED  BY <1>2a, <1>5, <2>1, <2>2
<1>11. object_trace = [j \in 1..l |-> FrameInfo(Ascending(FoundIn)[j])[1]]
  BY <1>9, <1>10
<1> QED  BY <1>5, <1>6, <1>8, <1>11 DEF c, l
(* What an object of the record is: the block found in a searched frame.   *)
LEMMA FoundBlock ==
    ASSUME ScanInv, NEW i \in FoundIn
    PROVE  \E k : /\ FirstTag(i, k) /\ check_frame(frames[i].sp + k)
                  /\ i \in Searched /\ k \in 0..(SearchSize(i) - 1)
                  /\ frames[i].sp + k \in Addresses
                  /\ FrameInfo(i)[1] = Info(i, frames[i].sp + k)
<1>1. i \in Searched /\ FrameInfo(i) # << >>
  BY DEF FoundIn
<1>2. PICK k \in Tags(i) : FirstTag(i, k)
  BY <1>1, FrameInfoFacts
<1>3. /\ frames[i].sp + k \in Addresses
      /\ check_frame(frames[i].sp + k)
      /\ FrameInfo(i)[1] = Info(i, frames[i].sp + k)
  BY <1>1, <1>2, FrameInfoFacts
<1>4. k \in 0..(SearchSize(i) - 1)
  BY <1>2 DEF Tags
<1> QED  BY <1>1, <1>2, <1>3, <1>4

(* Objects come from frames, in order.                                     *)
LEMMA ObjectFrames ==
    ASSUME ScanInv
    PROVE  /\ \A j \in DOMAIN object_trace :
                  /\ Ascending(FoundIn)[j] \in FoundIn
                  /\ object_trace[j] = FrameInfo(Ascending(FoundIn)[j])[1]
           /\ \A i, j \in DOMAIN object_trace :
                  i < j => Ascending(FoundIn)[i] < Ascending(FoundIn)[j]
<1> DEFINE c == Cardinality(FoundIn)
           l == Least(c, MaxObjects)
<1>1. /\ c \in Nat /\ l \in 0..c
      /\ object_trace = [j \in 1..l |-> FrameInfo(Ascending(FoundIn)[j])[1]]
      /\ \A j \in 1..c : Ascending(FoundIn)[j] \in FoundIn
      /\ \A i, j \in 1..c : i < j => Ascending(FoundIn)[i] < Ascending(FoundIn)[j]
  BY TraceFacts
<1> HIDE DEF c, l
<1>2. \A j \in 1..l : j \in 1..c
  BY <1>1
<1> QED  BY <1>1, <1>2

LEMMA ScanWhole == ASSUME ScanInv PROVE WholeBlocks
<1> SUFFICES ASSUME NEW j \in DOMAIN object_trace
             PROVE  LET o == object_trace[j]
                        i == o.trace_index + 1
                    IN  /\ i < Len(frames)
                        /\ frames[i].sp =< o.at /\ o.at + InfoWords =< frames[i + 1].sp
                        /\ \A k \in 0..(InfoWords - 1) : stack[o.at + k] = Word(o.id, k)
  BY DEF WholeBlocks, Reported
<1> DEFINE o == object_trace[j]
<1>1. PICK i \in FoundIn : o = FrameInfo(i)[1]
  BY ObjectFrames
<1>2. PICK k : /\ check_frame(frames[i].sp + k)
               /\ i \in Searched /\ k \in 0..(SearchSize(i) - 1)
               /\ FrameInfo(i)[1] = Info(i, frames[i].sp + k)
  BY FoundBlock
<1>3. /\ i < Len(frames) /\ i \in 1..Len(frames)
      /\ frames[i].sp \in Nat /\ frames[i].sp + k + InfoWords =< frames[i + 1].sp
      /\ k \in Nat
  BY <1>2, SearchedFacts, SearchRoom
<1>4. /\ o.trace_index = i - 1 /\ o.at = frames[i].sp + k
      /\ o.id = stack[frames[i].sp + k][1]
  BY <1>1, <1>2 DEF Info
<1>5. o.trace_index + 1 = i
  <2>1. i \in Int
    BY <1>2 DEF Searched
  <2> QED  BY <1>4, <2>1
<1>6. \A m \in 0..(InfoWords - 1) : stack[o.at + m] = Word(o.id, m)
  BY <1>2, <1>4 DEF check_frame
<1>7. frames[i].sp =< o.at
  BY <1>3, <1>4
<1> HIDE DEF o
<1> QED  BY <1>3, <1>4, <1>5, <1>6, <1>7 DEF o

LEMMA ScanDistinct == ASSUME ScanInv PROVE Distinct
<1> SUFFICES ASSUME NEW i \in DOMAIN object_trace, NEW j \in DOMAIN object_trace, i < j
             PROVE  /\ object_trace[i].id # object_trace[j].id
                    /\ object_trace[i].trace_index < object_trace[j].trace_index
  BY DEF Distinct
<1> DEFINE f == Ascending(FoundIn)[i]
           g == Ascending(FoundIn)[j]
<1>1. /\ f \in FoundIn /\ g \in FoundIn /\ f < g
      /\ object_trace[i] = FrameInfo(f)[1] /\ object_trace[j] = FrameInfo(g)[1]
  BY ObjectFrames
<1> HIDE DEF f, g
<1>2. PICK k : /\ FirstTag(f, k) /\ check_frame(frames[f].sp + k)
               /\ f \in Searched /\ k \in 0..(SearchSize(f) - 1)
               /\ frames[f].sp + k \in Addresses
               /\ FrameInfo(f)[1] = Info(f, frames[f].sp + k)
  BY <1>1, FoundBlock
<1>3. PICK l : /\ FirstTag(g, l) /\ check_frame(frames[g].sp + l)
               /\ g \in Searched /\ l \in 0..(SearchSize(g) - 1)
               /\ frames[g].sp + l \in Addresses
               /\ FrameInfo(g)[1] = Info(g, frames[g].sp + l)
  BY <1>1, FoundBlock
<1> DEFINE p == frames[f].sp + k
           q == frames[g].sp + l
<1>4. /\ object_trace[i].id = stack[p][1] /\ object_trace[i].trace_index = f - 1
      /\ object_trace[j].id = stack[q][1] /\ object_trace[j].trace_index = g - 1
  BY <1>1, <1>2, <1>3 DEF Info
<1>5. f - 1 < g - 1
  BY <1>1, <1>2, <1>3 DEF Searched
<1>6. p < q
  <2>1. /\ k \in Nat /\ l \in Nat /\ frames[f].sp \in Nat /\ frames[g].sp \in Nat
        /\ frames[f].sp + k + InfoWords =< frames[f + 1].sp
        /\ frames[f + 1].sp \in 0..StackSize
    BY <1>2, <1>3, SearchedFacts, SearchRoom
  <2>2. frames[f + 1].sp =< frames[g].sp
    <3>1. f + 1 \in 1..Len(frames) /\ g \in 1..Len(frames) /\ (f + 1 = g \/ f + 1 < g)
      BY <1>1, <1>2, <1>3, SearchedFacts
    <3>2. f + 1 < g => frames[f + 1].sp < frames[g].sp
      BY <3>1 DEF ScanInv, FramesApart
    <3> QED  BY <2>1, <3>1, <3>2
  <2>3. \A a, b, w, c, d, e \in Nat : a + b + w =< c /\ c =< d /\ w > 0 => a + b < d + e
    OBVIOUS
  <2>4. frames[f + 1].sp \in Nat /\ InfoWords \in Nat /\ InfoWords > 0
    BY <2>1, StackScanAssumption
  <2> QED  BY <2>1, <2>2, <2>3, <2>4
<1>7. stack[p] # Plain /\ stack[p][2] = 0 /\ stack[q] # Plain /\ stack[q][2] = 0
  BY <1>2, <1>3 DEF FirstTag, Tags, IsTag
<1>8. p \in Addresses /\ q \in Addresses
  BY <1>2, <1>3
<1> HIDE DEF p, q
<1>9. stack[p][1] # stack[q][1]
  <2> SUFFICES ASSUME stack[p][1] = stack[q][1] PROVE FALSE
    OBVIOUS
  <2>1. stack[p] \in Nat \X Nat /\ stack[q] \in Nat \X Nat
    BY <1>8 DEF ScanInv, ScanTypeOK
  <2>2. stack[p] = stack[q]
    BY <1>7, <2>1
  <2>3. p = q
    BY <1>7, <1>8, <2>2 DEF ScanInv, WordsApart
  <2>4. p \in Int
    BY <1>8 DEF Addresses
  <2> QED  BY <1>6, <2>3, <2>4
<1> QED  BY <1>4, <1>5, <1>9

(* Where no block of an earlier call is left, the first tag of a frame is  *)
(* the one of the destructor that runs in it.                              *)
NoRemains ==
    \A i \in Searched : \A k \in 0..(frames[i + 1].sp - frames[i].sp - 1) : ~Dead(i, k)

LEMMA FoundRunning ==
    ASSUME ScanInv, NoRemains, NEW i \in Searched
    PROVE  /\ FrameInfo(i) # << >> <=> Running(i)
           /\ Running(i) => FrameInfo(i)[1].id = frames[i].info.id
<1> USE StackScanAssumption
<1> DEFINE b == frames[i].sp
           e == frames[i + 1].sp
           info == frames[i].info
<1>1. /\ i \in 1..Len(frames) /\ b \in Nat /\ e \in Nat /\ b < e /\ e =< StackSize
      /\ InfoWords \in Nat /\ InfoWords > 0 /\ SearchWords \in Nat
  BY SearchedFacts
<1>2. info.id \in Nat /\ info.offset \in Nat
  BY <1>1, FrameFacts DEF ScanInv, ScanTypeOK
<1>3. info.id # 0 => /\ b + info.offset + InfoWords =< e
                     /\ \A k \in 0..(InfoWords - 1) : stack[(b + info.offset) + k] = Word(info.id, k)
  BY <1>1 DEF ScanInv, RunningWhole
<1>4. SearchSize(i) = Least(e - b - InfoWords + 1, SearchWords)
  BY DEF SearchSize
<1>5. \A k \in Tags(i) : info.id # 0 /\ info.offset = k /\ k < SearchWords
  <2> SUFFICES ASSUME NEW k \in Tags(i) PROVE info.id # 0 /\ info.offset = k /\ k < SearchWords
    OBVIOUS
  <2>1. k \in 0..(SearchSize(i) - 1) /\ IsTag(stack[b + k])
    BY DEF Tags
  <2>2. k \in Nat /\ k < SearchWords /\ b + k + InfoWords =< e
    BY <2>1, SearchRoom
  <2>3. k \in 0..(e - b - 1)
    <3> HIDE DEF b, e
    <3> QED  BY <1>1, <2>2
  <2>4. ~Dead(i, k)
    BY <2>3 DEF NoRemains
  <2> QED  BY <2>1, <2>2, <2>4 DEF Dead
<1>6. ASSUME Running(i)
      PROVE  FrameInfo(i) # << >> /\ FrameInfo(i)[1].id = info.id
  <2> DEFINE k == info.offset
  <2>1. info.id # 0 /\ k < SearchWords
    BY <1>6 DEF Running
  <2>2. \A m \in 0..(InfoWords - 1) : stack[(b + k) + m] = Word(info.id, m)
    BY <1>3, <2>1
  <2>3. b + k \in Nat /\ (b + k) + 0 = b + k /\ 0 \in 0..(InfoWords - 1)
    <3> HIDE DEF b, k
    <3> QED  BY <1>1, <1>2 DEF k
  <2>4. stack[b + k] = <<info.id, 0>>
    BY <2>2, <2>3 DEF Word
  <2>5. k \in 0..(SearchSize(i) - 1)
    <3>1. k \in Nat /\ b + k + InfoWords =< e
      BY <1>2, <1>3, <2>1
    <3> HIDE DEF b, e, k
    <3>2. k =< e - b - InfoWords
      BY <1>1, <3>1
    <3> QED  BY <1>1, <1>4, <2>1, <3>1, <3>2 DEF Least
  <2>6. IsTag(stack[b + k])
    BY <1>2, <2>1, <2>4 DEF IsTag, Plain
  <2>7. k \in Tags(i)
    BY <2>5, <2>6 DEF Tags
  <2>8. \A j \in Tags(i) : j = k
    BY <1>5
  <2>9. FirstTag(i, k)
    BY <1>2, <2>7, <2>8 DEF FirstTag
  <2>10. check_frame(b + k)
    <3>1. stack[b + k][1] = info.id
      BY <2>4
    <3> QED  BY <2>2, <3>1 DEF check_frame
  <2>11. FrameInfo(i) # << >> /\ FrameInfo(i)[1] = Info(i, b + k)
    BY <2>9, <2>10, FrameInfoFacts
  <2> QED  BY <2>4, <2>11 DEF Info
<1>7. FrameInfo(i) # << >> => Running(i)
  BY <1>5, FrameInfoFacts DEF Running
<1> QED  BY <1>6, <1>7

LEMMA ScanLive == ASSUME ScanInv PROVE LiveExactly
<1> DEFINE live == Ascending({i \in 1..(mp_unwind - 1) : Running(i)})
<1> SUFFICES ASSUME NoRemains
             PROVE  [j \in DOMAIN object_trace |-> object_trace[j].id] =
                        [j \in 1..Least(Len(live), MaxObjects) |-> frames[live[j]].info.id]
  BY DEF LiveExactly, NoRemains, Searched
<1>1. {i \in 1..(mp_unwind - 1) : Running(i)} = FoundIn
  BY FoundRunning DEF FoundIn, Searched
<1>2. live = Ascending(FoundIn)
  BY <1>1
<1> DEFINE c == Cardinality(FoundIn)
           l == Least(c, MaxObjects)
           obj == Ascending(FoundIn)
<1>3. /\ c \in Nat /\ Len(obj) = c /\ l \in 0..c
      /\ object_trace = [j \in 1..l |-> FrameInfo(obj[j])[1]]
      /\ \A j \in 1..c : obj[j] \in FoundIn
  BY TraceFacts
<1> HIDE DEF c, l, obj, live
<1>4. Least(Len(live), MaxObjects) = l
  BY <1>2, <1>3 DEF l, obj
<1>5. DOMAIN object_trace = 1..l
  BY <1>3
<1>6. ASSUME NEW j \in 1..l PROVE object_trace[j].id = frames[live[j]].info.id
  <2>1. j \in 1..c
    BY <1>3
  <2>2. obj[j] \in FoundIn /\ live[j] = obj[j]
    BY <1>2, <1>3, <2>1 DEF obj
  <2>3. obj[j] \in Searched /\ Running(obj[j])
    BY <2>2, FoundRunning DEF FoundIn
  <2>4. FrameInfo(obj[j])[1].id = frames[obj[j]].info.id
    BY <2>3, FoundRunning
  <2> QED  BY <1>3, <2>2, <2>4
<1> QED  BY <1>4, <1>5, <1>6

(* The trace shows of a searched frame what the record has of it.          *)
LEMMA ShownFound ==
    ASSUME ScanInv, NEW i \in Searched
    PROVE  /\ ShowFrame(i).print = "info" <=> FrameInfo(i) # << >>
           /\ FrameInfo(i) # << >> =>
                  FrameInfo(i)[1] = [trace_index |-> i - 1, id |-> ShowFrame(i).id, at |-> ShowFrame(i).at]
<1> DEFINE b == frames[i].sp
<1>1. b \in Nat
  BY SearchedFacts
<1>2. \A k \in Tags(i) : k \in 0..(SearchSize(i) - 1) /\ k \in Nat
  BY SearchRoom DEF Tags
<1>3. SearchSize(i) \in Int /\ SearchSize(i) = ShowSize(i)
  <2>1. frames[i + 1].sp \in Int /\ frames[i].sp \in Int /\ InfoWords \in Int /\ SearchWords \in Int
    BY SearchedFacts, StackScanAssumption
  <2> QED  BY <2>1 DEF SearchSize, ShowSize, Least
<1> HIDE DEF b
<1>4. \A k \in Tags(i) : b + k \in ShowTags(i)
  <2> SUFFICES ASSUME NEW k \in Tags(i) PROVE b + k \in ShowTags(i)
    OBVIOUS
  <2>1. IsTag(stack[b + k])
    BY DEF Tags, b
  <2>2. b + k \in b..(b + SearchSize(i) - 1)
    BY <1>1, <1>2, <1>3
  <2> QED  BY <1>3, <2>1, <2>2 DEF ShowTags, b
<1>5. \A p \in ShowTags(i) : p - b \in Tags(i) /\ p \in Int
  <2> SUFFICES ASSUME NEW p \in ShowTags(i) PROVE p - b \in Tags(i) /\ p \in Int
    OBVIOUS
  <2>1. p \in b..(b + SearchSize(i) - 1) /\ IsTag(stack[p])
    BY <1>3 DEF ShowTags, b
  <2>2. p - b \in 0..(SearchSize(i) - 1) /\ b + (p - b) = p /\ p \in Int
    BY <1>1, <1>3, <2>1
  <2> QED  BY <2>1, <2>2 DEF Tags, b
<1>6. CASE Tags(i) = {}
  <2>1. ShowTags(i) = {}
    BY <1>5, <1>6
  <2>2. ShowFrame(i).print = "none"
    BY <2>1 DEF ShowFrame
  <2>3. FrameInfo(i) = << >>
    BY <1>6 DEF FrameInfo
  <2> QED  BY <2>2, <2>3
<1>7. CASE Tags(i) # {}
  <2>1. PICK k \in Tags(i) : \A j \in Tags(i) : k =< j
    <3>1. Tags(i) \subseteq Nat
      BY <1>2
    <3> QED  BY <1>7, <3>1, LeastElement
  <2> DEFINE p == CHOOSE p \in ShowTags(i) : \A q \in ShowTags(i) : p =< q
  <2>2. b + k \in ShowTags(i) /\ \A q \in ShowTags(i) : b + k =< q
    <3>1. ASSUME NEW q \in ShowTags(i) PROVE b + k =< q
      <4>1. k =< q - b /\ q \in Int /\ k \in Nat
        BY <1>2, <1>5, <2>1
      <4> QED  BY <1>1, <4>1
    <3> QED  BY <1>4, <3>1
  <2>3. p \in ShowTags(i) /\ \A q \in ShowTags(i) : p =< q
    BY <2>2
  <2>4. p = b + k
    <3>1. p =< b + k /\ b + k =< p /\ p \in Int /\ b + k \in Int
      BY <1>5, <2>2, <2>3
    <3> HIDE DEF p
    <3> QED  BY <3>1
  <2>5. ShowFrame(i) = IF check_frame(p) THEN [print |-> "info", id |-> stack[p][1], at |-> p]
                       ELSE [print |-> "bad_checksum"]
    BY <2>2 DEF ShowFrame, FirstShown
  <2> HIDE DEF p
  <2>6. FirstTag(i, k)
    BY <2>1 DEF FirstTag
  <2>7. /\ FrameInfo(i) # << >> <=> check_frame(b + k)
        /\ FrameInfo(i) # << >> => FrameInfo(i)[1] = Info(i, b + k)
    BY <2>6, FrameInfoFacts DEF b
  <2>8. CASE check_frame(p)
    <3>1. ShowFrame(i) = [print |-> "info", id |-> stack[p][1], at |-> p]
      BY <2>5, <2>8
    <3> QED  BY <2>4, <2>7, <2>8, <3>1 DEF Info
  <2>9. CASE ~check_frame(p)
    <3>1. ShowFrame(i) = [print |-> "bad_checksum"]
      BY <2>5, <2>9
    <3>2. ShowFrame(i).print = "bad_checksum"
      BY <3>1
    <3> QED  BY <2>4, <2>7, <2>9, <3>2
  <2> QED  BY <2>8, <2>9
<1> QED  BY <1>6, <1>7

(* The least members of S come first in Ascending(S).                      *)
LEMMA AscendingPrefix ==
    ASSUME NEW S, IsFiniteSet(S), S \subseteq Int, NEW n \in Int,
           NEW A, A = {i \in S : i =< n}
    PROVE  /\ Cardinality(A) \in 0..Cardinality(S) /\ Cardinality(S) \in Nat
           /\ Len(Ascending(A)) = Cardinality(A)
           /\ \A j \in 1..Cardinality(A) :
                  Ascending(A)[j] \in A /\ Ascending(S)[j] = Ascending(A)[j]
           /\ \A j \in 1..Cardinality(S) : j > Cardinality(A) => Ascending(S)[j] > n
<1> DEFINE key == [x \in S |-> x]
           low == [x \in A |-> x]
<1>1. IsFiniteSet(A) /\ A \subseteq S /\ A \subseteq Int
  BY FS_Subset
<1>2. Cardinality(A) \in 0..Cardinality(S) /\ Cardinality(S) \in Nat /\ Cardinality(A) \in Nat
  BY <1>1, FS_Subset, FS_CardinalityType
<1>3. DistinctKeys(S, key) /\ DistinctKeys(A, low)
  BY <1>1 DEF DistinctKeys
<1>4. \A x \in A : Rank(A, low, x) = Rank(S, key, x)
  <2> SUFFICES ASSUME NEW x \in A PROVE Rank(A, low, x) = Rank(S, key, x)
    OBVIOUS
  <2>1. x \in S /\ x \in Int /\ low[x] = x /\ key[x] = x
    BY <1>1
  <2>2. \A y \in S : key[y] =< key[x] => y \in A /\ low[y] = y
    <3> SUFFICES ASSUME NEW y \in S, key[y] =< key[x] PROVE y \in A
      OBVIOUS
    <3>1. y =< x /\ x =< n /\ y \in Int
      BY <2>1
    <3> QED  BY <3>1
  <2>3. \A y \in A : y \in S /\ low[y] = key[y]
    BY <1>1
  <2>4. {y \in A : low[y] =< low[x]} = {y \in S : key[y] =< key[x]}
    <3> HIDE DEF key, low
    <3>1. \A y \in S : key[y] =< key[x] => y \in A
      BY <2>2
    <3>2. low[x] = key[x]
      BY <2>1
    <3> QED  BY <2>3, <3>1, <3>2, Zenon
  <2> QED  BY <2>4 DEF Rank
<1>5. \A x \in S : key[x] = x
  OBVIOUS
<1> HIDE DEF key, low
<1>6. /\ \A x \in A : Rank(A, low, x) \in 1..Cardinality(A)
      /\ \A j \in 1..Cardinality(A) : \E x \in A : Rank(A, low, x) = j
  <2>1. IsFiniteSet(A) /\ DistinctKeys(A, low)
    BY <1>1, <1>3
  <2> QED  BY ONLY <2>1, RankFacts
<1>7. /\ \A x, y \in S : key[x] < key[y] => Rank(S, key, x) < Rank(S, key, y)
      /\ \A x \in S : Rank(S, key, x) \in 1..Cardinality(S)
      /\ \A j \in 1..Cardinality(S) : \E x \in S : Rank(S, key, x) = j
  BY <1>3, RankFacts, Zenon
<1>8. \A x, y \in S : Rank(S, key, x) = Rank(S, key, y) => x = y
  <2> SUFFICES ASSUME NEW x \in S, NEW y \in S, Rank(S, key, x) = Rank(S, key, y), x # y
               PROVE  FALSE
    OBVIOUS
  <2>1. key[x] < key[y] \/ key[y] < key[x]
    BY <1>5
  <2>2. Rank(S, key, x) \in Int /\ Rank(S, key, y) \in Int
    BY <1>7
  <2> QED  BY <1>7, <2>1, <2>2
<1>9. /\ \A j \in 1..Cardinality(S) : Ascending(S)[j] \in S /\ Rank(S, key, Ascending(S)[j]) = j
      /\ \A j \in 1..Cardinality(A) : Ascending(A)[j] \in A /\ Rank(A, low, Ascending(A)[j]) = j
  BY <1>6, <1>7 DEF Ascending, SortedBy, key, low
<1>10. Len(Ascending(A)) = Cardinality(A)
  BY <1>2 DEF Ascending, SortedBy
<1>11. ASSUME NEW j \in 1..Cardinality(A) PROVE Ascending(S)[j] = Ascending(A)[j]
  <2>1. j \in 1..Cardinality(S)
    BY <1>2
  <2>2. Ascending(S)[j] \in S /\ Rank(S, key, Ascending(S)[j]) = j
    BY <1>9, <2>1, Zenon
  <2>3. Ascending(A)[j] \in S /\ Rank(S, key, Ascending(A)[j]) = j
    BY <1>1, <1>4, <1>9, Zenon
  <2> QED  BY <1>8, <2>2, <2>3, Zenon
<1>12. ASSUME NEW j \in 1..Cardinality(S), j > Cardinality(A) PROVE Ascending(S)[j] > n
  <2>1. Ascending(S)[j] \in S /\ Rank(S, key, Ascending(S)[j]) = j
    BY <1>9
  <2>2. Ascending(S)[j] \notin A
    <3> SUFFICES ASSUME Ascending(S)[j] \in A PROVE FALSE
      OBVIOUS
    <3>1. j \in 1..Cardinality(A)
      BY <1>4, <1>6, <2>1
    <3> QED  BY <1>2, <1>12, <3>1
  <2>3. Ascending(S)[j] \in Int
    BY <2>1
  <2> QED  BY <2>1, <2>2, <2>3
<1> QED  BY <1>2, <1>9, <1>10, <1>11, <1>12

(* The traces of a stack: the frames they print are the first ones.        *)
LEMMA TracePrinted ==
    ASSUME ScanInv, NEW trace \in mp_unwind_show_trace, trace.end # "overrun"
    PROVE  \E n \in 0..(Len(frames) - 1) : trace.printed = Printed(n)
<1>1. Len(frames) \in Nat /\ Len(frames) >= 2
  BY DEF ScanInv, ScanTypeOK, FramesApart
<1>2. CASE Len(frames) > TraceFrames
  BY <1>2 DEF mp_unwind_show_trace
<1>3. CASE ~(Len(frames) > TraceFrames)
  <2>1. CASE trace = [end |-> "complete", printed |-> Printed(Len(frames) - 1)]
    BY <1>1, <2>1
  <2>2. CASE \E i \in 1..(Len(frames) - 1) : trace = [end |-> "fault", printed |-> Printed(i - 1)]
    BY <1>1, <2>2
  <2> QED  BY <1>3, <2>1, <2>2 DEF mp_unwind_show_trace
<1> QED  BY <1>2, <1>3

LEMMA ScanAgrees == ASSUME ScanInv PROVE TraceAgrees
<1> USE StackScanAssumption
<1> SUFFICES ASSUME NEW trace \in mp_unwind_show_trace, trace.end # "overrun"
             PROVE  LET n == Least(Len(trace.printed), mp_unwind - 1)
                        shown == Ascending({i \in 1..n : trace.printed[i].print = "info"})
                        m == Least(Len(shown), MaxObjects)
                    IN  /\ m =< Len(object_trace)
                        /\ \A j \in 1..m :
                               object_trace[j] = [trace_index |-> shown[j] - 1,
                                                  id |-> trace.printed[shown[j]].id,
                                                  at |-> trace.printed[shown[j]].at]
                        /\ \A j \in (m + 1)..Len(object_trace) : object_trace[j].trace_index >= n
  BY DEF TraceAgrees
<1>1. PICK w \in 0..(Len(frames) - 1) : trace.printed = Printed(w)
  BY TracePrinted
<1>2. /\ Len(trace.printed) = w /\ w \in Nat
      /\ \A i \in 1..w : trace.printed[i] = ShowFrame(i)
  <2>1. w \in Nat
    BY DEF ScanInv, ScanTypeOK, FramesApart
  <2> QED  BY <1>1, <2>1 DEF Printed
<1> DEFINE n == Least(w, mp_unwind - 1)
           A == {i \in 1..n : trace.printed[i].print = "info"}
           a == Cardinality(A)
           c == Cardinality(FoundIn)
           l == Least(c, MaxObjects)
           obj == Ascending(FoundIn)
           shown == Ascending(A)
           m == Least(Len(shown), MaxObjects)
<1>3. n \in Nat /\ n =< w /\ n =< mp_unwind - 1 /\ mp_unwind - 1 \in Nat
  BY <1>2, SearchedFacts DEF Least
<1>4. A = {i \in FoundIn : i =< n}
  <2>1. \A i \in 1..n : i \in Searched /\ trace.printed[i] = ShowFrame(i)
    <3> HIDE DEF n
    <3> QED  BY <1>2, <1>3 DEF Searched
  <2>2. \A i \in Searched : i =< n => i \in 1..n
    BY <1>3 DEF Searched
  <2>3. \A i \in 1..n : i =< n
    BY <1>3
  <2>4. \A i \in Searched : ShowFrame(i).print = "info" <=> FrameInfo(i) # << >>
    BY ShownFound
  <2> HIDE DEF n
  <2>5. \A i \in 1..n : trace.printed[i].print = "info" <=> i \in FoundIn
    BY <2>1, <2>4, Zenon DEF FoundIn
  <2>6. \A i : i \in A <=> i \in 1..n /\ i \in FoundIn
    BY <2>5
  <2>7. \A i : i \in FoundIn /\ i =< n <=> i \in 1..n /\ i \in FoundIn
    BY <2>2, <2>3, Zenon DEF FoundIn
  <2> HIDE DEF A
  <2> QED  BY <2>6, <2>7, Zenon
<1>5. IsFiniteSet(FoundIn) /\ FoundIn \subseteq Int
  <2>1. IsFiniteSet(Searched)
    BY <1>3, UptoFinite DEF Searched
  <2>2. FoundIn \subseteq Searched /\ Searched \subseteq Int
    BY DEF FoundIn, Searched
  <2> QED  BY ONLY <2>1, <2>2, FS_Subset
<1> HIDE DEF n, A
<1>6. /\ a \in 0..c /\ c \in Nat /\ Len(shown) = a
      /\ \A j \in 1..a : shown[j] \in A /\ obj[j] = shown[j]
      /\ \A j \in 1..c : j > a => obj[j] > n
  <2>1. PICK S : S = FoundIn
    OBVIOUS
  <2>2. n \in Int /\ A = {i \in S : i =< n} /\ IsFiniteSet(S) /\ S \subseteq Int
    BY <1>3, <1>4, <1>5, <2>1
  <2>3. /\ Cardinality(A) \in 0..Cardinality(S) /\ Cardinality(S) \in Nat
        /\ Len(Ascending(A)) = Cardinality(A)
        /\ \A j \in 1..Cardinality(A) :
               Ascending(A)[j] \in A /\ Ascending(S)[j] = Ascending(A)[j]
        /\ \A j \in 1..Cardinality(S) : j > Cardinality(A) => Ascending(S)[j] > n
    BY ONLY <2>2, AscendingPrefix
  <2> QED  BY <2>1, <2>3
<1>7. /\ object_trace = [j \in 1..l |-> FrameInfo(obj[j])[1]]
      /\ \A j \in 1..c : obj[j] \in FoundIn
  BY TraceFacts
<1>8. l \in Nat /\ l =< c /\ m \in Nat /\ m =< l /\ m =< a /\ Len(object_trace) = l
      /\ (m < l => m = a)
  <2>1. l \in Nat /\ l =< c /\ m \in Nat /\ m =< l /\ m =< a /\ (m < l => m = a)
    <3> HIDE DEF a, c, obj, shown
    <3> QED  BY <1>6 DEF Least
  <2> HIDE DEF l
  <2> QED  BY <1>7, <2>1
<1> HIDE DEF a, c, l, m, obj, shown
<1>9. \A i \in FoundIn : /\ i \in Int
                         /\ FrameInfo(i)[1] = [trace_index |-> i - 1, id |-> ShowFrame(i).id,
                                               at |-> ShowFrame(i).at]
  BY <1>5, ShownFound DEF FoundIn
<1>10. ASSUME NEW j \in 1..m
       PROVE  object_trace[j] = [trace_index |-> shown[j] - 1,
                                 id |-> trace.printed[shown[j]].id,
                                 at |-> trace.printed[shown[j]].at]
  <2>1. j \in 1..a /\ j \in 1..l
    BY <1>6, <1>8
  <2>2. shown[j] \in A /\ obj[j] = shown[j]
    BY <1>6, <2>1
  <2>3. shown[j] \in FoundIn /\ shown[j] \in 1..w
    BY <1>2, <1>3, <1>4, <2>2 DEF A
  <2>4. trace.printed[shown[j]] = ShowFrame(shown[j])
    BY <1>2, <2>3
  <2>5. object_trace[j] = FrameInfo(shown[j])[1]
    BY <1>7, <2>1, <2>2
  <2> QED  BY <1>9, <2>3, <2>4, <2>5
<1>11. ASSUME NEW j \in (m + 1)..Len(object_trace) PROVE object_trace[j].trace_index >= n
  <2>1. j \in 1..l /\ j \in 1..c /\ j > a
    BY <1>6, <1>8
  <2>2. obj[j] > n /\ obj[j] \in FoundIn /\ object_trace[j] = FrameInfo(obj[j])[1]
    BY <1>6, <1>7, <2>1
  <2>3. PICK i \in FoundIn : i = obj[j]
    BY <2>2
  <2>4. i \in Int /\ FrameInfo(i)[1] = [trace_index |-> i - 1, id |-> ShowFrame(i).id,
                                       at |-> ShowFrame(i).at]
    BY <1>9
  <2>5. FrameInfo(i)[1].trace_index = i - 1
    BY <2>4
  <2> QED  BY <1>3, <2>2, <2>3, <2>4, <2>5
<1>12. m =< Len(object_trace)
  BY <1>8
<1> QED  BY <1>2, <1>10, <1>11, <1>12 DEF n, A, m, shown

(* Where no block of an earlier call is left, the first tag that is shown  *)
(* is of a whole block.                                                    *)
LEMMA ScanCompletes == ASSUME ScanInv PROVE TraceCompletes
<1> USE StackScanAssumption
<1> SUFFICES ASSUME Len(frames) =< TraceFrames,
                    \A i \in 1..(Len(frames) - 1) :
                        \A k \in 0..(frames[i + 1].sp - frames[i].sp - 1) : ~Dead(i, k)
             PROVE  \A trace \in mp_unwind_show_trace :
                        trace.end = "complete" /\ Len(trace.printed) = Len(frames) - 1
  BY DEF TraceCompletes
<1>1. frames \in Seq(Frame) /\ Len(frames) \in Nat /\ Len(frames) >= 2
  BY DEF ScanInv, ScanTypeOK, FramesApart
<1>2. ASSUME NEW i \in 1..(Len(frames) - 1) PROVE ~MayFault(i)
  <2> SUFFICES ASSUME ShowTags(i) # {} PROVE IsTypeData(stack[FirstShown(i) + TypeDataAt])
    BY DEF MayFault
  <2> DEFINE b == frames[i].sp
             e == frames[i + 1].sp
             info == frames[i].info
             p == FirstShown(i)
  <2>1. /\ i \in 1..Len(frames) /\ i + 1 \in 1..Len(frames) /\ i < i + 1
        /\ b \in Nat /\ e \in Nat /\ info.id \in Nat /\ info.offset \in Nat
    <3>1. i \in 1..Len(frames) /\ i + 1 \in 1..Len(frames) /\ i < i + 1
      BY <1>1
    <3> QED  BY <1>1, <3>1, FrameFacts
  <2>2. \A q \in ShowTags(i) : q \in Nat /\ q >= b /\ q + InfoWords =< e /\ IsTag(stack[q])
    <3> HIDE DEF b, e
    <3>1. ShowSize(i) \in Int /\ ShowSize(i) =< e - b - InfoWords + 1
      BY <2>1 DEF ShowSize, Least, b, e
    <3>2. \A q \in ShowTags(i) : q \in b..(b + ShowSize(i) - 1) /\ IsTag(stack[q])
      BY DEF ShowTags, b
    <3>3. \A q \in b..(b + ShowSize(i) - 1) : q \in Nat /\ q >= b /\ q + InfoWords =< e
      BY <2>1, <3>1
    <3> QED  BY <3>2, <3>3
  <2>3. p \in ShowTags(i)
    <3>1. \E q \in ShowTags(i) : \A x \in ShowTags(i) : q =< x
      <4>1. ShowTags(i) \subseteq Nat
        BY <2>2
      <4> QED  BY <4>1, LeastElement
    <3> QED  BY <3>1 DEF FirstShown
  <2> HIDE DEF p
  <2>4. p \in Nat /\ p >= b /\ p + InfoWords =< e /\ IsTag(stack[p])
    BY <2>2, <2>3
  <2>5. info.id # 0 /\ info.offset = p - b
    <3>1. p - b \in 0..(e - b - 1) /\ b + (p - b) = p
      <4> HIDE DEF b, e
      <4> QED  BY <2>1, <2>4
    <3>2. ~Dead(i, p - b)
      BY <3>1
    <3> QED  BY <2>4, <3>1, <3>2 DEF Dead
  <2>6. \A k \in 0..(InfoWords - 1) : stack[(b + info.offset) + k] = Word(info.id, k)
    BY <2>1, <2>5 DEF ScanInv, RunningWhole
  <2>7. b + info.offset = p /\ TypeDataAt \in 0..(InfoWords - 1) /\ TypeDataAt # 0
    <3> HIDE DEF b
    <3> QED  BY <2>1, <2>4, <2>5
  <2>8. stack[p + TypeDataAt] = <<info.id, TypeDataAt>>
    BY <2>6, <2>7 DEF Word
  <2>9. IsTypeData(stack[p + TypeDataAt])
    BY <2>7, <2>8 DEF IsTypeData, Plain
  <2> QED  BY <2>9 DEF p
<1>3. TraceFrames \in Nat /\ ~(Len(frames) > TraceFrames)
  BY <1>1
<1>4. mp_unwind_show_trace = {[end |-> "complete", printed |-> Printed(Len(frames) - 1)]}
  BY <1>2, <1>3 DEF mp_unwind_show_trace
<1>5. Len(Printed(Len(frames) - 1)) = Len(frames) - 1
  BY <1>1 DEF Printed
<1> QED  BY <1>4, <1>5

-----------------------------------------------------------------------------
(* For any stack, a recorded object is one block, whole and within the     *)
(* frame it is said to be in (mp_extract_events, check_frame).             *)
THEOREM ScanWholeBlocks == Spec => []WholeBlocks
BY ScanInvariant, ScanWhole, PTL

(* For any stack, no call of save_state is recorded twice, and the objects *)
(* of an event go from the innermost frame outwards.                       *)
THEOREM ScanDistinctObjects == Spec => []Distinct
BY ScanInvariant, ScanDistinct, PTL

(* Where no remains of earlier calls are in the frames searched, exactly   *)
(* the running destructors are recorded, up to the limits.                 *)
THEOREM ScanLiveExactly == Spec => []LiveExactly
BY ScanInvariant, ScanLive, PTL

(* For any stack, the record has what mp_unwind_show_trace prints of the   *)
(* same frames, as far as the trace gets and the limits of the record go.  *)
THEOREM ScanTraceAgrees == Spec => []TraceAgrees
BY ScanInvariant, ScanAgrees, PTL

(* Where no remains of earlier calls are in the frames, the trace of a     *)
(* stack that its arrays hold reads no type_data but that of a destructor  *)
(* that runs, and is printed to the end.                                   *)
THEOREM ScanTraceCompletes == Spec => []TraceCompletes
BY ScanInvariant, ScanCompletes, PTL
=============================================================================
